----------------------- MODULE IngestionSafetyProofs ------------------------
(***************************************************************************)
(* Proofs about the rows, objects and messages of the ingestion pipeline.  *)
(***************************************************************************)
EXTENDS IngestionPipeline, TLAPS

(***************************************************************************)
(* Theorems about IngestionPipeline for every number of uploads, workers,  *)
(* retries and disruptions.                                                *)
(***************************************************************************)
(***************************************************************************)
(* The state of a request and of a worker fits its program counter; this   *)
(* is what makes TypeOK inductive.                                         *)
(***************************************************************************)
FitRequest(s) ==
    /\ s.pc # "new" => s.form \in SubmissionType
    /\ s.pc \in {"load", "publish"} => s.target \in Document
    /\ s.pc = "discard" /\ s.after = None => s.target \in Document

FitTask(s) ==
    /\ s.pc # "idle" => s.doc \in Document
    /\ s.pc = "persist" => s.bytes \in Content
    /\ s.pc = "fail" => s.cause \in FailureCause
    /\ s.pc = "republish" => s.retries < MaxRetries

UploadFits == \A d \in Document : FitRequest(upload[d])
WorkerFits == \A w \in Worker : FitTask(worker[w])

Fits == TypeOK /\ UploadFits /\ WorkerFits

USE StoreAssumption, RetriesAssumption, SubmissionAssumption, AnswerAssumption,
    DisruptionAssumption

(***************************************************************************)
(* The row transactions map rows to rows.                                  *)
(***************************************************************************)
LEMMA RowTransactions ==
    ASSUME NEW r \in Row
    PROVE  /\ StartIngestion(r) \in Row
           /\ \A cause \in FailureCause : MarkFailed(r, cause) \in Row
           /\ MarkQueuedForRetry(r) \in Row
           /\ ExhaustRetries(r) \in Row
           /\ \A c \in Content : PersistArtifacts(r, c) \in Row
<1>1. /\ StartIngestion(r) \in Row
      /\ MarkQueuedForRetry(r) \in Row
      /\ ExhaustRetries(r) \in Row
  BY DEF Row, Status, FailureCause, Terminal, StartIngestion, MarkFailed,
         MarkQueuedForRetry, ExhaustRetries
<1>2. \A cause \in FailureCause : MarkFailed(r, cause) \in Row
  BY DEF Row, Status, MarkFailed
<1>3. \A c \in Content : PersistArtifacts(r, c) \in Row
  BY DEF Row, Status, PersistArtifacts
<1>4. QED
  BY <1>1, <1>2, <1>3

LEMMA NewRowIsRow ==
    ASSUME NEW f \in SubmissionType
    PROVE  QueuedRow(f.user, f.content, f.requestId) \in Row
BY DEF Row, Status, SubmissionType, QueuedRow

(***************************************************************************)
(* The queries return document ids.                                        *)
(***************************************************************************)
LEMMA QueriesReturnDocuments ==
    ASSUME NEW user, NEW value
    PROVE  /\ RequestMatches(user, value) \subseteq Document
           /\ PreferredDuplicates(user, value) \subseteq Document
BY DEF RequestMatches, PreferredDuplicates, UsableDuplicates

(***************************************************************************)
(* One request, or one worker, moves to a well-formed state.               *)
(***************************************************************************)
LEMMA BecomeFits ==
    ASSUME upload \in [Document -> UploadState], UploadFits,
           NEW d \in Document, NEW s \in UploadState, FitRequest(s), Become(d, s)
    PROVE  upload' \in [Document -> UploadState] /\ UploadFits'
BY DEF UploadFits, FitRequest, Become

LEMMA HoldFits ==
    ASSUME worker \in [Worker -> WorkerState], WorkerFits,
           NEW w \in Worker, NEW s \in WorkerState, FitTask(s), Hold(w, s)
    PROVE  worker' \in [Worker -> WorkerState] /\ WorkerFits'
BY DEF WorkerFits, FitTask, Hold

(***************************************************************************)
(* Messages are counted in the queue.                                      *)
(***************************************************************************)
LEMMA QueueCounts ==
    ASSUME queue \in [Document \X Attempt -> Nat], NEW d \in Document, NEW r \in Attempt
    PROVE  /\ Enqueue(d, r) => queue' \in [Document \X Attempt -> Nat]
           /\ queue[<<d, r>>] > 0 /\ Dequeue(d, r)
              => queue' \in [Document \X Attempt -> Nat]
BY DEF Enqueue, Dequeue

LEMMA InitFits == Init => Fits
<1> SUFFICES ASSUME Init PROVE Fits
  OBVIOUS
<1>1. TypeOK
  BY DEF Init, StoreInit, QueueInit, UploadInit, WorkerInit, TypeOK, Row, NoRow,
         Status, UploadState, NewUpload, UploadPc, WorkerState, IdleWorker,
         WorkerPc, Attempt
<1>2. UploadFits /\ WorkerFits
  BY DEF Init, UploadInit, WorkerInit, UploadFits, WorkerFits, FitRequest,
         FitTask, NewUpload, IdleWorker
<1>3. QED
  BY <1>1, <1>2 DEF Fits

-----------------------------------------------------------------------------
(***************************************************************************)
(* Every state a request may move to is well formed.                       *)
(***************************************************************************)
GoodRequest(s) == s \in UploadState /\ FitRequest(s)

LEMMA RequestMoves ==
    ASSUME NEW s \in UploadState, s.form \in SubmissionType, NEW t \in Document,
           NEW answer \in Answer
    PROVE  /\ GoodRequest([s EXCEPT !.pc = "check"])
           /\ GoodRequest([s EXCEPT !.pc = "put"])
           /\ GoodRequest([s EXCEPT !.pc = "create"])
           /\ GoodRequest([s EXCEPT !.pc = "load", !.target = t])
           /\ GoodRequest([s EXCEPT !.pc = "done", !.answer = answer])
           /\ GoodRequest([s EXCEPT !.pc = "done", !.target = t, !.answer = answer])
           /\ GoodRequest([s EXCEPT !.pc = "discard", !.target = t, !.after = None])
           /\ GoodRequest([s EXCEPT !.pc = "discard", !.target = None,
                                    !.after = answer])
           /\ s.pc = "load" /\ FitRequest(s) => GoodRequest([s EXCEPT !.pc = "publish"])
BY DEF GoodRequest, UploadState, UploadPc, FitRequest

LEMMA ReceiveMove ==
    ASSUME NEW s \in UploadState, NEW form \in SubmissionType,
           NEW pc \in {"recover", "check", "put"}
    PROVE  GoodRequest([s EXCEPT !.form = form, !.pc = pc])
BY DEF GoodRequest, UploadState, UploadPc, FitRequest

LEMMA DiscardMove ==
    ASSUME NEW s \in UploadState, s.pc = "discard", FitRequest(s), NEW failed \in BOOLEAN
    PROVE  GoodRequest([s EXCEPT !.pc = IF s.after = None THEN "load" ELSE "done",
                                 !.answer = s.after, !.kept = failed])
<1>1. CASE s.after = None
  BY <1>1 DEF GoodRequest, UploadState, UploadPc, FitRequest
<1>2. CASE s.after # None
  BY <1>2 DEF GoodRequest, UploadState, UploadPc, FitRequest
<1>3. QED
  BY <1>1, <1>2

(***************************************************************************)
(* A step of a request leaves a well-formed request state behind.          *)
(***************************************************************************)
LEMMA RequestStepMoves ==
    ASSUME Fits, NEW d \in Document, RequestStep(d)
    PROVE  \E s : GoodRequest(s) /\ Become(d, s)
<1> DEFINE s == upload[d]
<1> USE DEF In, Form, Target, Proceed, Respond
<1>0. s \in UploadState /\ FitRequest(s) /\ "unavailable" \in Answer
      /\ "conflict" \in Answer /\ "duplicate" \in Answer /\ "accepted" \in Answer
  BY DEF Fits, TypeOK, UploadFits, Answer
<1>1. s.pc # "new" => s.form \in SubmissionType
  BY <1>0 DEF FitRequest
<1>2. CASE Recover(d)
  BY <1>0, <1>1, <1>2, RequestMoves, QueriesReturnDocuments DEF Recover, RecoverOwned
<1>3. CASE CheckDuplicate(d)
  BY <1>0, <1>1, <1>3, RequestMoves, QueriesReturnDocuments DEF CheckDuplicate
<1>4. CASE StorePdf(d)
  BY <1>0, <1>1, <1>4, RequestMoves DEF StorePdf, PutObject
<1>5. CASE CreateRow(d)
  <2>1. Collisions(d) \subseteq Document
    BY QueriesReturnDocuments DEF Collisions
  <2>2. QED
    BY <2>1, <1>0, <1>1, <1>5, RequestMoves DEF CreateRow, LoseRace, DiscardThen
<1>6. CASE Discard(d)
  BY <1>0, <1>6, DiscardMove DEF Discard, DeleteObject
<1>7. CASE Load(d)
  BY <1>0, <1>1, <1>7, RequestMoves DEF Load
<1>8. CASE PublishTask(d)
  BY <1>0, <1>1, <1>8, RequestMoves DEF PublishTask
<1>9. QED
  BY <1>2, <1>3, <1>4, <1>5, <1>6, <1>7, <1>8 DEF RequestStep

LEMMA RequestStepFits ==
    ASSUME Fits, NEW d \in Document, RequestStep(d), UNCHANGED <<worker, disruptions>>
    PROVE  Fits'
<1> USE DEF In, Form, Target
<1>1. upload' \in [Document -> UploadState] /\ UploadFits'
  BY RequestStepMoves, BecomeFits DEF Fits, TypeOK, GoodRequest
<1>2. FitRequest(upload[d])
  BY DEF Fits, UploadFits
<1>3. /\ row' \in [Document -> Row]
      /\ object' \in [Document -> Content \cup {None}]
      /\ queue' \in [Document \X Attempt -> Nat]
      /\ dropped' \subseteq Document
  <2>1. CASE Recover(d) \/ CheckDuplicate(d)
    BY <2>1 DEF Fits, TypeOK, Recover, RecoverOwned, CheckDuplicate, storeVars, queueVars
  <2>2. CASE StorePdf(d)
    <3>1. upload[d].form.content \in Content
      BY <1>2, <2>2 DEF StorePdf, PutObject, FitRequest, SubmissionType
    <3>2. object' \in [Document -> Content \cup {None}]
      BY <3>1, <2>2 DEF Fits, TypeOK, StorePdf, PutObject
    <3>3. QED
      BY <3>2, <2>2 DEF Fits, TypeOK, StorePdf, PutObject, queueVars
  <2>3. CASE CreateRow(d)
    <3>1. NewRow(d) \in Row
      BY <1>2, <2>3, NewRowIsRow DEF CreateRow, FitRequest, NewRow
    <3>2. QED
      BY <3>1, <2>3 DEF Fits, TypeOK, CreateRow, Drop
  <2>4. CASE Discard(d)
    BY <2>4 DEF Fits, TypeOK, Discard, DeleteObject, DiscardedKey, queueVars
  <2>5. CASE Load(d)
    BY <2>5 DEF Fits, TypeOK, Load, Forgo, Drop, storeVars
  <2>6. CASE PublishTask(d)
    <3>1. upload[d].target \in Document /\ 0 \in Attempt
      BY <1>2, <2>6 DEF PublishTask, FitRequest, Attempt
    <3>2. queue' \in [Document \X Attempt -> Nat] /\ dropped' \subseteq Document
      BY <3>1, <2>6, QueueCounts
      DEF Fits, TypeOK, PublishTask, Publish, PublishUnconfirmed, Forgo, Drop
    <3>3. QED
      BY <3>2, <2>6 DEF Fits, TypeOK, PublishTask, storeVars
  <2>7. QED
    BY <2>1, <2>2, <2>3, <2>4, <2>5, <2>6 DEF RequestStep
<1>4. WorkerFits' /\ worker' \in [Worker -> WorkerState] /\ disruptions' \in Nat
  BY DEF Fits, TypeOK, WorkerFits
<1>5. QED
  BY <1>1, <1>3, <1>4 DEF Fits, TypeOK

LEMMA ReceiveFits ==
    ASSUME Fits, NEW d \in Document, NEW s \in Submission, Receive(d, s),
           UNCHANGED <<worker, disruptions>>
    PROVE  Fits'
<1>1. \E t : GoodRequest(t) /\ Become(d, t)
  BY ReceiveMove DEF Fits, TypeOK, Receive
<1>2. upload' \in [Document -> UploadState] /\ UploadFits'
  BY <1>1, BecomeFits DEF Fits, TypeOK, GoodRequest
<1>3. QED
  BY <1>2 DEF Fits, TypeOK, WorkerFits, Receive, storeVars, queueVars

LEMMA ApiLostFits ==
    ASSUME Fits, NEW d \in Document, ApiLost(d), UNCHANGED worker, disruptions' \in Nat
    PROVE  Fits'
<1> USE DEF In, Form, Target
<1>0. upload[d] \in UploadState /\ FitRequest(upload[d]) /\ "lost" \in Answer
  BY DEF Fits, TypeOK, UploadFits, Answer
<1>1. \E t : GoodRequest(t) /\ Become(d, t)
  BY <1>0, RequestMoves DEF ApiLost, Respond, FitRequest
<1>2. upload' \in [Document -> UploadState] /\ UploadFits'
  BY <1>1, BecomeFits DEF Fits, TypeOK, GoodRequest
<1>3. dropped' \subseteq Document
  BY DEF Fits, TypeOK, ApiLost, Forgo, Drop
<1>4. QED
  BY <1>2, <1>3 DEF Fits, TypeOK, WorkerFits, ApiLost, storeVars

-----------------------------------------------------------------------------
(***************************************************************************)
(* Every state a worker may move to is well formed.                        *)
(***************************************************************************)
GoodTask(s) == s \in WorkerState /\ FitTask(s)

LEMMA TaskMoves ==
    ASSUME NEW s \in WorkerState, s.doc \in Document
    PROVE  /\ GoodTask([s EXCEPT !.pc = "compute"])
           /\ \A c \in Content : GoodTask([s EXCEPT !.pc = "persist", !.bytes = c])
           /\ \A cause \in FailureCause : GoodTask([s EXCEPT !.pc = "fail", !.cause = cause])
           /\ GoodTask([s EXCEPT !.pc = "retry", !.bytes = None, !.cause = None])
           /\ GoodTask([s EXCEPT !.pc = "ack", !.bytes = None, !.cause = None])
           /\ s.retries < MaxRetries => GoodTask([s EXCEPT !.pc = "republish"])
<1>1. \A c \in Content : GoodTask([s EXCEPT !.pc = "persist", !.bytes = c])
  BY DEF GoodTask, WorkerState, WorkerPc, FitTask
<1>2. \A cause \in FailureCause : GoodTask([s EXCEPT !.pc = "fail", !.cause = cause])
  BY DEF GoodTask, WorkerState, WorkerPc, FitTask
<1>3. /\ GoodTask([s EXCEPT !.pc = "compute"])
      /\ GoodTask([s EXCEPT !.pc = "retry", !.bytes = None, !.cause = None])
      /\ GoodTask([s EXCEPT !.pc = "ack", !.bytes = None, !.cause = None])
      /\ s.retries < MaxRetries => GoodTask([s EXCEPT !.pc = "republish"])
  BY DEF GoodTask, WorkerState, WorkerPc, FitTask
<1>4. QED
  BY <1>1, <1>2, <1>3

LEMMA IdleMove == GoodTask(IdleWorker)
BY DEF GoodTask, WorkerState, WorkerPc, FitTask, IdleWorker, Attempt

LEMMA DeliverMove ==
    ASSUME NEW d \in Document, NEW r \in Attempt
    PROVE  GoodTask([IdleWorker EXCEPT !.pc = "start", !.doc = d, !.retries = r,
                                       !.held = TRUE])
BY DEF GoodTask, WorkerState, WorkerPc, FitTask, IdleWorker

LEMMA ReleaseMove ==
    ASSUME NEW s \in WorkerState, FitTask(s)
    PROVE  GoodTask([s EXCEPT !.held = FALSE])
BY DEF GoodTask, WorkerState, FitTask

LEMMA TaskStepMoves ==
    ASSUME Fits, NEW w \in Worker, TaskStep(w)
    PROVE  \E s : GoodTask(s) /\ Hold(w, s)
<1> USE DEF At, Goto, Settle, Raise
<1>0. worker[w] \in WorkerState /\ FitTask(worker[w])
      /\ "size" \in FailureCause /\ "content" \in FailureCause
  BY DEF Fits, TypeOK, WorkerFits, FailureCause
<1>1. worker[w].pc # "idle" => worker[w].doc \in Document
  BY <1>0 DEF FitTask
<1>2. CASE Start(w)
  BY <1>0, <1>1, <1>2, TaskMoves DEF Start
<1>3. CASE Compute(w)
  BY <1>0, <1>1, <1>3, TaskMoves DEF Compute, GetObject
<1>4. CASE Persist(w)
  BY <1>0, <1>1, <1>4, TaskMoves DEF Persist
<1>5. CASE RecordFailure(w)
  BY <1>0, <1>1, <1>5, TaskMoves DEF RecordFailure
<1>6. CASE PrepareRetry(w)
  BY <1>0, <1>1, <1>6, TaskMoves DEF PrepareRetry, QueueForRetry
<1>7. CASE Republish(w)
  BY <1>0, <1>1, <1>7, TaskMoves DEF Republish
<1>8. CASE Finalize(w)
  BY <1>0, <1>1, <1>8, TaskMoves DEF Finalize
<1>9. CASE Ack(w)
  BY <1>9, IdleMove DEF Ack
<1>10. QED
  BY <1>2, <1>3, <1>4, <1>5, <1>6, <1>7, <1>8, <1>9 DEF TaskStep

LEMMA TaskStepFits ==
    ASSUME Fits, NEW w \in Worker, TaskStep(w), UNCHANGED <<upload, disruptions>>
    PROVE  Fits'
<1> USE DEF At, RowOf, SetRow, MayCommit
<1>1. worker' \in [Worker -> WorkerState] /\ WorkerFits'
  BY TaskStepMoves, HoldFits DEF Fits, TypeOK, GoodTask
<1>2. worker[w] \in WorkerState /\ FitTask(worker[w])
  BY DEF Fits, TypeOK, WorkerFits
<1>3. worker[w].pc # "idle" => worker[w].doc \in Document
  BY <1>2 DEF FitTask
<1>4. worker[w].pc # "idle" => row[worker[w].doc] \in Row
  BY <1>3 DEF Fits, TypeOK
<1>5. /\ row' \in [Document -> Row]
      /\ object' \in [Document -> Content \cup {None}]
      /\ queue' \in [Document \X Attempt -> Nat]
      /\ dropped' \subseteq Document
  <2>1. CASE Start(w)
    <3>1. StartIngestion(row[worker[w].doc]) \in Row
      BY <1>4, <2>1, RowTransactions DEF Start
    <3>2. QED
      BY <3>1, <2>1 DEF Fits, TypeOK, Start, queueVars
  <2>2. CASE Compute(w) \/ Ack(w)
    BY <2>2 DEF Fits, TypeOK, Compute, GetObject, Ack, storeVars, queueVars
  <2>3. CASE Persist(w)
    <3>1. worker[w].bytes \in Content
      BY <1>2, <2>3 DEF Persist, FitTask
    <3>2. PersistArtifacts(row[worker[w].doc], worker[w].bytes) \in Row
      BY <1>4, <2>3, <3>1, RowTransactions DEF Persist
    <3>3. QED
      BY <3>2, <2>3 DEF Fits, TypeOK, Persist, queueVars
  <2>4. CASE RecordFailure(w)
    <3>1. worker[w].cause \in FailureCause
      BY <1>2, <2>4 DEF RecordFailure, FitTask
    <3>2. MarkFailed(row[worker[w].doc], worker[w].cause) \in Row
      BY <1>4, <2>4, <3>1, RowTransactions DEF RecordFailure
    <3>3. QED
      BY <3>2, <2>4 DEF Fits, TypeOK, RecordFailure, queueVars
  <2>5. CASE PrepareRetry(w)
    <3>1. MarkQueuedForRetry(row[worker[w].doc]) \in Row
      BY <1>4, <2>5, RowTransactions DEF PrepareRetry, QueueForRetry
    <3>2. QED
      BY <3>1, <2>5 DEF Fits, TypeOK, PrepareRetry, QueueForRetry, queueVars
  <2>6. CASE Republish(w)
    <3>1. worker[w].doc \in Document /\ worker[w].retries + 1 \in Attempt
      BY <1>2, <1>3, <2>6 DEF Republish, FitTask, WorkerState, Attempt
    <3>2. queue' \in [Document \X Attempt -> Nat] /\ dropped' \subseteq Document
      BY <1>3, <3>1, <2>6, QueueCounts
      DEF Fits, TypeOK, Republish, Publish, PublishUnconfirmed, Drop
    <3>3. QED
      BY <3>2, <2>6 DEF Fits, TypeOK, Republish, storeVars
  <2>7. CASE Finalize(w)
    <3>1. ExhaustRetries(row[worker[w].doc]) \in Row
      BY <1>4, <2>7, RowTransactions DEF Finalize
    <3>2. QED
      BY <1>3, <3>1, <2>7 DEF Fits, TypeOK, Finalize, Drop
  <2>8. QED
    BY <2>1, <2>2, <2>3, <2>4, <2>5, <2>6, <2>7 DEF TaskStep
<1>6. QED
  BY <1>1, <1>5 DEF Fits, TypeOK, UploadFits

LEMMA DeliverFits ==
    ASSUME Fits, NEW w \in Worker, NEW d \in Document, NEW r \in Attempt,
           Deliver(w, d, r), UNCHANGED <<upload, disruptions>>
    PROVE  Fits'
<1>1. worker' \in [Worker -> WorkerState] /\ WorkerFits'
  BY DeliverMove, HoldFits DEF Fits, TypeOK, Deliver, GoodTask
<1>2. queue' \in [Document \X Attempt -> Nat]
  BY QueueCounts DEF Fits, TypeOK, Deliver
<1>3. QED
  BY <1>1, <1>2 DEF Fits, TypeOK, UploadFits, Deliver, storeVars

(***************************************************************************)
(* Losing a worker, or only its broker connection.                         *)
(***************************************************************************)
LEMMA WorkerDisruptionFits ==
    ASSUME Fits, NEW w \in Worker, WorkerLost(w) \/ ConnectionLost(w),
           UNCHANGED upload, disruptions' \in Nat
    PROVE  Fits'
<1>1. worker[w] \in WorkerState /\ FitTask(worker[w])
  BY DEF Fits, TypeOK, WorkerFits
<1>2. worker[w].doc \in Document /\ worker[w].retries \in Attempt
  BY <1>1 DEF WorkerLost, ConnectionLost, At, FitTask, WorkerState
<1>3. worker' \in [Worker -> WorkerState] /\ WorkerFits'
  <2>1. CASE WorkerLost(w)
    BY <2>1, IdleMove, HoldFits DEF WorkerLost, GoodTask, Fits, TypeOK
  <2>2. CASE ConnectionLost(w)
    BY <2>2, <1>1, ReleaseMove, HoldFits DEF ConnectionLost, GoodTask, Fits, TypeOK
  <2>3. QED
    BY <2>1, <2>2
<1>4. queue' \in [Document \X Attempt -> Nat]
  BY <1>2, QueueCounts DEF Fits, TypeOK, WorkerLost, ConnectionLost
<1>5. QED
  BY <1>3, <1>4 DEF Fits, TypeOK, UploadFits, WorkerLost, ConnectionLost, storeVars

LEMMA NextFits == Fits /\ [Next]_vars => Fits'
<1> SUFFICES ASSUME Fits, [Next]_vars PROVE Fits'
  OBVIOUS
<1>1. CASE Requests
  BY <1>1, ReceiveFits, RequestStepFits DEF Requests
<1>2. CASE Deliveries
  BY <1>2, DeliverFits DEF Deliveries
<1>3. CASE Tasks
  BY <1>3, TaskStepFits DEF Tasks
<1>4. CASE Disruptions
  <2>1. disruptions' \in Nat
    BY <1>4 DEF Disruptions, Fits, TypeOK
  <2>2. QED
    BY <1>4, <2>1, ApiLostFits, WorkerDisruptionFits DEF Disruptions
<1>5. CASE UNCHANGED vars
  BY <1>5 DEF Fits, TypeOK, UploadFits, WorkerFits, vars, storeVars, queueVars
<1>6. QED
  BY <1>1, <1>2, <1>3, <1>4, <1>5 DEF Next

LEMMA FitsInvariant == Spec => []Fits
<1>1. Init => Fits
  BY InitFits
<1>2. Fits /\ [Next]_vars => Fits'
  BY NextFits
<1>3. QED
  BY <1>1, <1>2, PTL DEF Spec

(***************************************************************************)
(* TypeCorrect: with any number of uploads, workers, retries and losses,   *)
(* every variable keeps its type; in particular a row only ever holds a    *)
(* known status and a known, sanitized failure.                            *)
(***************************************************************************)
THEOREM TypeCorrect == Spec => []TypeOK
<1>1. Fits => TypeOK
  BY DEF Fits
<1>2. QED
  BY <1>1, FitsInvariant, PTL

-----------------------------------------------------------------------------
(***************************************************************************)
(* The safety of the ingestion pipeline for every value of its constants.  *)
(* All of it rests on which rows a step may touch (RowMoves), and that on  *)
(* requests, messages and workers only ever naming committed rows.         *)
(***************************************************************************)
(***************************************************************************)
(* What one request, or one worker, looks like after a step of its own.    *)
(***************************************************************************)
Outcome(d, pc, target, answer, after) ==
    /\ \A e \in Document \ {d} : upload'[e] = upload[e]
    /\ upload'[d].pc = pc /\ upload'[d].target = target
    /\ upload'[d].answer = answer /\ upload'[d].after = after
    /\ upload'[d].form = upload[d].form

Turn(w, pc, doc, held, bytes) ==
    /\ \A v \in Worker \ {w} : worker'[v] = worker[v]
    /\ worker'[w].pc = pc /\ worker'[w].doc = doc /\ worker'[w].held = held
    /\ worker'[w].bytes = bytes

LEMMA RequestBecomes ==
    ASSUME upload \in [Document -> UploadState], NEW d \in Document
    PROVE  LET s == upload[d] IN
           /\ \A pc : Proceed(d, pc) => Outcome(d, pc, s.target, s.answer, s.after)
           /\ \A t : Become(d, [s EXCEPT !.pc = "load", !.target = t])
                     => Outcome(d, "load", t, s.answer, s.after)
           /\ \A answer : Respond(d, answer)
                          => Outcome(d, "done", s.target, answer, s.after)
           /\ \A t, answer :
                Become(d, [s EXCEPT !.pc = "done", !.target = t, !.answer = answer])
                => Outcome(d, "done", t, answer, s.after)
           /\ \A t, after : DiscardThen(d, t, after)
                            => Outcome(d, "discard", t, s.answer, after)
           /\ \A pc, answer, kept :
                Become(d, [s EXCEPT !.pc = pc, !.answer = answer, !.kept = kept])
                => Outcome(d, pc, s.target, answer, s.after)
<1> DEFINE s == upload[d]
<1>1. s \in UploadState
  OBVIOUS
<1>2. \A pc : Proceed(d, pc) => Outcome(d, pc, s.target, s.answer, s.after)
  BY <1>1 DEF Proceed, Become, Outcome, UploadState
<1>3. \A t : Become(d, [s EXCEPT !.pc = "load", !.target = t])
            => Outcome(d, "load", t, s.answer, s.after)
  BY <1>1 DEF Become, Outcome, UploadState
<1>4. \A answer : Respond(d, answer) => Outcome(d, "done", s.target, answer, s.after)
  BY <1>1 DEF Respond, Become, Outcome, UploadState
<1>5. \A t, answer : Become(d, [s EXCEPT !.pc = "done", !.target = t, !.answer = answer])
                    => Outcome(d, "done", t, answer, s.after)
  BY <1>1 DEF Become, Outcome, UploadState
<1>6. \A t, after : DiscardThen(d, t, after) => Outcome(d, "discard", t, s.answer, after)
  BY <1>1 DEF DiscardThen, Become, Outcome, UploadState
<1>7. \A pc, answer, kept :
        Become(d, [s EXCEPT !.pc = pc, !.answer = answer, !.kept = kept])
        => Outcome(d, pc, s.target, answer, s.after)
  BY <1>1 DEF Become, Outcome, UploadState
<1>8. QED
  BY <1>2, <1>3, <1>4, <1>5, <1>6, <1>7

LEMMA TaskTurns ==
    ASSUME worker \in [Worker -> WorkerState], NEW w \in Worker
    PROVE  LET s == worker[w] IN
           /\ \A pc : Goto(w, pc) => Turn(w, pc, s.doc, s.held, s.bytes)
           /\ Settle(w) => Turn(w, "ack", s.doc, s.held, None)
           /\ Raise(w) => Turn(w, "retry", s.doc, s.held, None)
           /\ \A bytes : Hold(w, [s EXCEPT !.pc = "persist", !.bytes = bytes])
                         => Turn(w, "persist", s.doc, s.held, bytes)
           /\ \A cause : Hold(w, [s EXCEPT !.pc = "fail", !.cause = cause])
                         => Turn(w, "fail", s.doc, s.held, s.bytes)
           /\ Hold(w, IdleWorker) => Turn(w, "idle", None, FALSE, None)
           /\ Hold(w, [s EXCEPT !.held = FALSE]) => Turn(w, s.pc, s.doc, FALSE, s.bytes)
           /\ \A d, r : Hold(w, [IdleWorker EXCEPT !.pc = "start", !.doc = d,
                                                   !.retries = r, !.held = TRUE])
                        => Turn(w, "start", d, TRUE, None)
<1> DEFINE s == worker[w]
<1> USE DEF Hold, Turn, WorkerState
<1>1. s \in WorkerState
  OBVIOUS
<1>2. \A pc : Goto(w, pc) => Turn(w, pc, s.doc, s.held, s.bytes)
  BY <1>1 DEF Goto
<1>3. /\ Settle(w) => Turn(w, "ack", s.doc, s.held, None)
      /\ Raise(w) => Turn(w, "retry", s.doc, s.held, None)
  <2>1. Settle(w) => Turn(w, "ack", s.doc, s.held, None)
    BY <1>1 DEF Settle
  <2>2. Raise(w) => Turn(w, "retry", s.doc, s.held, None)
    BY <1>1 DEF Raise
  <2> QED
    BY <2>1, <2>2
<1>4. \A bytes : Hold(w, [s EXCEPT !.pc = "persist", !.bytes = bytes])
                => Turn(w, "persist", s.doc, s.held, bytes)
  BY <1>1
<1>5. \A cause : Hold(w, [s EXCEPT !.pc = "fail", !.cause = cause])
                => Turn(w, "fail", s.doc, s.held, s.bytes)
  BY <1>1
<1>6. /\ Hold(w, IdleWorker) => Turn(w, "idle", None, FALSE, None)
      /\ Hold(w, [s EXCEPT !.held = FALSE]) => Turn(w, s.pc, s.doc, FALSE, s.bytes)
  BY <1>1 DEF IdleWorker
<1>7. \A d, r : Hold(w, [IdleWorker EXCEPT !.pc = "start", !.doc = d, !.retries = r,
                                          !.held = TRUE])
               => Turn(w, "start", d, TRUE, None)
  BY <1>1 DEF IdleWorker
<1>8. QED
  BY <1>2, <1>3, <1>4, <1>5, <1>6, <1>7

(***************************************************************************)
(* The steps of a request, by what they leave behind.                      *)
(***************************************************************************)
LEMMA RecoverOutcome ==
    ASSUME upload \in [Document -> UploadState], NEW d \in Document, Recover(d)
    PROVE  LET s == upload[d] IN
           \/ Outcome(d, "check", s.target, s.answer, s.after)
           \/ Outcome(d, "put", s.target, s.answer, s.after)
           \/ \E t \in RequestMatches(s.form.user, s.form.requestId) :
                /\ row[t].content = s.form.content
                /\ Outcome(d, "load", t, s.answer, s.after)
           \/ Outcome(d, "done", s.target, "conflict", s.after)
           \/ Outcome(d, "done", s.target, "unavailable", s.after)
BY RequestBecomes DEF Recover, RecoverOwned, Form

LEMMA CheckOutcome ==
    ASSUME upload \in [Document -> UploadState], NEW d \in Document, CheckDuplicate(d)
    PROVE  LET s == upload[d] IN
           \/ Outcome(d, "put", s.target, s.answer, s.after)
           \/ \E t \in PreferredDuplicates(s.form.user, s.form.content) :
                Outcome(d, "done", t, "duplicate", s.after)
           \/ Outcome(d, "done", s.target, "unavailable", s.after)
BY RequestBecomes DEF CheckDuplicate, Form

LEMMA StoreOutcome ==
    ASSUME upload \in [Document -> UploadState], NEW d \in Document, StorePdf(d)
    PROVE  LET s == upload[d] IN
           \/ /\ object' = [object EXCEPT ![d] = s.form.content]
              /\ Outcome(d, "create", s.target, s.answer, s.after)
           \/ /\ \/ object' = [object EXCEPT ![d] = s.form.content]
                 \/ UNCHANGED object
              /\ Outcome(d, "done", s.target, "unavailable", s.after)
BY RequestBecomes DEF StorePdf, PutObject, Form

LEMMA CreateOutcome ==
    ASSUME upload \in [Document -> UploadState], NEW d \in Document, CreateRow(d)
    PROVE  LET s == upload[d] IN
           \/ /\ Collisions(d) = {}
              /\ row' = [row EXCEPT ![d] = NewRow(d)]
              /\ UNCHANGED dropped
              /\ Outcome(d, "load", d, s.answer, s.after)
           \/ /\ Collisions(d) = {}
              /\ row' = [row EXCEPT ![d] = NewRow(d)]
              /\ dropped' = dropped \cup {d}
              /\ Outcome(d, "discard", None, s.answer, "unavailable")
           \/ /\ UNCHANGED <<row, dropped>>
              /\ \E t \in Collisions(d) :
                   \/ /\ row[t].content = s.form.content
                      /\ Outcome(d, "discard", t, s.answer, None)
                   \/ Outcome(d, "discard", None, s.answer, "conflict")
           \/ /\ UNCHANGED <<row, dropped>>
              /\ Outcome(d, "discard", None, s.answer, "unavailable")
BY RequestBecomes DEF CreateRow, LoseRace, Drop, Form

LEMMA DiscardOutcome ==
    ASSUME upload \in [Document -> UploadState], NEW d \in Document, Discard(d)
    PROVE  LET s == upload[d] IN
           /\ UNCHANGED object \/ object' = [object EXCEPT ![d] = None]
           /\ \/ s.after = None /\ Outcome(d, "load", s.target, s.after, s.after)
              \/ s.after # None /\ Outcome(d, "done", s.target, s.after, s.after)
<1>1. UNCHANGED object \/ object' = [object EXCEPT ![d] = None]
  BY DEF Discard, DeleteObject, DiscardedKey
<1>2. Outcome(d, IF upload[d].after = None THEN "load" ELSE "done", upload[d].target,
              upload[d].after, upload[d].after)
  BY RequestBecomes DEF Discard, DeleteObject
<1>3. QED
  BY <1>1, <1>2

LEMMA LoadOutcome ==
    ASSUME upload \in [Document -> UploadState], NEW d \in Document, Load(d)
    PROVE  LET s == upload[d] IN
           \/ /\ row[s.target].status = "queued" /\ UNCHANGED dropped
              /\ Outcome(d, "publish", s.target, s.answer, s.after)
           \/ /\ row[s.target].status # "queued" /\ UNCHANGED dropped
              /\ Outcome(d, "done", s.target, "accepted", s.after)
           \/ /\ Forgo(d)
              /\ Outcome(d, "done", s.target, "unavailable", s.after)
BY RequestBecomes DEF Load, ShouldPublish, Target

LEMMA PublishOutcome ==
    ASSUME upload \in [Document -> UploadState], NEW d \in Document, PublishTask(d)
    PROVE  LET s == upload[d] IN
           \/ /\ Publish(s.target, 0)
              /\ Outcome(d, "done", s.target, "accepted", s.after)
           \/ /\ PublishUnconfirmed(s.target, 0)
              /\ Forgo(d)
              /\ Outcome(d, "done", s.target, "unavailable", s.after)
BY RequestBecomes DEF PublishTask, Target

-----------------------------------------------------------------------------
Early == {"new", "recover", "check", "put", "create"}

(***************************************************************************)
(* The id of a request that has not created a document is not in use, and  *)
(* whoever names a document names a committed row.                         *)
(***************************************************************************)
Fresh == \A d \in Document : upload[d].pc \in Early => ~ Exists(d)
MessagesGrounded == \A d \in Document, r \in Attempt : queue[<<d, r>>] > 0 => Exists(d)
WorkersGrounded == \A w \in Worker : ~ At(w, "idle") => Exists(worker[w].doc)
TargetsGrounded == \A u \in Document : Target(u) # None => Exists(Target(u))

Grounded == Fresh /\ MessagesGrounded /\ WorkersGrounded /\ TargetsGrounded

(***************************************************************************)
(* What a step may do to the row of d.                                     *)
(***************************************************************************)
Created(d) ==
    /\ In(d, "create") /\ Collisions(d) = {}
    /\ row'[d] = NewRow(d)
    /\ upload'[d].pc \notin Early
    /\ \A e \in Document \ {d} : upload'[e] = upload[e]

Transacted(d) ==
    /\ Exists(d)
    /\ \/ row'[d] = StartIngestion(row[d])
       \/ row'[d] = MarkQueuedForRetry(row[d])
       \/ \E cause \in FailureCause : row'[d] = MarkFailed(row[d], cause)
       \/ \E w \in Worker : /\ At(w, "persist") /\ worker[w].doc = d
                            /\ row'[d] = PersistArtifacts(row[d], worker[w].bytes)

LEMMA TaskStepRows ==
    ASSUME Fits, Grounded, NEW w \in Worker, TaskStep(w), NEW d \in Document
    PROVE  row'[d] = row[d] \/ Transacted(d)
<1> USE DEF At, RowOf, SetRow, MayCommit
<1>1. worker[w] \in WorkerState /\ FitTask(worker[w]) /\ row \in [Document -> Row]
  BY DEF Fits, TypeOK, WorkerFits
<1>2. worker[w].pc # "idle" => worker[w].doc \in Document /\ Exists(worker[w].doc)
  BY <1>1 DEF FitTask, Grounded, WorkersGrounded
<1>3. CASE Start(w)
  BY <1>1, <1>2, <1>3 DEF Start, Transacted
<1>4. CASE Compute(w) \/ Ack(w) \/ Republish(w)
  BY <1>4 DEF Compute, GetObject, Ack, Republish, storeVars
<1>5. CASE Persist(w)
  BY <1>1, <1>2, <1>5 DEF Persist, Transacted
<1>6. CASE RecordFailure(w)
  <2>1. worker[w].cause \in FailureCause
    BY <1>1, <1>6 DEF RecordFailure, FitTask
  <2>2. QED
    BY <1>1, <1>2, <1>6, <2>1 DEF RecordFailure, Transacted
<1>7. CASE PrepareRetry(w)
  BY <1>1, <1>2, <1>7 DEF PrepareRetry, QueueForRetry, Transacted
<1>8. CASE Finalize(w)
  <2>1. "exhausted" \in FailureCause
    BY DEF FailureCause
  <2>2. QED
    BY <1>1, <1>2, <1>8, <2>1 DEF Finalize, ExhaustRetries, Transacted
<1>9. QED
  BY <1>3, <1>4, <1>5, <1>6, <1>7, <1>8 DEF TaskStep

LEMMA RequestStepRows ==
    ASSUME Fits, NEW u \in Document, RequestStep(u), NEW d \in Document
    PROVE  row'[d] = row[d] \/ Created(d)
<1>1. row \in [Document -> Row] /\ upload \in [Document -> UploadState]
  BY DEF Fits, TypeOK
<1>2. CASE CreateRow(u)
  <2>1. /\ upload'[u].pc \in {"load", "discard"}
        /\ \A e \in Document \ {u} : upload'[e] = upload[e]
    BY <1>1, <1>2, CreateOutcome DEF Outcome
  <2>2. \/ row' = row
        \/ Collisions(u) = {} /\ row' = [row EXCEPT ![u] = NewRow(u)]
    BY <1>2 DEF CreateRow
  <2>3. QED
    BY <1>1, <1>2, <2>1, <2>2 DEF CreateRow, Created, Early
<1>3. CASE Recover(u) \/ CheckDuplicate(u) \/ StorePdf(u) \/ Discard(u) \/ Load(u)
           \/ PublishTask(u)
  BY <1>3 DEF Recover, RecoverOwned, CheckDuplicate, StorePdf, PutObject, Discard,
      DeleteObject, Load, PublishTask, storeVars
<1>4. QED
  BY <1>2, <1>3 DEF RequestStep

LEMMA RowMoves ==
    ASSUME Fits, Grounded, [Next]_vars, NEW d \in Document
    PROVE  row'[d] = row[d] \/ Created(d) \/ Transacted(d)
<1>1. CASE Requests
  <2>1. CASE \E u \in Document, s \in Submission : Receive(u, s)
    BY <2>1 DEF Receive, storeVars
  <2>2. CASE \E u \in Document : RequestStep(u)
    BY <2>2, RequestStepRows
  <2>3. QED
    BY <1>1, <2>1, <2>2 DEF Requests
<1>2. CASE Deliveries
  BY <1>2 DEF Deliveries, Deliver, storeVars
<1>3. CASE Tasks
  BY <1>3, TaskStepRows DEF Tasks
<1>4. CASE Disruptions
  BY <1>4 DEF Disruptions, ApiLost, WorkerLost, ConnectionLost, storeVars
<1>5. CASE UNCHANGED vars
  BY <1>5 DEF vars, storeVars
<1>6. QED
  BY <1>1, <1>2, <1>3, <1>4, <1>5 DEF Next

(***************************************************************************)
(* A step keeps every committed row, and its owner, content and request.   *)
(***************************************************************************)
LEMMA RowsStay ==
    ASSUME Fits, Grounded, [Next]_vars, NEW d \in Document, Exists(d)
    PROVE  /\ Exists(d)'
           /\ row'[d].user = row[d].user
           /\ row'[d].content = row[d].content
           /\ row'[d].requestId = row[d].requestId
<1>1. row[d] \in Row
  BY DEF Fits, TypeOK
<1>2. ~ Created(d)
  BY DEF Created, Grounded, Fresh, Early, In
<1>3. CASE Transacted(d)
  BY <1>1, <1>3 DEF Transacted, StartIngestion, MarkQueuedForRetry, MarkFailed,
     PersistArtifacts, Row, Exists, Terminal
<1>4. CASE row'[d] = row[d]
  BY <1>4 DEF Exists
<1>5. QED
  BY <1>2, <1>3, <1>4, RowMoves

(***************************************************************************)
(* Where a step takes a request: never back to an early step, and its form *)
(* is for good once received.                                              *)
(***************************************************************************)
LEMMA UploadMoves ==
    ASSUME Fits, Grounded, [Next]_vars, NEW u \in Document
    PROVE  /\ upload'[u].pc \in Early => upload[u].pc \in Early
           /\ upload'[u].target # None /\ upload'[u].target # upload[u].target
              => Exists(upload'[u].target) \/ Created(upload'[u].target)
           /\ upload[u].pc # "new"
              => upload'[u].form = upload[u].form /\ upload'[u].pc # "new"
<1> USE DEF In, Form, Target
<1>0. upload \in [Document -> UploadState] /\ row \in [Document -> Row]
  BY DEF Fits, TypeOK
<1>1. CASE UNCHANGED upload
  BY <1>1
<1>2. ASSUME NEW v \in Document, NEW s \in Submission, Receive(v, s)
      PROVE  /\ upload'[u].pc \in Early => upload[u].pc \in Early
             /\ upload'[u].target = upload[u].target
             /\ upload[u].pc # "new"
                => upload'[u].form = upload[u].form /\ upload'[u].pc # "new"
  BY <1>0, <1>2 DEF Receive, Become, Early, UploadState
<1>3. ASSUME NEW v \in Document, RequestStep(v)
      PROVE  /\ upload'[u].pc \in Early => upload[u].pc \in Early
             /\ upload'[u].target # None /\ upload'[u].target # upload[u].target
                => Exists(upload'[u].target) \/ Created(upload'[u].target)
             /\ upload'[u].form = upload[u].form
             /\ upload[u].pc # "new" => upload'[u].pc # "new"
  <2>1. CASE u # v
    BY <1>0, <1>3, RequestStepMoves, <2>1 DEF Become
  <2>2. CASE u = v
    <3>1. CASE Recover(u)
      BY <1>0, <3>1, RecoverOutcome DEF Recover, RecoverOwned, Outcome, RequestMatches, Early
    <3>2. CASE CheckDuplicate(u)
      BY <1>0, <3>2, CheckOutcome DEF CheckDuplicate, Outcome, PreferredDuplicates,
         UsableDuplicates, Active, Exists, Early
    <3>3. CASE StorePdf(u)
      BY <1>0, <3>3, StoreOutcome DEF StorePdf, PutObject, Outcome, Early
    <3>4. CASE CreateRow(u)
      <4>1. upload[u].pc = "create" /\ \A t \in Collisions(u) : Exists(t)
        BY <3>4 DEF CreateRow, Collisions, RequestMatches
      <4>2. \/ Outcome(u, "load", u, upload[u].answer, upload[u].after) /\ Created(u)
            \/ \E t \in Collisions(u) \cup {None} : \E after :
                 Outcome(u, "discard", t, upload[u].answer, after)
        BY <1>0, <4>1, <3>4, CreateOutcome DEF Outcome, Created, Early
      <4>3. QED
        BY <4>1, <4>2 DEF Outcome, Early
    <3>5. CASE Discard(u)
      BY <1>0, <3>5, DiscardOutcome DEF Outcome, Early
    <3>6. CASE Load(u)
      BY <1>0, <3>6, LoadOutcome DEF Outcome, Early
    <3>7. CASE PublishTask(u)
      BY <1>0, <3>7, PublishOutcome DEF Outcome, Early
    <3>8. QED
      BY <1>3, <2>2, <3>1, <3>2, <3>3, <3>4, <3>5, <3>6, <3>7 DEF RequestStep
  <2>3. QED
    BY <2>1, <2>2
<1>4. ASSUME NEW v \in Document, ApiLost(v)
      PROVE  /\ upload'[u].pc \in Early => upload[u].pc \in Early
             /\ upload'[u].target = upload[u].target
             /\ upload'[u].form = upload[u].form
             /\ upload[u].pc # "new" => upload'[u].pc # "new"
  BY <1>0, <1>4 DEF ApiLost, Become, Respond, Early, UploadState
<1>5. QED
  BY <1>1, <1>2, <1>3, <1>4 DEF Next, Requests, Deliveries, Tasks, Disruptions, vars

LEMMA InitGrounded == Init => Grounded
BY DEF Init, StoreInit, QueueInit, UploadInit, WorkerInit, NoRow, NewUpload, IdleWorker,
       Grounded, Fresh, MessagesGrounded, WorkersGrounded, TargetsGrounded, Exists, At,
       Target

LEMMA QueueMoves ==
    ASSUME Fits, Grounded, [Next]_vars, NEW d \in Document, NEW r \in Attempt,
           queue'[<<d, r>>] > 0
    PROVE  queue[<<d, r>>] > 0 \/ Exists(d)
<1> USE DEF At, Enqueue, Dequeue
<1>0. queue \in [Document \X Attempt -> Nat] /\ worker \in [Worker -> WorkerState]
      /\ WorkerFits /\ UploadFits
  BY DEF Fits, TypeOK
<1>1. CASE UNCHANGED queue
  BY <1>1
<1>2. ASSUME NEW u \in Document, PublishTask(u)
      PROVE  queue[<<d, r>>] > 0 \/ Exists(d)
  <2>1. Target(u) \in Document /\ Exists(Target(u))
    BY <1>0, <1>2, StoreAssumption
    DEF PublishTask, UploadFits, FitRequest, Grounded, TargetsGrounded, In,
       Target
  <2>2. UNCHANGED queue \/ Enqueue(Target(u), 0)
    BY <1>2 DEF PublishTask, Publish, PublishUnconfirmed
  <2>3. QED
    BY <1>0, <2>1, <2>2
<1>3. ASSUME NEW w \in Worker, NEW k \in Nat, ~ At(w, "idle"),
             UNCHANGED queue \/ Enqueue(worker[w].doc, k)
      PROVE  queue[<<d, r>>] > 0 \/ Exists(d)
  BY <1>0, <1>3 DEF Grounded, WorkersGrounded
<1>4. CASE Requests
  BY <1>1, <1>2, <1>4 DEF Requests, RequestStep, Receive, Recover, RecoverOwned,
      CheckDuplicate, StorePdf, PutObject,
     CreateRow, Discard, DeleteObject, Load, queueVars
<1>5. CASE Deliveries
  BY <1>0, <1>5 DEF Deliveries, Deliver
<1>6. CASE Tasks
  <2>1. ASSUME NEW w \in Worker, Republish(w) PROVE queue[<<d, r>>] > 0 \/ Exists(d)
    <3>1. worker[w].retries + 1 \in Nat
      BY <1>0 DEF WorkerState, Attempt
    <3>2. QED
      BY <3>1, <2>1, <1>3 DEF Republish, Publish, PublishUnconfirmed
  <2>2. QED
    BY <2>1, <1>1, <1>6 DEF Tasks, TaskStep, Start, Compute, GetObject, Persist, RecordFailure,
       PrepareRetry, QueueForRetry, Finalize, Ack, queueVars
<1>7. CASE Disruptions
  <2>1. ASSUME NEW w \in Worker, WorkerLost(w) \/ ConnectionLost(w)
        PROVE  queue[<<d, r>>] > 0 \/ Exists(d)
    <3>1. worker[w].retries \in Nat
      BY <1>0 DEF WorkerState, Attempt
    <3>2. QED
      BY <3>1, <2>1, <1>3 DEF WorkerLost, ConnectionLost
  <2>2. QED
    BY <2>1, <1>1, <1>7 DEF Disruptions, ApiLost
<1>8. QED
  BY <1>1, <1>4, <1>5, <1>6, <1>7 DEF Next, vars, queueVars

(***************************************************************************)
(* A worker takes up a document only from a message.                       *)
(***************************************************************************)
LEMMA WorkerMoves ==
    ASSUME Fits, [Next]_vars, NEW w \in Worker, worker'[w].pc # "idle"
    PROVE  \/ worker[w].pc # "idle" /\ worker'[w].doc = worker[w].doc
           \/ \E r \in Attempt : /\ worker'[w].doc \in Document
                                 /\ queue[<<worker'[w].doc, r>>] > 0
<1> USE DEF At
<1>0. worker \in [Worker -> WorkerState]
  BY DEF Fits, TypeOK
<1>1. CASE UNCHANGED worker
  BY <1>1
<1>2. ASSUME NEW v \in Worker, TaskStep(v)
      PROVE  worker[w].pc # "idle" /\ worker'[w].doc = worker[w].doc
  <2>1. v # w => worker'[w] = worker[w]
    BY <1>0, <1>2, TaskStepMoves DEF Hold
  <2>2. ASSUME Start(v) \/ Compute(v) \/ Persist(v) \/ RecordFailure(v)
               \/ PrepareRetry(v) \/ Republish(v) \/ Finalize(v)
        PROVE  \E pc, held, bytes : Turn(v, pc, worker[v].doc, held, bytes)
    BY <1>0, <2>2, TaskTurns DEF Start, Compute, GetObject, Persist, RecordFailure,
        PrepareRetry, QueueForRetry,
       Republish, Finalize
  <2>3. worker[v].pc # "idle"
    BY <1>2 DEF TaskStep, Start, Compute, GetObject, Persist, RecordFailure, PrepareRetry,
        QueueForRetry, Republish,
       Finalize, Ack
  <2>4. Ack(v) => Turn(v, "idle", None, FALSE, None)
    BY <1>0, TaskTurns DEF Ack
  <2>5. QED
    BY <1>2, <2>1, <2>2, <2>3, <2>4 DEF TaskStep, Turn
<1>3. ASSUME NEW v \in Worker, NEW d \in Document, NEW r \in Attempt, Deliver(v, d, r)
      PROVE  \/ worker'[w] = worker[w]
             \/ worker'[w].doc = d /\ queue[<<d, r>>] > 0
  <2>1. Turn(v, "start", d, TRUE, None)
    BY <1>0, <1>3, TaskTurns DEF Deliver
  <2>2. QED
    BY <2>1, <1>3 DEF Turn, Deliver
<1>4. ASSUME NEW v \in Worker, WorkerLost(v) \/ ConnectionLost(v)
      PROVE  worker[w].pc # "idle" /\ worker'[w].doc = worker[w].doc
  <2>1. \/ Turn(v, "idle", None, FALSE, None)
        \/ Turn(v, worker[v].pc, worker[v].doc, FALSE, worker[v].bytes)
    BY <1>0, <1>4, TaskTurns DEF WorkerLost, ConnectionLost
  <2>2. QED
    BY <1>4, <2>1 DEF Turn
<1>5. QED
  BY <1>1, <1>2, <1>3, <1>4 DEF Next, Requests, Deliveries, Tasks, Disruptions, vars

LEMMA NextGrounded == Fits /\ Grounded /\ [Next]_vars => Grounded'
<1> SUFFICES ASSUME Fits, Grounded, [Next]_vars PROVE Grounded'
  OBVIOUS
<1>0. Fits'
  BY NextFits
<1>1. Fresh'
  BY RowMoves, UploadMoves DEF Fresh, Grounded, Created, Transacted, Exists
<1>2. MessagesGrounded'
  BY QueueMoves, RowsStay DEF MessagesGrounded, Grounded
<1>3. WorkersGrounded'
  <2>1. \A w \in Worker : worker[w].pc # "idle" => worker[w].doc \in Document
    BY DEF Fits, WorkerFits, FitTask
  <2>2. QED
    BY <2>1, WorkerMoves, RowsStay
    DEF WorkersGrounded, MessagesGrounded, Grounded, At, Exists
<1>4. TargetsGrounded'
  <2>1. \A u \in Document : upload'[u].target \in Document \cup {None}
    BY <1>0 DEF Fits, TypeOK, UploadState
  <2>2. \A d \in Document : Created(d) => Exists(d)'
    BY DEF Created, NewRow, QueuedRow, Exists
  <2>3. QED
    BY <2>1, <2>2, UploadMoves, RowsStay DEF TargetsGrounded, Grounded, Target
<1>5. QED
  BY <1>1, <1>2, <1>3, <1>4 DEF Grounded

LEMMA GroundedInvariant == Spec => [](Fits /\ Grounded)
<1>1. Init => Fits /\ Grounded
  BY InitFits, InitGrounded
<1>2. Fits /\ Grounded /\ [Next]_vars => (Fits /\ Grounded)'
  BY NextFits, NextGrounded
<1>3. QED
  BY <1>1, <1>2, PTL DEF Spec

-----------------------------------------------------------------------------
(***************************************************************************)
(* ReadyStays: whatever the constants, no upload, delivery, retry, failure *)
(* or loss ever changes a ready document.                                  *)
(***************************************************************************)
THEOREM ReadyStays == Spec => ReadyIsFinal
<1> DEFINE Kept == \A d \in Document : row[d].status = "ready" => row'[d] = row[d]
<1>1. Fits /\ Grounded /\ [Next]_vars => [Kept]_vars
  <2> SUFFICES ASSUME Fits, Grounded, [Next]_vars, NEW d \in Document,
                      row[d].status = "ready"
               PROVE  row'[d] = row[d]
    OBVIOUS
  <2>1. Exists(d)
    BY DEF Exists
  <2>2. ~ Created(d)
    BY <2>1 DEF Created, Grounded, Fresh, Early, In
  <2>3. Transacted(d) => row'[d] = row[d]
    BY DEF Transacted, StartIngestion, MarkQueuedForRetry, MarkFailed, PersistArtifacts,
       Terminal
  <2>4. QED
    BY <2>2, <2>3, RowMoves
<1>2. QED
  BY <1>1, GroundedInvariant, PTL DEF Spec, ReadyIsFinal

(***************************************************************************)
(* FailureStays: a failed document is never put back to work; the one way  *)
(* out of failed is completion by an attempt already running.              *)
(***************************************************************************)
THEOREM FailureStays == Spec => FailedOnlySuperseded
<1> DEFINE Kept == \A d \in Document :
                     row[d].status = "failed" => row'[d].status \in Terminal
<1>1. Fits /\ Grounded /\ [Next]_vars => [Kept]_vars
  <2> SUFFICES ASSUME Fits, Grounded, [Next]_vars, NEW d \in Document,
                      row[d].status = "failed"
               PROVE  row'[d].status \in Terminal
    OBVIOUS
  <2>1. Exists(d) /\ row[d] \in Row
    BY DEF Exists, Fits, TypeOK
  <2>2. ~ Created(d)
    BY <2>1 DEF Created, Grounded, Fresh, Early, In
  <2>3. Transacted(d) => row'[d].status \in Terminal
    BY <2>1 DEF Transacted, StartIngestion, MarkQueuedForRetry, MarkFailed,
       PersistArtifacts, Terminal, Row
  <2>4. QED
    BY <2>2, <2>3, RowMoves DEF Terminal
<1>2. QED
  BY <1>1, GroundedInvariant, PTL DEF Spec, FailedOnlySuperseded

-----------------------------------------------------------------------------
(***************************************************************************)
(* A document's row, object, bytes in flight and chunks all stem from the  *)
(* form of the one request that created it.                                *)
(***************************************************************************)
RowsOwn ==
    \A d \in Document : Exists(d) => /\ row[d].user = Form(d).user
                                    /\ row[d].content = Form(d).content
                                    /\ row[d].requestId = Form(d).requestId
ObjectsOwn ==
    \A d \in Document : object[d] # None => ~ In(d, "new") /\ object[d] = Form(d).content
BytesOwn ==
    \A w \in Worker : At(w, "persist") => worker[w].bytes = row[worker[w].doc].content

Owned == RowsOwn /\ ObjectsOwn /\ BytesOwn /\ ReadyIsComplete

LEMMA ObjectMoves ==
    ASSUME Fits, [Next]_vars, NEW d \in Document
    PROVE  \/ object'[d] = object[d]
           \/ object'[d] = None /\ Discard(d)
           \/ object'[d] = Form(d).content /\ In(d, "put") /\ StorePdf(d)
<1> USE DEF Form
<1>0. upload \in [Document -> UploadState]
      /\ object \in [Document -> Content \cup {None}]
  BY DEF Fits, TypeOK
<1>1. CASE UNCHANGED object
  BY <1>1
<1>2. ASSUME NEW u \in Document, StorePdf(u)
      PROVE  \/ object'[d] = object[d]
             \/ object'[d] = Form(d).content /\ In(d, "put") /\ StorePdf(d)
  BY <1>0, <1>2, StoreOutcome DEF StorePdf, PutObject
<1>3. ASSUME NEW u \in Document, Discard(u)
      PROVE  object'[d] = object[d] \/ (object'[d] = None /\ Discard(d))
  <2>1. UNCHANGED object \/ object' = [object EXCEPT ![u] = None]
    BY <1>3 DEF Discard, DeleteObject, DiscardedKey
  <2>2. QED
    BY <1>0, <1>3, <2>1
<1>4. CASE Requests
  BY <1>1, <1>2, <1>3, <1>4 DEF Requests, RequestStep, Receive, Recover, RecoverOwned,
      CheckDuplicate,
     CreateRow, Load, PublishTask, storeVars
<1>5. CASE Deliveries \/ Tasks \/ Disruptions
  BY <1>1, <1>5 DEF Deliveries, Deliver, Tasks, TaskStep, Start, Compute, GetObject, Persist,
     RecordFailure, PrepareRetry, QueueForRetry, Republish, Finalize, Ack, Disruptions, ApiLost,
     WorkerLost, ConnectionLost, storeVars
<1>6. QED
  BY <1>1, <1>4, <1>5 DEF Next, vars, storeVars

(***************************************************************************)
(* The bytes a worker persists are the bytes it just fetched.              *)
(***************************************************************************)
LEMMA BytesMove ==
    ASSUME Fits, [Next]_vars, NEW w \in Worker, worker'[w].pc = "persist"
    PROVE  /\ worker[w].pc # "idle" /\ worker'[w].doc = worker[w].doc
           /\ \/ worker[w].pc = "persist" /\ worker'[w].bytes = worker[w].bytes
              \/ object[worker[w].doc] \in Content
                 /\ worker'[w].bytes = object[worker[w].doc]
<1> USE DEF At
<1>0. worker \in [Worker -> WorkerState]
  BY DEF Fits, TypeOK
<1>1. CASE UNCHANGED worker
  BY <1>1
<1>2. ASSUME NEW v \in Worker, TaskStep(v)
      PROVE  \/ worker'[w] = worker[w]
             \/ worker[w].pc = "compute" /\ worker'[w].doc = worker[w].doc
                /\ object[worker[w].doc] \in Content
                /\ worker'[w].bytes = object[worker[w].doc]
  <2>1. ASSUME Start(v) \/ Persist(v) \/ RecordFailure(v) \/ PrepareRetry(v)
               \/ Republish(v) \/ Finalize(v) \/ Ack(v)
        PROVE  \/ Goto(v, "compute") \/ Goto(v, "republish")
               \/ Settle(v) \/ Raise(v) \/ Hold(v, IdleWorker)
    BY <2>1 DEF Start, Persist, RecordFailure, PrepareRetry, QueueForRetry, Republish,
        Finalize, Ack
  <2>2. ASSUME Compute(v)
        PROVE  \/ \E pc, doc, held, bytes : pc # "persist" /\ Turn(v, pc, doc, held, bytes)
               \/ /\ object[worker[v].doc] \in Content
                  /\ Turn(v, "persist", worker[v].doc, worker[v].held,
                          object[worker[v].doc])
    BY <1>0, <2>2, TaskTurns DEF Compute, GetObject
  <2>3. Compute(v) => worker[v].pc = "compute"
    BY DEF Compute, GetObject
  <2>4. QED
    <3>1. CASE \/ Goto(v, "compute") \/ Goto(v, "republish")
               \/ Settle(v) \/ Raise(v) \/ Hold(v, IdleWorker)
      <4> DEFINE s == worker[v]
      <4>1. \/ Turn(v, "compute", s.doc, s.held, s.bytes)
            \/ Turn(v, "republish", s.doc, s.held, s.bytes)
            \/ Turn(v, "ack", s.doc, s.held, None)
            \/ Turn(v, "retry", s.doc, s.held, None)
            \/ Turn(v, "idle", None, FALSE, None)
        BY <1>0, <3>1, TaskTurns
      <4>2. QED
        BY <4>1 DEF Turn
    <3>2. CASE Compute(v)
      BY <2>2, <2>3, <3>2 DEF Turn
    <3>3. QED
      BY <1>2, <2>1, <3>1, <3>2 DEF TaskStep
<1>3. ASSUME NEW v \in Worker, NEW d \in Document, NEW r \in Attempt, Deliver(v, d, r)
      PROVE  worker'[w] = worker[w]
  <2>1. Turn(v, "start", d, TRUE, None)
    BY <1>0, <1>3, TaskTurns DEF Deliver
  <2>2. QED
    BY <2>1 DEF Turn
<1>4. ASSUME NEW v \in Worker, WorkerLost(v) \/ ConnectionLost(v)
      PROVE  worker[w].pc = "persist" /\ worker'[w].doc = worker[w].doc
             /\ worker'[w].bytes = worker[w].bytes
  <2>1. \/ Turn(v, "idle", None, FALSE, None)
        \/ Turn(v, worker[v].pc, worker[v].doc, FALSE, worker[v].bytes)
    BY <1>0, <1>4, TaskTurns DEF WorkerLost, ConnectionLost
  <2>2. QED
    BY <2>1 DEF Turn
<1>5. QED
  BY <1>1, <1>2, <1>3, <1>4 DEF Next, Requests, Deliveries, Tasks, Disruptions, vars

LEMMA InitOwned == Init => Owned
BY DEF Init, StoreInit, UploadInit, WorkerInit, NoRow, NewUpload, IdleWorker, Owned,
       RowsOwn, ObjectsOwn, BytesOwn, ReadyIsComplete, Exists, At

LEMMA NextOwned == Fits /\ Grounded /\ Owned /\ [Next]_vars => Owned'
<1> SUFFICES ASSUME Fits, Grounded, Owned, [Next]_vars PROVE Owned'
  OBVIOUS
<1> USE DEF In, Form, At
<1>0. row \in [Document -> Row] /\ row' \in [Document -> Row] /\ None \notin Content
  BY NextFits, StoreAssumption DEF Fits, TypeOK
<1>1. \A w \in Worker : worker[w].pc # "idle"
        => worker[w].doc \in Document /\ Exists(worker[w].doc)
  BY DEF Fits, WorkerFits, FitTask, Grounded, WorkersGrounded
<1>2. RowsOwn'
  <2> SUFFICES ASSUME NEW d \in Document, Exists(d)'
               PROVE  (/\ row[d].user = upload[d].form.user
                       /\ row[d].content = upload[d].form.content
                       /\ row[d].requestId = upload[d].form.requestId)'
    BY DEF RowsOwn
  <2>1. CASE Exists(d)
    <3>1. upload'[d].form = upload[d].form
      BY <2>1, UploadMoves DEF Grounded, Fresh, Early
    <3>2. QED
      BY <2>1, <3>1, RowsStay DEF Owned, RowsOwn
  <2>2. CASE ~ Exists(d)
    <3>1. Created(d)
      BY <2>2, RowMoves DEF Transacted, Exists
    <3>2. upload'[d].form = upload[d].form
      BY <3>1, UploadMoves DEF Created
    <3>3. QED
      BY <3>1, <3>2 DEF Created, NewRow, QueuedRow
  <2>3. QED
    BY <2>1, <2>2
<1>3. ObjectsOwn'
  BY ObjectMoves, UploadMoves DEF Owned, ObjectsOwn
<1>4. BytesOwn'
  <2> SUFFICES ASSUME NEW w \in Worker, worker'[w].pc = "persist"
               PROVE  worker'[w].bytes = row'[worker'[w].doc].content
    BY DEF BytesOwn
  <2>1. worker[w].doc \in Document /\ Exists(worker[w].doc)
        /\ worker'[w].doc = worker[w].doc
    BY <1>1, BytesMove
  <2>2. worker'[w].bytes = row[worker[w].doc].content
    BY <1>0, <2>1, BytesMove DEF Owned, BytesOwn, ObjectsOwn, RowsOwn
  <2>3. QED
    BY <2>1, <2>2, RowsStay
<1>5. ReadyIsComplete'
  <2> SUFFICES ASSUME NEW d \in Document
               PROVE  IF row'[d].status = "ready"
                      THEN row'[d].chunks = row'[d].content /\ row'[d].error = None
                      ELSE row'[d].chunks = None
    BY DEF ReadyIsComplete
  <2>1. row[d] \in Row
    BY <1>0
  <2>2. IF row[d].status = "ready"
        THEN row[d].chunks = row[d].content /\ row[d].error = None
        ELSE row[d].chunks = None
    BY DEF Owned, ReadyIsComplete
  <2>3. CASE row'[d] = row[d]
    BY <2>2, <2>3
  <2>4. CASE Created(d)
    BY <2>4 DEF Created, NewRow, QueuedRow
  <2>5. CASE Transacted(d)
    <3>1. \A w \in Worker : worker[w].pc = "persist" /\ worker[w].doc = d
            => worker[w].bytes = row[d].content
      BY DEF Owned, BytesOwn
    <3>2. CASE \E w \in Worker : /\ At(w, "persist") /\ worker[w].doc = d
                                 /\ row'[d] = PersistArtifacts(row[d], worker[w].bytes)
      BY <2>1, <2>2, <3>1, <3>2 DEF At, PersistArtifacts, Terminal, Row
    <3>3. CASE \/ row'[d] = StartIngestion(row[d])
               \/ row'[d] = MarkQueuedForRetry(row[d])
      BY <2>1, <2>2, <3>3 DEF StartIngestion, MarkQueuedForRetry, Terminal, Row
    <3>4. CASE \E cause \in FailureCause : row'[d] = MarkFailed(row[d], cause)
      BY <2>1, <2>2, <3>4 DEF MarkFailed, Terminal, Row
    <3>5. QED
      BY <2>5, <3>2, <3>3, <3>4 DEF Transacted
  <2>6. QED
    BY <2>3, <2>4, <2>5, RowMoves
<1>6. QED
  BY <1>2, <1>3, <1>4, <1>5 DEF Owned

LEMMA OwnedInvariant == Spec => [](Fits /\ Grounded /\ Owned)
<1>1. Init => Owned
  BY InitOwned
<1>2. Fits /\ Grounded /\ Owned /\ [Next]_vars => Owned'
  BY NextOwned
<1>3. QED
  BY <1>1, <1>2, GroundedInvariant, PTL DEF Spec

(***************************************************************************)
(* ReadyComplete: a ready document always has the chunks of the very PDF   *)
(* it was created for, and no error; nobody ever sees chunks of a document *)
(* that is not ready.                                                      *)
(***************************************************************************)
THEOREM ReadyComplete == Spec => []ReadyIsComplete
<1>1. Owned => ReadyIsComplete
  BY DEF Owned
<1>2. QED
  BY <1>1, OwnedInvariant, PTL

-----------------------------------------------------------------------------
(***************************************************************************)
(* A step changes at most one row.                                         *)
(***************************************************************************)
LEMMA OneRowMoves ==
    ASSUME Fits, [Next]_vars
    PROVE  row' = row \/ \E d \in Document : \A e \in Document \ {d} : row'[e] = row[e]
<1>0. row \in [Document -> Row] /\ row' \in [Document -> Row]
  BY NextFits DEF Fits, TypeOK
<1> DEFINE OneRow == row' = row
                     \/ \E d \in Document : \A e \in Document \ {d} : row'[e] = row[e]
<1>1. ASSUME NEW w \in Worker, TaskStep(w) PROVE OneRow
  <2>1. worker[w].doc \in Document
    BY <1>1 DEF Fits, WorkerFits, FitTask, TaskStep, Start, Compute, GetObject, Persist,
       RecordFailure, PrepareRetry, QueueForRetry, Republish, Finalize, Ack, At
  <2>2. row' = row \/ \E r : row' = [row EXCEPT ![worker[w].doc] = r]
    BY <1>1 DEF TaskStep, Start, Compute, GetObject, Persist, RecordFailure, PrepareRetry,
        QueueForRetry, Republish,
       Finalize, Ack, SetRow, MayCommit, storeVars
  <2>3. QED
    BY <1>0, <2>1, <2>2
<1>2. ASSUME NEW u \in Document, RequestStep(u) PROVE OneRow
  <2>1. row' = row \/ \E r : row' = [row EXCEPT ![u] = r]
    BY <1>2 DEF RequestStep, Recover, RecoverOwned, CheckDuplicate, StorePdf, PutObject,
        CreateRow, Discard, DeleteObject, Load,
       PublishTask, storeVars
  <2>2. QED
    BY <1>0, <2>1
<1>3. CASE \/ \E u \in Document, s \in Submission : Receive(u, s)
           \/ Deliveries \/ Disruptions \/ UNCHANGED vars
  BY <1>3 DEF Receive, Deliveries, Deliver, Disruptions, ApiLost, WorkerLost,
     ConnectionLost, vars, storeVars
<1>4. QED
  BY <1>1, <1>2, <1>3 DEF Next, Requests, Tasks

LEMMA PointChange ==
    ASSUME NEW f, NEW g, NEW d \in Document, \A e \in Document \ {d} : g[e] = f[e]
    PROVE  /\ [e \in Document |-> g[e].status]
              = [[e \in Document |-> f[e].status] EXCEPT ![d] = g[d].status]
           /\ [e \in Document |-> g[e].content]
              = [[e \in Document |-> f[e].content] EXCEPT ![d] = g[d].content]
           /\ [e \in Document |-> g[e].chunks]
              = [[e \in Document |-> f[e].chunks] EXCEPT ![d] = g[d].chunks]
OBVIOUS

(***************************************************************************)
(* A move of one row is a move of the abstract document, or a stutter.     *)
(***************************************************************************)
LEMMA MoveRefines ==
    ASSUME Fits, Grounded, Owned, [Next]_vars, NEW d \in Document,
           \A e \in Document \ {d} : row'[e] = row[e], row'[d] # row[d]
    PROVE  [Lifecycle!LifecycleNext]_(Lifecycle!lifecycleVars)
<1> DEFINE status == [e \in Document |-> row[e].status]
           source == [e \in Document |-> row[e].content]
           chunks == [e \in Document |-> row[e].chunks]
<1>0. row \in [Document -> Row] /\ row' \in [Document -> Row] /\ row[d] \in Row
  BY NextFits DEF Fits, TypeOK
<1>1. /\ status' = [status EXCEPT ![d] = row'[d].status]
      /\ source' = [source EXCEPT ![d] = row'[d].content]
      /\ chunks' = [chunks EXCEPT ![d] = row'[d].chunks]
  BY PointChange
<1>2. CASE Created(d)
  <2>1. /\ row[d].status = "absent" /\ row[d].chunks = None
        /\ Form(d).content \in Content
    BY <1>0, <1>2 DEF Created, Grounded, Fresh, Early, In, Exists, Owned, ReadyIsComplete,
       Fits, UploadFits, FitRequest, SubmissionType, Form
  <2>2. /\ row'[d].status = "queued" /\ row'[d].content = Form(d).content
        /\ row'[d].chunks = None
    BY <1>2 DEF Created, NewRow, QueuedRow
  <2>3. PICK c \in Content : c = Form(d).content
    BY <2>1
  <2>4. Lifecycle!Submit(d, c)
    BY <1>0, <1>1, <2>1, <2>2, <2>3 DEF Lifecycle!Submit
  <2>5. QED
    BY <2>4 DEF Lifecycle!LifecycleNext
<1>3. CASE Transacted(d)
  <2>1. row'[d].content = row[d].content
    BY <1>3, RowsStay DEF Transacted
  <2>2. \/ row[d].status = "queued" /\ row'[d].status = "processing"
           /\ row'[d].chunks = row[d].chunks
        \/ row[d].status = "processing" /\ row'[d].status = "queued"
           /\ row'[d].chunks = row[d].chunks
        \/ row[d].status \in {"queued", "processing"} /\ row'[d].status = "failed"
           /\ row'[d].chunks = row[d].chunks
        \/ row[d].status \in {"queued", "processing", "failed"}
           /\ row'[d].status = "ready" /\ row'[d].chunks = row[d].content
        \/ row'[d].status = row[d].status /\ row'[d].chunks = row[d].chunks
    <3>1. row[d].status \in {"queued", "processing", "ready", "failed"}
      BY <1>0, <1>3 DEF Transacted, Exists, Row, Status
    <3>2. CASE row'[d] = StartIngestion(row[d])
      BY <1>0, <3>1, <3>2 DEF StartIngestion, Terminal, Row
    <3>3. CASE row'[d] = MarkQueuedForRetry(row[d])
      BY <1>0, <3>1, <3>3 DEF MarkQueuedForRetry, Row
    <3>4. ASSUME NEW cause \in FailureCause, row'[d] = MarkFailed(row[d], cause)
          PROVE  \/ row[d].status \in {"queued", "processing"} /\ row'[d].status = "failed"
                    /\ row'[d].chunks = row[d].chunks
                 \/ row'[d].status = row[d].status /\ row'[d].chunks = row[d].chunks
      BY <1>0, <3>1, <3>4 DEF MarkFailed, Row
    <3>5. ASSUME NEW w \in Worker, At(w, "persist"), worker[w].doc = d,
                 row'[d] = PersistArtifacts(row[d], worker[w].bytes)
          PROVE  row[d].status \in {"queued", "processing", "failed"}
                 /\ row'[d].status = "ready" /\ row'[d].chunks = row[d].content
      <4>1. worker[w].bytes = row[d].content
        BY <3>5 DEF Owned, BytesOwn
      <4>2. row[d].status # "ready"
        BY <3>5 DEF PersistArtifacts
      <4>3. QED
        BY <1>0, <3>1, <3>5, <4>1, <4>2 DEF PersistArtifacts, Row
    <3>6. QED
      BY <1>3, <3>2, <3>3, <3>4, <3>5 DEF Transacted
  <2>3. status[d] = row[d].status /\ chunks[d] = row[d].chunks /\ source[d] = row[d].content
    OBVIOUS
  <2>4. source' = source /\ (row'[d].chunks = row[d].chunks => chunks' = chunks)
        /\ (row'[d].status = row[d].status => status' = status)
    BY <1>1, <2>1, <2>3
  <2>5. CASE row[d].status = "queued" /\ row'[d].status = "processing"
             /\ row'[d].chunks = row[d].chunks
    BY <1>1, <2>3, <2>4, <2>5
    DEF Lifecycle!LifecycleNext, Lifecycle!Begin, Lifecycle!Move
  <2>6. CASE row[d].status = "processing" /\ row'[d].status = "queued"
             /\ row'[d].chunks = row[d].chunks
    BY <1>1, <2>3, <2>4, <2>6
    DEF Lifecycle!LifecycleNext, Lifecycle!Requeue, Lifecycle!Move
  <2>7. CASE row[d].status \in {"queued", "processing"} /\ row'[d].status = "failed"
             /\ row'[d].chunks = row[d].chunks
    BY <1>1, <2>3, <2>4, <2>7
    DEF Lifecycle!LifecycleNext, Lifecycle!Fail, Lifecycle!Move
  <2>8. CASE row[d].status \in {"queued", "processing", "failed"}
             /\ row'[d].status = "ready" /\ row'[d].chunks = row[d].content
    BY <1>1, <2>3, <2>4, <2>8 DEF Lifecycle!LifecycleNext, Lifecycle!Complete
  <2>9. CASE row'[d].status = row[d].status /\ row'[d].chunks = row[d].chunks
    BY <2>4, <2>9 DEF Lifecycle!lifecycleVars
  <2>10. QED
    BY <2>2, <2>5, <2>6, <2>7, <2>8, <2>9
<1>4. QED
  BY <1>2, <1>3, RowMoves

(***************************************************************************)
(* PipelineRefinesLifecycle: whoever acts and in whatever order, a         *)
(* document only ever makes the moves of the abstract lifecycle, for every *)
(* number of documents, workers, retries and disruptions.                  *)
(***************************************************************************)
THEOREM PipelineRefinesLifecycle == Spec => RefinesLifecycle
<1>1. Init => Lifecycle!LifecycleInit
  BY DEF Init, StoreInit, NoRow, Lifecycle!LifecycleInit
<1>2. Fits /\ Grounded /\ Owned /\ [Next]_vars
      => [Lifecycle!LifecycleNext]_(Lifecycle!lifecycleVars)
  <2> SUFFICES ASSUME Fits, Grounded, Owned, [Next]_vars
               PROVE  [Lifecycle!LifecycleNext]_(Lifecycle!lifecycleVars)
    OBVIOUS
  <2>0. row \in [Document -> Row] /\ row' \in [Document -> Row]
    BY NextFits DEF Fits, TypeOK
  <2>1. CASE row' = row
    BY <2>1 DEF Lifecycle!lifecycleVars
  <2>2. CASE row' # row
    <3>1. PICK d \in Document : \A e \in Document \ {d} : row'[e] = row[e]
      BY <2>2, OneRowMoves
    <3>2. row'[d] # row[d]
      BY <2>0, <2>2, <3>1
    <3>3. QED
      BY <3>1, <3>2, MoveRefines
  <2>3. QED
    BY <2>1, <2>2
<1>3. QED
  BY <1>1, <1>2, OwnedInvariant, PTL DEF Spec, RefinesLifecycle, Lifecycle!LifecycleSpec
=============================================================================
