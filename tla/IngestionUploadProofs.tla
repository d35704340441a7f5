----------------------- MODULE IngestionUploadProofs ------------------------
(***************************************************************************)
(* Proofs about what the ingestion pipeline owes to an upload.             *)
(***************************************************************************)
EXTENDS IngestionSafetyProofs

(***************************************************************************)
(* What uploads promise, for every value of the constants: the outcome of  *)
(* races on one upload_request_id, and the survival of the source PDF.     *)
(***************************************************************************)
(***************************************************************************)
(* Only its own steps change a request.                                    *)
(***************************************************************************)
LEMMA UploadActor ==
    ASSUME Fits, [Next]_vars, NEW u \in Document
    PROVE  \/ upload'[u] = upload[u]
           \/ \E s \in Submission : Receive(u, s)
           \/ Recover(u) \/ CheckDuplicate(u) \/ StorePdf(u) \/ CreateRow(u)
           \/ Discard(u) \/ Load(u) \/ PublishTask(u)
           \/ ApiLost(u)
<1>0. upload \in [Document -> UploadState]
  BY DEF Fits, TypeOK
<1>1. CASE UNCHANGED upload
  BY <1>1
<1>2. ASSUME NEW v \in Document, NEW s \in Submission, Receive(v, s), v # u
      PROVE  upload'[u] = upload[u]
  BY <1>0, <1>2 DEF Receive, Become
<1>3. ASSUME NEW v \in Document, RequestStep(v), v # u
      PROVE  upload'[u] = upload[u]
  BY <1>0, <1>3, RequestStepMoves DEF Become
<1>4. ASSUME NEW v \in Document, ApiLost(v), v # u
      PROVE  upload'[u] = upload[u]
  BY <1>0, <1>4 DEF ApiLost, Respond, Become
<1>5. QED
  BY <1>1, <1>2, <1>3, <1>4
  DEF Next, Requests, RequestStep, Deliveries, Tasks, Disruptions, vars

LEMMA ReceiveOutcome ==
    ASSUME upload \in [Document -> UploadState], NEW d \in Document,
           NEW s \in Submission, Receive(d, s)
    PROVE  /\ upload'[d].pc \in {"recover", "check", "put"}
           /\ upload'[d].target = upload[d].target
           /\ upload'[d].answer = upload[d].answer
           /\ upload'[d].after = upload[d].after
           /\ UNCHANGED <<row, object>>
BY DEF Receive, Become, UploadState, storeVars

LEMMA LostOutcome ==
    ASSUME upload \in [Document -> UploadState], NEW d \in Document, ApiLost(d)
    PROVE  /\ Outcome(d, "done", upload[d].target, "lost", upload[d].after)
           /\ upload[d].pc \notin {"new", "done"}
           /\ UNCHANGED <<row, object>>
BY RequestBecomes DEF ApiLost, In, storeVars

-----------------------------------------------------------------------------
(***************************************************************************)
(* KeysUnique is the database's unique key.  A request whose answer does   *)
(* not name a duplicate is about a document with its own form's owner,     *)
(* content and request id, whether it created or recovered it.             *)
(***************************************************************************)
KeysUnique ==
    \A d, e \in Document :
        /\ Exists(d) /\ Exists(e)
        /\ row[d].user = row[e].user /\ row[d].requestId = row[e].requestId
        /\ row[d].requestId # None
        => d = e

Matches(t, form) ==
    /\ row[t].user = form.user /\ row[t].content = form.content
    /\ row[t].requestId = form.requestId

Undecided == \A u \in Document :
    /\ upload[u].pc \in Early => Target(u) = None
    /\ upload[u].answer = "duplicate" => In(u, "done")

TargetsApt == \A u \in Document :
    Target(u) # None /\ upload[u].answer # "duplicate" => Matches(Target(u), Form(u))

Keyed == KeysUnique /\ Undecided /\ TargetsApt

LEMMA InitKeyed == Init => Keyed
BY StoreAssumption, AnswerAssumption
DEF Init, StoreInit, UploadInit, NoRow, NewUpload, Keyed, KeysUnique, Undecided,
    TargetsApt, Exists, Target, Answer

LEMMA NextKeysUnique ==
    ASSUME Fits, Grounded, Keyed, [Next]_vars
    PROVE  KeysUnique'
<1> SUFFICES ASSUME NEW d \in Document, NEW e \in Document, Exists(d)', Exists(e)',
                    row'[d].user = row'[e].user, row'[d].requestId = row'[e].requestId,
                    row'[d].requestId # None
             PROVE  d = e
  BY DEF KeysUnique
<1>1. \A x \in Document : Exists(x)' => Exists(x) \/ Created(x)
  BY RowMoves DEF Transacted, Exists
<1>2. ASSUME NEW x \in Document, NEW y \in Document, Created(x), Exists(y),
             row'[x].user = row'[y].user, row'[x].requestId = row'[y].requestId,
             row'[x].requestId # None
      PROVE  FALSE
  <2>1. row'[x].user = Form(x).user /\ row'[x].requestId = Form(x).requestId
    BY <1>2 DEF Created, NewRow, QueuedRow
  <2>2. y \in Collisions(x)
    BY <1>2, <2>1, RowsStay DEF Collisions, RequestMatches
  <2>3. QED
    BY <1>2, <2>2 DEF Created
<1>3. CASE Exists(d) /\ Exists(e)
  BY <1>3, RowsStay DEF Keyed, KeysUnique
<1>4. CASE Created(d) /\ Created(e)
  BY <1>4 DEF Created, Early, In
<1>5. QED
  BY <1>1, <1>2, <1>3, <1>4

(***************************************************************************)
(* The documents a request may come to be about.                           *)
(***************************************************************************)
LEMMA FoundMatches ==
    ASSUME NEW form \in SubmissionType, NEW t \in RequestMatches(form.user, form.requestId),
           row[t].content = form.content
    PROVE  t \in Document /\ Exists(t) /\ Matches(t, form)
BY DEF RequestMatches, Matches

LEMMA NextUndecided ==
    ASSUME Fits, Keyed, [Next]_vars
    PROVE  Undecided'
<1> USE DEF In, Target
<1> SUFFICES ASSUME NEW u \in Document
             PROVE  /\ upload'[u].pc \in Early => upload'[u].target = None
                    /\ upload'[u].answer = "duplicate" => upload'[u].pc = "done"
  BY DEF Undecided
<1>0. upload \in [Document -> UploadState] /\ None # "duplicate"
  BY AnswerAssumption DEF Fits, TypeOK, Answer
<1>1. /\ upload[u].pc \in Early => upload[u].target = None
      /\ upload[u].answer = "duplicate" => upload[u].pc = "done"
  BY DEF Keyed, Undecided
<1>2. CASE upload'[u] = upload[u]
  BY <1>1, <1>2
<1>3. ASSUME NEW s \in Submission, Receive(u, s) PROVE
             /\ upload'[u].pc \in Early => upload'[u].target = None
             /\ upload'[u].answer = "duplicate" => upload'[u].pc = "done"
  BY <1>0, <1>1, <1>3, ReceiveOutcome DEF Receive, Early
<1>4. CASE Recover(u)
  BY <1>0, <1>1, <1>4, RecoverOutcome DEF Recover, RecoverOwned, Outcome, Early
<1>5. CASE CheckDuplicate(u)
  BY <1>0, <1>1, <1>5, CheckOutcome DEF CheckDuplicate, Outcome, Early
<1>6. CASE StorePdf(u)
  BY <1>0, <1>1, <1>6, StoreOutcome DEF StorePdf, PutObject, Outcome, Early
<1>7. CASE CreateRow(u)
  BY <1>0, <1>1, <1>7, CreateOutcome DEF CreateRow, Outcome, Early
<1>8. CASE Discard(u)
  BY <1>0, <1>1, <1>8, DiscardOutcome DEF Outcome, Early
<1>9. CASE Load(u)
  BY <1>0, <1>1, <1>9, LoadOutcome DEF Load, Outcome, Early
<1>10. CASE PublishTask(u)
  BY <1>0, <1>1, <1>10, PublishOutcome DEF PublishTask, Outcome, Early
<1>11. CASE ApiLost(u)
  BY <1>0, <1>1, <1>11, LostOutcome DEF Outcome, Early
<1>12. QED
  BY <1>2, <1>3, <1>4, <1>5, <1>6, <1>7, <1>8, <1>9, <1>10, <1>11, UploadActor

(***************************************************************************)
(* A request keeps its target, finds a matching row, or creates its own.   *)
(***************************************************************************)
LEMMA TargetMoves ==
    ASSUME Fits, Keyed, [Next]_vars, NEW u \in Document,
           upload'[u].target # None, upload'[u].answer # "duplicate"
    PROVE  \/ /\ upload'[u].target = upload[u].target
              /\ upload[u].answer # "duplicate" /\ upload'[u].form = upload[u].form
           \/ /\ upload'[u].target \in Document /\ Exists(upload'[u].target)
              /\ Matches(upload'[u].target, upload[u].form)
              /\ upload'[u].form = upload[u].form
           \/ /\ upload'[u].target = u /\ row'[u] = NewRow(u)
              /\ upload'[u].form = upload[u].form
<1> USE DEF In, Target
<1>0. /\ upload \in [Document -> UploadState] /\ row \in [Document -> Row]
      /\ None # "duplicate"
      /\ upload[u].pc # "new" => upload[u].form \in SubmissionType
  BY AnswerAssumption DEF Fits, TypeOK, Answer, UploadFits, FitRequest
<1>1. /\ upload[u].pc \in Early => upload[u].target = None
      /\ upload[u].answer = "duplicate" => upload[u].pc = "done"
  BY DEF Keyed, Undecided
<1>2. CASE upload'[u] = upload[u]
  BY <1>2
<1>3. ASSUME NEW s \in Submission, Receive(u, s) PROVE FALSE
  BY <1>0, <1>1, <1>3, ReceiveOutcome DEF Receive, Early
<1>4. CASE Recover(u)
  <2>1. \A t \in RequestMatches(upload[u].form.user, upload[u].form.requestId) :
          row[t].content = upload[u].form.content
          => t \in Document /\ Exists(t) /\ Matches(t, upload[u].form)
    BY <1>0, <1>4, FoundMatches DEF Recover, RecoverOwned
  <2>2. QED
    BY <1>0, <1>1, <1>4, <2>1, RecoverOutcome DEF Recover, RecoverOwned, Outcome, Early
<1>5. CASE CheckDuplicate(u)
  BY <1>0, <1>1, <1>5, CheckOutcome DEF CheckDuplicate, Outcome, Early
<1>6. CASE StorePdf(u)
  BY <1>0, <1>1, <1>6, StoreOutcome DEF StorePdf, PutObject, Outcome, Early
<1>7. CASE CreateRow(u)
  <2>1. \A t \in Collisions(u) : row[t].content = upload[u].form.content
          => t \in Document /\ Exists(t) /\ Matches(t, upload[u].form)
    BY <1>0, <1>7, FoundMatches DEF CreateRow, Collisions, Form
  <2>2. QED
    BY <1>0, <1>1, <1>7, <2>1, CreateOutcome DEF CreateRow, Outcome
<1>8. CASE Discard(u)
  BY <1>0, <1>1, <1>8, DiscardOutcome DEF Discard, DeleteObject, Outcome
<1>9. CASE Load(u)
  BY <1>0, <1>1, <1>9, LoadOutcome DEF Load, Outcome
<1>10. CASE PublishTask(u)
  BY <1>0, <1>1, <1>10, PublishOutcome DEF PublishTask, Outcome
<1>11. CASE ApiLost(u)
  BY <1>0, <1>1, <1>11, LostOutcome DEF Outcome
<1>12. QED
  BY <1>2, <1>3, <1>4, <1>5, <1>6, <1>7, <1>8, <1>9, <1>10, <1>11, UploadActor

LEMMA NextTargetsApt ==
    ASSUME Fits, Grounded, Keyed, [Next]_vars
    PROVE  TargetsApt'
<1> USE DEF Target, Form
<1> SUFFICES ASSUME NEW u \in Document, upload'[u].target # None,
                    upload'[u].answer # "duplicate"
             PROVE  Matches(upload[u].target, upload[u].form)'
  BY DEF TargetsApt
<1>1. \A x \in Document : \A form : Exists(x) /\ Matches(x, form) => Matches(x, form)'
  BY RowsStay DEF Matches
<1>2. upload[u].target \in Document \cup {None}
  BY DEF Fits, TypeOK, UploadState
<1>3. CASE /\ upload'[u].target = upload[u].target
           /\ upload[u].answer # "duplicate" /\ upload'[u].form = upload[u].form
  <2>1. Matches(upload[u].target, upload[u].form) /\ Exists(upload[u].target)
    BY <1>3 DEF Keyed, TargetsApt, Grounded, TargetsGrounded
  <2>2. QED
    BY <1>2, <1>3, <2>1, RowsStay DEF Matches
<1>4. CASE /\ upload'[u].target \in Document /\ Exists(upload'[u].target)
           /\ Matches(upload'[u].target, upload[u].form)
           /\ upload'[u].form = upload[u].form
  BY <1>4, RowsStay DEF Matches
<1>5. CASE /\ upload'[u].target = u /\ row'[u] = NewRow(u)
           /\ upload'[u].form = upload[u].form
  BY <1>5 DEF Matches, NewRow, QueuedRow
<1>6. QED
  BY <1>3, <1>4, <1>5, TargetMoves

LEMMA KeyedInvariant == Spec => [](Fits /\ Grounded /\ Keyed)
<1>1. Fits /\ Grounded /\ Keyed /\ [Next]_vars => Keyed'
  BY NextKeysUnique, NextUndecided, NextTargetsApt DEF Keyed
<1>2. QED
  BY <1>1, InitKeyed, GroundedInvariant, PTL DEF Spec

(***************************************************************************)
(* OneDocument: however many uploads of a user race under one              *)
(* upload_request_id, those that are told of a document are told of the    *)
(* same one, and it has the bytes each of them sent.                       *)
(***************************************************************************)
THEOREM OneDocument == Spec => []OneDocumentPerRequestId
<1>1. Fits /\ Grounded /\ Keyed => OneDocumentPerRequestId
  <2> SUFFICES ASSUME Fits, Grounded, Keyed, NEW u \in Document, NEW v \in Document,
                      Named(u), Named(v), Form(u).requestId # None,
                      Form(u).requestId = Form(v).requestId, Form(u).user = Form(v).user
               PROVE  Target(u) = Target(v) /\ Form(u).content = Form(v).content
    BY DEF OneDocumentPerRequestId
  <2>1. ASSUME NEW x \in Document, Named(x)
        PROVE  /\ Target(x) \in Document /\ Exists(Target(x))
               /\ Matches(Target(x), Form(x))
    BY <2>1 DEF Named, Keyed, TargetsApt, Grounded, TargetsGrounded, Fits, TypeOK,
       UploadState, Target
  <2>2. Target(u) = Target(v)
    BY <2>1 DEF Keyed, KeysUnique, Matches
  <2>3. QED
    BY <2>1, <2>2 DEF Matches
<1>2. QED
  BY <1>1, KeyedInvariant, PTL

-----------------------------------------------------------------------------
(***************************************************************************)
(* The PDF is stored before its row is created, and only a request that    *)
(* takes its own commit for failed deletes the object of a committed row.  *)
(***************************************************************************)
Unaware(s) == s.after = "unavailable" /\ s.target = None

StoredFirst == \A d \in Document : In(d, "create") => object[d] # None
DeletedUnaware == \A d \in Document :
    Exists(d) => /\ In(d, "discard") => Unaware(upload[d])
                 /\ object[d] = None => In(d, "done") /\ Unaware(upload[d])

Sourced == StoredFirst /\ DeletedUnaware

LEMMA InitSourced == Init => Sourced
BY DEF Init, StoreInit, UploadInit, NoRow, NewUpload, Sourced, StoredFirst,
       DeletedUnaware, Exists, In

LEMMA NextStoredFirst ==
    ASSUME Fits, Sourced, [Next]_vars
    PROVE  StoredFirst'
<1> USE DEF In, Form
<1> SUFFICES ASSUME NEW u \in Document, upload'[u].pc = "create"
             PROVE  object'[u] # None
  BY DEF StoredFirst
<1>0. /\ upload \in [Document -> UploadState] /\ object \in [Document -> Content \cup {None}]
      /\ upload[u].pc # "new" => upload[u].form.content \in Content
      /\ None \notin Content
  BY StoreAssumption DEF Fits, TypeOK, UploadFits, FitRequest, SubmissionType
<1>1. CASE upload'[u] = upload[u]
  BY <1>0, <1>1, ObjectMoves DEF Sourced, StoredFirst, Discard, DeleteObject
<1>2. CASE StorePdf(u)
  BY <1>0, <1>2, StoreOutcome DEF StorePdf, PutObject, Outcome
<1>3. CASE Recover(u)
  BY <1>0, <1>3, RecoverOutcome DEF Outcome
<1>4. CASE CheckDuplicate(u)
  BY <1>0, <1>4, CheckOutcome DEF Outcome
<1>5. CASE CreateRow(u)
  BY <1>0, <1>5, CreateOutcome DEF Outcome
<1>6. CASE Discard(u)
  BY <1>0, <1>6, DiscardOutcome DEF Outcome
<1>7. CASE Load(u)
  BY <1>0, <1>7, LoadOutcome DEF Outcome
<1>8. CASE PublishTask(u)
  BY <1>0, <1>8, PublishOutcome DEF Outcome
<1>9. CASE ApiLost(u) \/ \E s \in Submission : Receive(u, s)
  BY <1>0, <1>9, LostOutcome, ReceiveOutcome DEF Outcome
<1>10. QED
  BY <1>1, <1>2, <1>3, <1>4, <1>5, <1>6, <1>7, <1>8, <1>9, UploadActor

(***************************************************************************)
(* A request that comes to its compensating delete with a row of its own   *)
(* got there from the commit that raised.                                  *)
(***************************************************************************)
LEMMA DiscardMoves ==
    ASSUME Fits, [Next]_vars, NEW u \in Document,
           upload'[u].pc = "discard" \/ upload[u].pc \in {"discard", "done"}
    PROVE  \/ upload'[u] = upload[u]
           \/ upload[u].pc = "create" /\ (Unaware(upload'[u]) \/ row'[u] = row[u])
           \/ /\ upload[u].pc = "discard"
              /\ upload'[u].target = upload[u].target /\ upload'[u].after = upload[u].after
              /\ upload'[u].pc = "done" \/ upload[u].after = None
<1> USE DEF In, Form, Unaware
<1>0. upload \in [Document -> UploadState] /\ row \in [Document -> Row]
  BY DEF Fits, TypeOK
<1>1. CASE StorePdf(u)
  BY <1>0, <1>1, StoreOutcome DEF StorePdf, PutObject, Outcome
<1>2. CASE Recover(u)
  BY <1>0, <1>2, RecoverOutcome DEF Recover, RecoverOwned, Outcome
<1>3. CASE CheckDuplicate(u)
  BY <1>0, <1>3, CheckOutcome DEF CheckDuplicate, Outcome
<1>4. CASE CreateRow(u)
  BY <1>0, <1>4, CreateOutcome DEF CreateRow, Outcome
<1>5. CASE Discard(u)
  BY <1>0, <1>5, DiscardOutcome DEF Discard, DeleteObject, Outcome
<1>6. CASE Load(u)
  BY <1>0, <1>6, LoadOutcome DEF Load, Outcome
<1>7. CASE PublishTask(u)
  BY <1>0, <1>7, PublishOutcome DEF PublishTask, Outcome
<1>8. CASE ApiLost(u)
  BY <1>0, <1>8, LostOutcome DEF Outcome
<1>9. CASE \E s \in Submission : Receive(u, s)
  BY <1>0, <1>9, ReceiveOutcome DEF Receive
<1>10. QED
  BY <1>1, <1>2, <1>3, <1>4, <1>5, <1>6, <1>7, <1>8, <1>9, UploadActor

LEMMA NextDeletedUnaware ==
    ASSUME Fits, Grounded, Sourced, [Next]_vars
    PROVE  DeletedUnaware'
<1> USE DEF In, Unaware
<1> SUFFICES ASSUME NEW d \in Document, Exists(d)'
             PROVE  /\ upload'[d].pc = "discard" => Unaware(upload'[d])
                    /\ object'[d] = None => upload'[d].pc = "done" /\ Unaware(upload'[d])
  BY DEF DeletedUnaware
<1>0. "unavailable" # None
  BY AnswerAssumption DEF Answer
<1>1. CASE Exists(d)
  <2>1. /\ upload[d].pc \notin Early
        /\ upload[d].pc = "discard" => Unaware(upload[d])
        /\ object[d] = None => upload[d].pc = "done" /\ Unaware(upload[d])
    BY <1>1 DEF Grounded, Fresh, Sourced, DeletedUnaware
  <2>2. upload'[d].pc = "discard" => Unaware(upload'[d])
    BY <1>0, <2>1, DiscardMoves DEF Early
  <2>3. ASSUME object'[d] = None PROVE upload'[d].pc = "done" /\ Unaware(upload'[d])
    <3>1. CASE object'[d] = object[d]
      BY <2>1, <2>3, <3>1, DiscardMoves DEF Early
    <3>2. CASE Discard(d)
      BY <1>0, <2>1, <3>2, DiscardOutcome DEF Discard, DeleteObject, Outcome, Fits, TypeOK
    <3>3. CASE object'[d] = Form(d).content /\ In(d, "put")
      BY <2>1, <3>3 DEF Early
    <3>4. QED
      BY <3>1, <3>2, <3>3, ObjectMoves
  <2>4. QED
    BY <2>2, <2>3
<1>2. CASE ~ Exists(d)
  <2>1. Created(d)
    BY <1>2, RowMoves DEF Transacted, Exists
  <2>2. object'[d] # None
    BY <2>1, ObjectMoves DEF Created, Sourced, StoredFirst, Discard, DeleteObject
  <2>3. upload'[d].pc = "discard" => Unaware(upload'[d])
    BY <1>2, <2>1, DiscardMoves DEF Created, Exists, Early
  <2>4. QED
    BY <2>2, <2>3
<1>3. QED
  BY <1>1, <1>2

(***************************************************************************)
(* SourceKept: the PDF behind a committed row is never deleted by the      *)
(* losers of a race or by a failure, but for the request whose commit was  *)
(* reported failed and took effect.                                        *)
(***************************************************************************)
THEOREM SourceKept == Spec => []SourceOutlivesRow
<1>1. Fits /\ Grounded /\ Sourced /\ [Next]_vars => Sourced'
  BY NextStoredFirst, NextDeletedUnaware DEF Sourced
<1>2. Sourced => SourceOutlivesRow
  BY DEF Sourced, DeletedUnaware, SourceOutlivesRow, Unaware, Target
<1>3. QED
  BY <1>1, <1>2, InitSourced, GroundedInvariant, PTL DEF Spec

-----------------------------------------------------------------------------
(***************************************************************************)
(* A request that has not stored its PDF yet has none, and a PDF without a *)
(* row that a request leaves behind was kept by a failed delete, or the    *)
(* process was lost, or the PUT raised.                                    *)
(***************************************************************************)
Excused(s) ==
    \/ s.kept
    \/ s.pc = "done" /\ s.answer = "lost"
    \/ s.pc = "done" /\ s.answer = "unavailable" /\ s.after = None

OrphansExcused ==
    \A d \in Document :
        /\ upload[d].pc \in {"new", "recover", "check", "put"} =>
               object[d] = None /\ upload[d].after = None
        /\ upload[d].pc \in {"load", "publish", "done"} /\ object[d] # None =>
               Exists(d) \/ Excused(upload[d])

LEMMA InitOrphansExcused == Init => OrphansExcused
<1> SUFFICES ASSUME Init PROVE OrphansExcused
  OBVIOUS
<1>1. \A d \in Document :
          upload[d].pc = "new" /\ upload[d].after = None /\ object[d] = None
  BY DEF Init, StoreInit, UploadInit, NewUpload
<1> QED
  BY <1>1 DEF OrphansExcused

LEMMA NextOrphansExcused ==
    ASSUME Fits, Grounded, OrphansExcused, [Next]_vars
    PROVE  OrphansExcused'
<1> SUFFICES ASSUME NEW d \in Document
             PROVE  /\ upload'[d].pc \in {"new", "recover", "check", "put"} =>
                           object'[d] = None /\ upload'[d].after = None
                    /\ upload'[d].pc \in {"load", "publish", "done"} /\ object'[d] # None =>
                           Exists(d)' \/ Excused(upload'[d])
  BY DEF OrphansExcused
<1> USE DEF In, Excused
<1>0. /\ upload \in [Document -> UploadState] /\ row \in [Document -> Row]
      /\ object \in [Document -> Content \cup {None}]
      /\ Exists(d) => Exists(d)'
      /\ upload[d].pc \in {"new", "recover", "check", "put"} =>
             object[d] = None /\ upload[d].after = None
      /\ upload[d].pc \in {"load", "publish", "done"} /\ object[d] # None =>
             Exists(d) \/ Excused(upload[d])
  BY RowsStay DEF Fits, TypeOK, OrphansExcused
<1>1. CASE upload'[d] = upload[d]
  <2>1. object'[d] = object[d]
    BY <1>0, <1>1, ObjectMoves, StoreOutcome, DiscardOutcome DEF Outcome, StorePdf,
        PutObject, Discard, DeleteObject
  <2> QED
    BY <1>0, <1>1, <2>1
<1>2. CASE \E s \in Submission : Receive(d, s)
  BY <1>0, <1>2, ReceiveOutcome DEF Receive
<1>3. CASE Recover(d)
  BY <1>0, <1>3, RecoverOutcome DEF Recover, RecoverOwned, Outcome, storeVars
<1>4. CASE CheckDuplicate(d)
  BY <1>0, <1>4, CheckOutcome DEF CheckDuplicate, Outcome, storeVars
<1>5. CASE StorePdf(d)
  BY <1>0, <1>5, StoreOutcome DEF StorePdf, PutObject, Outcome
<1>6. CASE CreateRow(d)
  BY <1>0, <1>6, CreateOutcome DEF Outcome, NewRow, QueuedRow, Exists
<1>7. CASE Discard(d)
  <2>1. PICK failed \in BOOLEAN :
          /\ object' = IF failed THEN object ELSE [object EXCEPT ![d] = None]
          /\ Become(d, [upload[d] EXCEPT
                !.pc = IF upload[d].after = None THEN "load" ELSE "done",
                !.answer = upload[d].after, !.kept = failed])
    BY <1>7 DEF Discard, DeleteObject, DiscardedKey
  <2>2. upload'[d].kept = failed
    BY <1>0, <2>1 DEF Become, UploadState
  <2>3. upload'[d].pc \in {"load", "done"}
    BY <1>0, <1>7, DiscardOutcome DEF Outcome
  <2> QED
    BY <1>0, <2>1, <2>2, <2>3
<1>8. CASE Load(d) \/ PublishTask(d) \/ ApiLost(d)
  <2>1. upload'[d].kept = upload[d].kept
    BY <1>0, <1>8 DEF Load, PublishTask, ApiLost, Proceed, Respond, Become, UploadState
  <2>2. UNCHANGED object
    BY <1>8 DEF Load, PublishTask, ApiLost, storeVars
  <2>3. CASE ApiLost(d)
    BY <2>3, <1>0, LostOutcome DEF Outcome
  <2>4. CASE Load(d) \/ PublishTask(d)
    <3>1. upload[d].pc \in {"load", "publish"} /\ upload'[d].pc \in {"publish", "done"}
      BY <2>4, <1>0, LoadOutcome, PublishOutcome DEF Load, PublishTask, Outcome
    <3> QED
      BY <1>0, <2>1, <2>2, <3>1
  <2> QED
    BY <1>8, <2>3, <2>4
<1> QED
  BY <1>1, <1>2, <1>3, <1>4, <1>5, <1>6, <1>7, <1>8, UploadActor

(***************************************************************************)
(* NoOrphanWithoutFault: losing a UUID race or a failed commit alone never *)
(* leaves a PDF without a row behind; a fault of the store or of the       *)
(* process is needed.                                                      *)
(***************************************************************************)
THEOREM NoOrphanWithoutFault == Spec => []OrphanOnlyAfterFault
<1>1. Fits /\ Grounded /\ OrphansExcused /\ [Next]_vars => OrphansExcused'
  BY NextOrphansExcused
<1>2. OrphansExcused => OrphanOnlyAfterFault
  BY DEF OrphansExcused, OrphanOnlyAfterFault, Excused, In
<1> QED
  BY <1>1, <1>2, InitOrphansExcused, GroundedInvariant, PTL DEF Spec

-----------------------------------------------------------------------------
(***************************************************************************)
(* NeverAbandoned for every value of the constants: no interleaving of     *)
(* uploads, retries, duplicate deliveries and losses leaves an unfinished  *)
(* document without anyone who will act on it, unless a hand-over failed.  *)
(*                                                                         *)
(* NeverAbandoned is not inductive: a request about to load a document     *)
(* counts as its carrier, yet answers without publishing when it finds the *)
(* document processing.  What is inductive is that a document without a    *)
(* message or a worker still has the row its upload inserted, untouched,   *)
(* while the request that inserted it is about to publish it (Waiting).    *)
(***************************************************************************)
InBroker(d) == Queued(d) \/ TaskCarries(d)

Waiting(d) ==
    /\ row[d].status = "queued"
    /\ RequestCarries(d)
    /\ \A w \in Worker : worker[w].doc # d

IdleEmpty == \A w \in Worker : At(w, "idle") => worker[w].doc = None

Attended == \A d \in Document : Active(d) => InBroker(d) \/ Waiting(d) \/ d \in dropped

Carriage == IdleEmpty /\ Attended

LEMMA InitCarriage == Init => Carriage
BY DEF Init, StoreInit, WorkerInit, NoRow, IdleWorker, Carriage, IdleEmpty, Attended,
       Active

-----------------------------------------------------------------------------
(***************************************************************************)
(* Messages only leave the queue in a delivery.                            *)
(***************************************************************************)
LEMMA EnqueueKeeps ==
    ASSUME queue \in [Document \X Attempt -> Nat], NEW d \in Document, NEW r \in Attempt,
           Enqueue(d, r)
    PROVE  Queued(d)' /\ \A e \in Document : Queued(e) => Queued(e)'
<1>1. \A m \in Document \X Attempt : queue[m] \in Nat
  OBVIOUS
<1>2. \A e \in Document, k \in Attempt :
        queue'[<<e, k>>] = IF e = d /\ k = r THEN queue[<<d, r>>] + 1 ELSE queue[<<e, k>>]
  BY DEF Enqueue
<1>3. queue'[<<d, r>>] > 0
  BY <1>1, <1>2
<1>4. \A e \in Document, k \in Attempt : queue[<<e, k>>] > 0 => queue'[<<e, k>>] > 0
  BY <1>1, <1>2
<1>5. QED
  BY <1>3, <1>4 DEF Queued

LEMMA PublishKeeps ==
    ASSUME queue \in [Document \X Attempt -> Nat], NEW d \in Document, NEW r \in Attempt
    PROVE  /\ Publish(d, r) => Queued(d)'
           /\ Publish(d, r) => \A e \in Document : e \in dropped => e \in dropped' \/ Queued(e)'
           /\ Publish(d, r) \/ PublishUnconfirmed(d, r)
              => \A e \in Document : Queued(e) => Queued(e)'
<1>1. ASSUME Publish(d, r)
      PROVE  /\ Queued(d)' /\ \A e \in Document : Queued(e) => Queued(e)'
             /\ \A e \in Document : e \in dropped => e \in dropped' \/ Queued(e)'
  BY <1>1, EnqueueKeeps DEF Publish
<1>2. ASSUME PublishUnconfirmed(d, r)
      PROVE  \A e \in Document : Queued(e) => Queued(e)'
  BY <1>2, EnqueueKeeps DEF PublishUnconfirmed, Queued
<1>3. QED
  BY <1>1, <1>2

(***************************************************************************)
(* A task holds on to its message until the row is finished, a new message *)
(* is out, or the hand-over has failed.                                    *)
(***************************************************************************)
LEMMA SettledMeans ==
    ASSUME Fits, NEW w \in Worker, TaskStep(w), Settle(w), NEW d, d = worker[w].doc
    PROVE  row'[d].status \in Terminal \/ d \in dropped' \/ Queued(d)'
<1> USE DEF At, RowOf, SetRow
<1>1. /\ worker[w] \in WorkerState /\ FitTask(worker[w]) /\ row \in [Document -> Row]
      /\ worker \in [Worker -> WorkerState] /\ queue \in [Document \X Attempt -> Nat]
  BY DEF Fits, TypeOK, WorkerFits
<1>2. worker[w].pc # "idle" => worker[w].doc \in Document
  BY <1>1 DEF FitTask
<1>3. worker'[w].pc = "ack"
  BY <1>1, TaskTurns DEF Turn
<1>4. CASE Start(w)
  <2>1. ~ Raise(w) /\ ~ Goto(w, "compute")
    <3>1. \A pc : Goto(w, pc) => worker'[w].pc = pc
      BY <1>1, TaskTurns DEF Turn
    <3>2. Raise(w) => worker'[w].pc = "retry"
      BY <1>1, TaskTurns DEF Turn
    <3>3. QED
      BY <1>3, <3>1, <3>2
  <2>2. row' = [row EXCEPT ![worker[w].doc] = StartIngestion(row[worker[w].doc])]
        /\ row[worker[w].doc].status \in Terminal
    BY <1>4, <2>1 DEF Start
  <2>3. QED
    BY <1>1, <1>2, <1>4, <2>2 DEF Start, StartIngestion
<1>5. CASE Compute(w)
  BY <1>1, <1>3, <1>5, TaskTurns DEF Compute, GetObject, Turn
<1>6. CASE Persist(w)
  <2>1. ~ Raise(w)
    BY <1>1, <1>3, TaskTurns DEF Turn
  <2>2. row' = [row EXCEPT ![worker[w].doc] = PersistArtifacts(row[worker[w].doc], worker[w].bytes)]
    BY <1>6, <2>1 DEF Persist
  <2>3. row'[d] = PersistArtifacts(row[d], worker[w].bytes) /\ row[d] \in Row
    BY <1>1, <1>2, <1>6, <2>2 DEF Persist
  <2>4. QED
    BY <2>3 DEF PersistArtifacts, Row, Terminal
<1>7. CASE RecordFailure(w)
  <2>1. ~ Raise(w)
    BY <1>1, <1>3, TaskTurns DEF Turn
  <2>2. QED
    BY <1>1, <1>2, <1>7, <2>1 DEF RecordFailure, MarkFailed, Row, Terminal
<1>8. CASE PrepareRetry(w)
  <2>1. ~ Goto(w, "republish")
    <3>1. \A pc : Goto(w, pc) => worker'[w].pc = pc
      BY <1>1, TaskTurns DEF Turn
    <3>2. QED
      BY <1>3, <3>1
  <2>2. /\ row' = [row EXCEPT ![worker[w].doc] = MarkQueuedForRetry(row[worker[w].doc])]
        /\ MarkQueuedForRetry(row[worker[w].doc]).status \in Terminal
    BY <1>8, <2>1 DEF PrepareRetry, QueueForRetry, CancelsRetry
  <2>3. QED
    BY <1>1, <1>2, <1>8, <2>2 DEF PrepareRetry, QueueForRetry
<1>9. CASE Republish(w)
  <2>1. worker[w].doc \in Document /\ worker[w].retries + 1 \in Attempt
    BY <1>1, <1>2, <1>9, RetriesAssumption DEF Republish, FitTask, WorkerState, Attempt
  <2>2. QED
    BY <1>1, <1>9, <2>1, PublishKeeps DEF Republish, Drop
<1>10. CASE Finalize(w)
  <2>1. worker[w].doc \in Document /\ row[d] \in Row
    BY <1>1, <1>2, <1>10 DEF Finalize
  <2>2. CASE row' = [row EXCEPT ![worker[w].doc] = ExhaustRetries(row[worker[w].doc])]
    <3>1. row'[d] = MarkFailed(row[d], "exhausted")
      BY <1>1, <2>1, <2>2 DEF ExhaustRetries
    <3>2. QED
      BY <2>1, <3>1 DEF MarkFailed, Row, Terminal
  <2>3. CASE Drop(worker[w].doc)
    BY <2>3 DEF Drop
  <2>4. QED
    BY <1>10, <2>2, <2>3 DEF Finalize
<1>11. CASE Ack(w)
  BY <1>1, <1>3, <1>11, TaskTurns DEF Ack, Turn
<1>12. QED
  BY <1>4, <1>5, <1>6, <1>7, <1>8, <1>9, <1>10, <1>11 DEF TaskStep

LEMMA TaskOutcome ==
    ASSUME Fits, NEW w \in Worker, TaskStep(w), NEW d, d = worker[w].doc
    PROVE  /\ \A v \in Worker \ {w} : worker'[v] = worker[v]
           /\ d \in Document
           /\ \/ /\ worker'[w].pc \notin {"ack", "idle"}
                 /\ worker'[w].doc = d /\ worker'[w].held = worker[w].held
              \/ /\ worker'[w].pc = "ack" /\ worker'[w].doc = d
                 /\ row'[d].status \in Terminal \/ d \in dropped' \/ Queued(d)'
              \/ worker[w].pc = "ack" /\ worker'[w].pc = "idle" /\ worker'[w].doc = None
<1> DEFINE s == worker[w]
<1>0. worker \in [Worker -> WorkerState]
  BY DEF Fits, TypeOK
<1>1. worker[w].doc \in Document
  BY DEF Fits, WorkerFits, FitTask, TaskStep, Start, Compute, GetObject, Persist, RecordFailure,
     PrepareRetry, QueueForRetry, Republish, Finalize, Ack, At
<1>2. \/ Goto(w, "compute") \/ Goto(w, "republish") \/ Raise(w)
      \/ Hold(w, [s EXCEPT !.pc = "persist", !.bytes = object[s.doc]])
      \/ Hold(w, [s EXCEPT !.pc = "fail", !.cause = "content"])
      \/ Hold(w, [s EXCEPT !.pc = "fail", !.cause = "size"])
      \/ Settle(w)
      \/ At(w, "ack") /\ Hold(w, IdleWorker)
  BY DEF TaskStep, Start, Compute, GetObject, Persist, RecordFailure, PrepareRetry,
      QueueForRetry, Republish,
     Finalize, Ack
<1>3. \/ Turn(w, "compute", s.doc, s.held, s.bytes)
      \/ Turn(w, "republish", s.doc, s.held, s.bytes)
      \/ Turn(w, "retry", s.doc, s.held, None)
      \/ Turn(w, "persist", s.doc, s.held, object[s.doc])
      \/ Turn(w, "fail", s.doc, s.held, s.bytes)
      \/ Settle(w) /\ Turn(w, "ack", s.doc, s.held, None)
      \/ At(w, "ack") /\ Turn(w, "idle", None, FALSE, None)
  BY <1>0, <1>2, TaskTurns
<1>4. QED
  BY <1>1, <1>3, SettledMeans DEF Turn, At

(***************************************************************************)
(* No step of a task takes a message, or clears `dropped` without one.     *)
(***************************************************************************)
LEMMA TaskKeepsQueue ==
    ASSUME Fits, NEW w \in Worker, TaskStep(w), NEW d \in Document
    PROVE  /\ Queued(d) => Queued(d)'
           /\ d \in dropped => d \in dropped' \/ Queued(d)'
<1>1. CASE Republish(w)
  <2>1. worker[w].doc \in Document /\ worker[w].retries + 1 \in Attempt
        /\ queue \in [Document \X Attempt -> Nat]
    BY <1>1, RetriesAssumption
    DEF Republish, At, Fits, TypeOK, WorkerFits, FitTask, WorkerState, Attempt
  <2>2. QED
    BY <1>1, <2>1, PublishKeeps DEF Republish, Drop
<1>2. CASE ~ Republish(w)
  BY <1>2 DEF TaskStep, Start, Compute, GetObject, Persist, RecordFailure, PrepareRetry,
      QueueForRetry, Finalize, Ack,
     Drop, queueVars, Queued
<1>3. QED
  BY <1>1, <1>2

LEMMA RequestKeepsQueue ==
    ASSUME Fits, NEW u \in Document, RequestStep(u), NEW d \in Document
    PROVE  /\ Queued(d) => Queued(d)'
           /\ d \in dropped => d \in dropped' \/ Queued(d)'
<1>1. CASE PublishTask(u)
  <2>1. Target(u) \in Document /\ 0 \in Attempt /\ queue \in [Document \X Attempt -> Nat]
    BY <1>1, RetriesAssumption
    DEF PublishTask, In, Target, Fits, TypeOK, UploadFits, FitRequest, Attempt
  <2>2. QED
    BY <1>1, <2>1, PublishKeeps DEF PublishTask, Forgo, Drop
<1>2. CASE CreateRow(u) \/ Load(u)
  BY <1>2 DEF CreateRow, Load, Forgo, Drop, Queued
<1>3. CASE Recover(u) \/ CheckDuplicate(u) \/ StorePdf(u) \/ Discard(u)
  BY <1>3 DEF Recover, RecoverOwned, CheckDuplicate, StorePdf, PutObject, Discard,
      DeleteObject, queueVars, Queued
<1>4. QED
  BY <1>1, <1>2, <1>3 DEF RequestStep

(***************************************************************************)
(* Every step but a delivery keeps the messages.                           *)
(***************************************************************************)
LEMMA QueueKept ==
    ASSUME Fits, [Next]_vars, NEW d \in Document,
           ~ \E w \in Worker, e \in Document, r \in Attempt : Deliver(w, e, r)
    PROVE  /\ Queued(d) => Queued(d)'
           /\ d \in dropped => d \in dropped' \/ Queued(d)'
<1>1. CASE UNCHANGED queueVars
  BY <1>1 DEF queueVars, Queued
<1>2. ASSUME NEW w \in Worker, WorkerLost(w) \/ ConnectionLost(w)
      PROVE  /\ Queued(d) => Queued(d)'
             /\ d \in dropped => d \in dropped' \/ Queued(d)'
  <2>1. /\ worker[w].doc \in Document /\ worker[w].retries \in Attempt
        /\ queue \in [Document \X Attempt -> Nat]
    BY <1>2 DEF WorkerLost, ConnectionLost, At, Fits, TypeOK, WorkerFits, FitTask, WorkerState
  <2>2. UNCHANGED queue \/ Enqueue(worker[w].doc, worker[w].retries)
    BY <1>2 DEF WorkerLost, ConnectionLost
  <2>3. Queued(d) => Queued(d)'
    BY <2>1, <2>2, EnqueueKeeps DEF Queued
  <2>4. QED
    BY <1>2, <2>3 DEF WorkerLost, ConnectionLost
<1>3. ASSUME NEW u \in Document, ApiLost(u)
      PROVE  /\ Queued(d) => Queued(d)'
             /\ d \in dropped => d \in dropped' \/ Queued(d)'
  BY <1>3 DEF ApiLost, Forgo, Drop, Queued
<1>4. ASSUME NEW u \in Document, NEW s \in Submission, Receive(u, s)
      PROVE  UNCHANGED queueVars
  BY <1>4 DEF Receive
<1>5. QED
  BY <1>1, <1>2, <1>3, <1>4, RequestKeepsQueue, TaskKeepsQueue
  DEF Next, Requests, Deliveries, Tasks, Disruptions, vars

(***************************************************************************)
(* A delivered message is held by the worker that got it.                  *)
(***************************************************************************)
LEMMA DeliverKeeps ==
    ASSUME Fits, IdleEmpty, NEW w \in Worker, NEW e \in Document, NEW r \in Attempt,
           Deliver(w, e, r), NEW d \in Document
    PROVE  InBroker(d) => InBroker(d)'
<1>0. worker \in [Worker -> WorkerState] /\ queue \in [Document \X Attempt -> Nat]
  BY DEF Fits, TypeOK
<1>1. Turn(w, "start", e, TRUE, None)
  BY <1>0, TaskTurns DEF Deliver
<1>2. CASE d = e
  BY <1>1, <1>2 DEF Turn, InBroker, TaskCarries, At
<1>3. CASE d # e
  <2>1. Queued(d) => Queued(d)'
    BY <1>0, <1>3 DEF Deliver, Dequeue, Queued
  <2>2. worker[w].doc # d
    BY StoreAssumption DEF Deliver, IdleEmpty
  <2>3. TaskCarries(d) => TaskCarries(d)'
    BY <1>1, <2>2 DEF Turn, TaskCarries, At
  <2>4. QED
    BY <2>1, <2>3 DEF InBroker
<1>4. QED
  BY <1>2, <1>3

(***************************************************************************)
(* A message being worked on stays so until its document is finished, is   *)
(* queued again, or has lost a hand-over.                                  *)
(***************************************************************************)
LEMMA TaskKeepsCarrier ==
    ASSUME Fits, NEW w \in Worker, TaskStep(w), NEW d \in Document, TaskCarries(d)
    PROVE  TaskCarries(d)' \/ row'[d].status \in Terminal \/ d \in dropped' \/ Queued(d)'
<1>1. PICK v \in Worker : worker[v].doc = d /\ worker[v].held /\ worker[v].pc # "ack"
  BY DEF TaskCarries, At
<1>2. CASE v # w
  BY <1>1, <1>2, TaskOutcome DEF TaskCarries, At
<1>3. CASE v = w
  BY <1>1, <1>3, TaskOutcome DEF TaskCarries, At
<1>4. QED
  BY <1>2, <1>3

LEMMA LossKeepsCarrier ==
    ASSUME Fits, NEW w \in Worker, WorkerLost(w) \/ ConnectionLost(w), NEW d \in Document,
           TaskCarries(d)
    PROVE  TaskCarries(d)' \/ Queued(d)'
<1>0. /\ worker \in [Worker -> WorkerState] /\ queue \in [Document \X Attempt -> Nat]
      /\ worker[w].retries \in Attempt
  BY DEF Fits, TypeOK, WorkerState
<1>1. PICK v \in Worker : worker[v].doc = d /\ worker[v].held /\ worker[v].pc # "ack"
  BY DEF TaskCarries, At
<1>2. CASE v # w
  <2>1. worker'[v] = worker[v]
    BY <1>0, <1>2 DEF WorkerLost, ConnectionLost, Hold
  <2>2. QED
    BY <1>1, <2>1 DEF TaskCarries, At
<1>3. CASE v = w
  <2>1. Enqueue(d, worker[w].retries)
    BY <1>1, <1>3 DEF WorkerLost, ConnectionLost
  <2>2. QED
    BY <1>0, <2>1, EnqueueKeeps
<1>4. QED
  BY <1>2, <1>3

LEMMA BrokerStays ==
    ASSUME Fits, IdleEmpty, [Next]_vars, NEW d \in Document, InBroker(d)
    PROVE  InBroker(d)' \/ d \in dropped' \/ ~ Active(d)'
<1>1. CASE \E w \in Worker, e \in Document, r \in Attempt : Deliver(w, e, r)
  BY <1>1, DeliverKeeps
<1>2. CASE ~ \E w \in Worker, e \in Document, r \in Attempt : Deliver(w, e, r)
  <2>1. CASE Queued(d)
    BY <1>2, <2>1, QueueKept DEF InBroker
  <2>2. CASE TaskCarries(d)
    <3>1. CASE UNCHANGED worker
      BY <2>2, <3>1 DEF InBroker, TaskCarries, At
    <3>2. CASE \E w \in Worker : TaskStep(w)
      BY <2>2, <3>2, TaskKeepsCarrier DEF InBroker, Active, Terminal
    <3>3. CASE \E w \in Worker : WorkerLost(w) \/ ConnectionLost(w)
      BY <2>2, <3>3, LossKeepsCarrier DEF InBroker
    <3>4. QED
      BY <1>2, <3>1, <3>2, <3>3 DEF Next, Requests, Deliveries, Tasks, Disruptions, vars
  <2>3. QED
    BY <2>1, <2>2 DEF InBroker
<1>3. QED
  BY <1>1, <1>2

-----------------------------------------------------------------------------
(***************************************************************************)
(* A request about to publish a queued document publishes it, or fails to. *)
(***************************************************************************)
LEMMA CarrierMoves ==
    ASSUME Fits, [Next]_vars, NEW d \in Document, RequestCarries(d), row[d].status = "queued"
    PROVE  RequestCarries(d)' \/ Queued(d)' \/ d \in dropped'
<1> USE DEF In, Target, RequestCarries
<1>0. upload \in [Document -> UploadState] /\ queue \in [Document \X Attempt -> Nat]
      /\ 0 \in Attempt
  BY RetriesAssumption DEF Fits, TypeOK, Attempt
<1>1. Forgo(d) => d \in dropped'
  BY DEF Forgo, Drop
<1>2. CASE upload'[d] = upload[d]
  BY <1>2
<1>3. CASE Load(d)
  BY <1>0, <1>1, <1>3, LoadOutcome DEF Outcome
<1>4. CASE PublishTask(d)
  BY <1>0, <1>1, <1>4, PublishKeeps DEF PublishTask
<1>5. CASE ApiLost(d)
  BY <1>1, <1>5 DEF ApiLost
<1>6. QED
  BY <1>2, <1>3, <1>4, <1>5, UploadActor
  DEF Receive, Recover, RecoverOwned, CheckDuplicate, StorePdf, PutObject, CreateRow,
      Discard, DeleteObject

(***************************************************************************)
(* A worker takes up a waiting document only from a message.               *)
(***************************************************************************)
LEMMA WaitingStays ==
    ASSUME Fits, Grounded, IdleEmpty, IdleEmpty', [Next]_vars, NEW d \in Document,
           Waiting(d), ~ InBroker(d)
    PROVE  InBroker(d)' \/ Waiting(d)' \/ d \in dropped'
<1>1. Exists(d) /\ row[d].status = "queued"
  BY DEF Waiting, Exists
<1>2. \A w \in Worker : worker'[w].doc # d
  <2> SUFFICES ASSUME NEW w \in Worker, worker'[w].doc = d PROVE FALSE
    OBVIOUS
  <2>1. worker'[w].pc # "idle"
    BY StoreAssumption DEF IdleEmpty, At
  <2>2. QED
    BY <2>1, WorkerMoves DEF Waiting, InBroker, Queued
<1>3. row'[d] = row[d]
  <2>1. ~ Created(d)
    BY <1>1 DEF Created, Grounded, Fresh, Early, In
  <2>2. CASE \E w \in Worker : TaskStep(w)
    <3>1. PICK w \in Worker : TaskStep(w)
      BY <2>2
    <3>2. worker[w].doc # d /\ worker[w].doc \in Document
      BY <3>1, TaskOutcome DEF Waiting
    <3>3. QED
      BY <3>1, <3>2 DEF Fits, TypeOK, TaskStep, Start, Compute, GetObject, Persist,
          RecordFailure,
         PrepareRetry, QueueForRetry, Republish, Finalize, Ack, SetRow, MayCommit, storeVars
  <2>3. CASE ~ \E w \in Worker : TaskStep(w)
    <3>1. CASE \E u \in Document : RequestStep(u)
      BY <2>1, <3>1, RequestStepRows
    <3>2. CASE ~ \E u \in Document : RequestStep(u)
      BY <2>3, <3>2 DEF Next, Requests, Receive, Deliveries, Deliver, Tasks, Disruptions,
         ApiLost, WorkerLost, ConnectionLost, vars, storeVars
    <3>3. QED
      BY <3>1, <3>2
  <2>4. QED
    BY <2>2, <2>3
<1>4. RequestCarries(d)' \/ Queued(d)' \/ d \in dropped'
  BY <1>1, CarrierMoves DEF Waiting
<1>5. QED
  BY <1>1, <1>2, <1>3, <1>4 DEF Waiting, InBroker

(***************************************************************************)
(* A document becomes unfinished only when its upload inserts the row.     *)
(***************************************************************************)
LEMMA Activation ==
    ASSUME Fits, Grounded, IdleEmpty, [Next]_vars, NEW d \in Document,
           ~ Active(d), Active(d)'
    PROVE  Waiting(d)' \/ d \in dropped'
<1>0. /\ upload \in [Document -> UploadState] /\ row \in [Document -> Row]
      /\ None \notin Document
  BY StoreAssumption DEF Fits, TypeOK
<1>1. Created(d)
  <2>1. Exists(d) => row[d].status \in Terminal
    BY <1>0 DEF Active, Exists, Row, Status, Terminal
  <2>2. row'[d] # row[d] /\ row'[d].status \notin Terminal
    BY DEF Active, Terminal
  <2>3. ~ Transacted(d)
    BY <1>0, <2>1, <2>2 DEF Transacted, StartIngestion, MarkQueuedForRetry, MarkFailed,
       PersistArtifacts, Terminal, Row
  <2>4. QED
    BY <2>2, <2>3, RowMoves
<1>2. ~ Exists(d) /\ upload[d].pc = "create" /\ upload'[d] # upload[d]
  BY <1>1 DEF Created, Grounded, Fresh, Early, In
<1>3. \A w \in Worker : worker[w].doc # d
  BY <1>0, <1>2 DEF Grounded, WorkersGrounded, IdleEmpty
<1>4. CASE CreateRow(d)
  <2>1. UNCHANGED worker
    BY <1>2 DEF Next, Requests, Deliveries, Tasks, Disruptions, vars
  <2>2. row'[d] # row[d]
    BY <1>2, <1>1 DEF Created, NewRow, QueuedRow, Exists
  <2>3. \/ d \in dropped'
        \/ Outcome(d, "load", d, upload[d].answer, upload[d].after)
    BY <1>0, <1>4, <2>2, CreateOutcome
  <2>4. row'[d].status = "queued"
    BY <1>1 DEF Created, NewRow, QueuedRow
  <2>5. QED
    BY <1>3, <2>1, <2>3, <2>4 DEF Outcome, Waiting, RequestCarries, In, Target
<1>5. CASE ~ CreateRow(d)
  <2>1. ApiLost(d)
    BY <1>2, <1>5, UploadActor DEF Receive, Recover, RecoverOwned, CheckDuplicate, StorePdf,
        PutObject, Discard, DeleteObject,
       Load, PublishTask, In
  <2>2. QED
    BY <1>1, <1>2, <2>1 DEF ApiLost, Created, NewRow, QueuedRow, Exists, storeVars
<1>6. QED
  BY <1>4, <1>5

LEMMA NextIdleEmpty ==
    ASSUME Fits, IdleEmpty, [Next]_vars
    PROVE  IdleEmpty'
<1> USE DEF At
<1>0. worker \in [Worker -> WorkerState]
  BY DEF Fits, TypeOK
<1> SUFFICES ASSUME NEW w \in Worker, worker'[w].pc = "idle" PROVE worker'[w].doc = None
  BY DEF IdleEmpty
<1>1. CASE UNCHANGED worker
  BY <1>1 DEF IdleEmpty
<1>2. ASSUME NEW v \in Worker, TaskStep(v) PROVE worker'[w].doc = None
  BY <1>2, TaskOutcome DEF IdleEmpty
<1>3. ASSUME NEW v \in Worker, NEW d \in Document, NEW r \in Attempt, Deliver(v, d, r)
      PROVE  worker'[w].doc = None
  <2>1. Turn(v, "start", d, TRUE, None)
    BY <1>0, <1>3, TaskTurns DEF Deliver
  <2>2. QED
    BY <2>1 DEF Turn, IdleEmpty
<1>4. ASSUME NEW v \in Worker, WorkerLost(v) \/ ConnectionLost(v)
      PROVE  worker'[w].doc = None
  <2>1. \/ Turn(v, "idle", None, FALSE, None)
        \/ Turn(v, worker[v].pc, worker[v].doc, FALSE, worker[v].bytes)
    BY <1>0, <1>4, TaskTurns DEF WorkerLost, ConnectionLost
  <2>2. QED
    BY <1>4, <2>1 DEF Turn, IdleEmpty
<1>5. QED
  BY <1>1, <1>2, <1>3, <1>4 DEF Next, Requests, Deliveries, Tasks, Disruptions, vars

LEMMA NextAttended ==
    ASSUME Fits, Grounded, Carriage, [Next]_vars
    PROVE  Attended'
<1> SUFFICES ASSUME NEW d \in Document, Active(d)', d \notin dropped'
             PROVE  InBroker(d)' \/ Waiting(d)'
  BY DEF Attended
<1>1. IdleEmpty /\ IdleEmpty'
  BY NextIdleEmpty DEF Carriage
<1>2. CASE ~ Active(d)
  BY <1>1, <1>2, Activation
<1>3. CASE InBroker(d)
  BY <1>1, <1>3, BrokerStays
<1>4. CASE ~ InBroker(d) /\ Waiting(d)
  BY <1>1, <1>4, WaitingStays
<1>5. CASE ~ InBroker(d) /\ d \in dropped
  BY <1>5, QueueKept DEF InBroker, Deliver
<1>6. QED
  BY <1>2, <1>3, <1>4, <1>5 DEF Carriage, Attended

(***************************************************************************)
(* NobodyForgotten: with any number of uploads, workers, retries, duplicate*)
(* deliveries, lost processes and lost connections, an unfinished document *)
(* has a message, a worker or a request that will act on it, unless a      *)
(* hand-over to the broker or the final state write failed.                *)
(***************************************************************************)
THEOREM NobodyForgotten == Spec => []NeverAbandoned
<1>1. Fits /\ Grounded /\ Carriage /\ [Next]_vars => Carriage'
  BY NextIdleEmpty, NextAttended DEF Carriage
<1>2. Carriage => NeverAbandoned
  BY DEF Carriage, Attended, NeverAbandoned, InBroker, Waiting, Carried
<1>3. QED
  BY <1>1, <1>2, InitCarriage, GroundedInvariant, PTL DEF Spec
=============================================================================
