--------------------------- MODULE DocumentUpload ---------------------------
(***************************************************************************)
(* POST /documents in the API process: create_document_upload.             *)
(*                                                                         *)
(* An upload is one HTTP request.  Each draws at most one uuid4 document   *)
(* id, which no other request ever draws, so the request is named by it:   *)
(* upload[d] is the request that creates document d if any does.  Database *)
(* transactions, object-store calls and the publication are separate       *)
(* steps; requests of one user, and of one upload_request_id, interleave.  *)
(***************************************************************************)
EXTENDS IngestionQueue

CONSTANT Submission    \* the requests clients may send

SubmissionType == [user: User, content: Content,
                   requestId: RequestId \cup {None}, allowDuplicate: BOOLEAN]

ASSUME SubmissionAssumption == Submission \subseteq SubmissionType

VARIABLE upload    \* upload[d]: the frame of the request that may create d

UploadPc == {"new", "recover", "check", "put", "create", "discard", "load",
             "publish", "done"}

(***************************************************************************)
(* accepted: 202 or 200; conflict: 409, same UUID with other bytes;        *)
(* duplicate: 409 duplicate_document; unavailable: 503; lost: the process  *)
(* ended before it answered.                                               *)
(***************************************************************************)
Answer == {"accepted", "conflict", "duplicate", "unavailable", "lost"}

ASSUME AnswerAssumption == None \notin Answer

NoSubmission == [user |-> None, content |-> None, requestId |-> None,
                 allowDuplicate |-> FALSE]

(***************************************************************************)
(* `target` is the document the request is about once it has one, `after`  *)
(* the answer that waits behind the compensating delete (None: go on).     *)
(* `kept` is history: that delete failed.                                  *)
(***************************************************************************)
UploadState == [pc: UploadPc, form: SubmissionType \cup {NoSubmission},
                target: Document \cup {None}, answer: Answer \cup {None},
                after: Answer \cup {None}, kept: BOOLEAN]

NewUpload == [pc |-> "new", form |-> NoSubmission, target |-> None,
              answer |-> None, after |-> None, kept |-> FALSE]

UploadInit == upload = [d \in Document |-> NewUpload]

In(d, pc) == upload[d].pc = pc
Form(d) == upload[d].form
Target(d) == upload[d].target
Become(d, state) == upload' = [upload EXCEPT ![d] = state]
Proceed(d, pc) == Become(d, [upload[d] EXCEPT !.pc = pc])
Respond(d, answer) ==
    Become(d, [upload[d] EXCEPT !.pc = "done", !.answer = answer])

(***************************************************************************)
(* The request gives up on publishing its document.  Only the one that     *)
(* created the row had to: one that recovered it takes nothing away.       *)
(***************************************************************************)
Forgo(d) == IF Target(d) = d THEN Drop(d) ELSE UNCHANGED dropped

Receive(d, s) ==
    /\ In(d, "new")
    /\ Become(d, [upload[d] EXCEPT !.form = s,
                    !.pc = IF s.requestId # None THEN "recover"
                              ELSE IF s.allowDuplicate THEN "put" ELSE "check"])
    /\ UNCHANGED <<storeVars, queueVars>>

(***************************************************************************)
(* recover_owned_upload_request: the document of the same bytes, and a     *)
(* conflict over other bytes.                                              *)
(***************************************************************************)
RecoverOwned(d, t) ==
    IF row[t].content = Form(d).content
    THEN Become(d, [upload[d] EXCEPT !.pc = "load", !.target = t])
    ELSE Respond(d, "conflict")

(***************************************************************************)
(* Idempotency comes before everything else.                               *)
(***************************************************************************)
Recover(d) ==
    /\ In(d, "recover")
    /\ LET matches == RequestMatches(Form(d).user, Form(d).requestId)
       IN  \/ /\ matches = {}
              /\ Proceed(d, IF Form(d).allowDuplicate THEN "put" ELSE "check")
           \/ \E t \in matches : RecoverOwned(d, t)
           \/ Respond(d, "unavailable")
    /\ UNCHANGED <<storeVars, queueVars>>

CheckDuplicate(d) ==
    /\ In(d, "check")
    /\ LET matches == PreferredDuplicates(Form(d).user, Form(d).content)
       IN  \/ matches = {} /\ Proceed(d, "put")
           \/ \E t \in matches :
                Become(d, [upload[d] EXCEPT !.pc = "done", !.target = t,
                                         !.answer = "duplicate"])
           \/ Respond(d, "unavailable")
    /\ UNCHANGED <<storeVars, queueVars>>

(***************************************************************************)
(* storage.put; the outcome of a PUT that raised is ambiguous.             *)
(***************************************************************************)
StorePdf(d) ==
    /\ In(d, "put")
    /\ \/ /\ PutObject(d, Form(d).content)
          /\ Proceed(d, "create")
       \/ /\ PutObject(d, Form(d).content) \/ UNCHANGED object
          /\ Respond(d, "unavailable")
    /\ UNCHANGED <<row, queueVars>>

DiscardThen(d, target, after) ==
    Become(d, [upload[d] EXCEPT !.pc = "discard", !.target = target,
                             !.after = after])

KeepLosingObject(d, target, after) ==
    Become(d, [upload[d] EXCEPT !.pc = IF after = None THEN "load" ELSE "done",
                             !.target = target, !.answer = after])

(***************************************************************************)
(* Another request holds the UUID: with the same bytes its document is     *)
(* recovered, with other bytes this request conflicts.                     *)
(***************************************************************************)
LoseRace(d, target, after) == DiscardThen(d, target, after)

(***************************************************************************)
(* The unique key (user_id, upload_request_id); NULL keys never collide.   *)
(***************************************************************************)
InsertDespiteCollision(d) == {}

Collisions(d) ==
    IF Form(d).requestId = None THEN {}
    ELSE RequestMatches(Form(d).user, Form(d).requestId)

NewRow(d) == QueuedRow(Form(d).user, Form(d).content, Form(d).requestId)

(***************************************************************************)
(* create_or_recover_queued_upload: insert the queued row, or recover the  *)
(* row that won the race for the UUID.  A commit that raised may have      *)
(* taken effect; the caller treats it as not having.                       *)
(***************************************************************************)
CreateRow(d) ==
    /\ In(d, "create")
    /\ \/ /\ Collisions(d) = {}
          /\ row' = [row EXCEPT ![d] = NewRow(d)]
          /\ Become(d, [upload[d] EXCEPT !.pc = "load", !.target = d])
          /\ UNCHANGED dropped
       \/ /\ Collisions(d) = {}
          /\ row' = [row EXCEPT ![d] = NewRow(d)]
          /\ Drop(d)
          /\ DiscardThen(d, None, "unavailable")
       \/ /\ \E t \in Collisions(d) :
                IF row[t].content = Form(d).content
                THEN LoseRace(d, t, None)
                ELSE LoseRace(d, None, "conflict")
          /\ UNCHANGED <<row, dropped>>
       \/ /\ DiscardThen(d, None, "unavailable")
          /\ UNCHANGED <<row, dropped>>
    /\ UNCHANGED <<object, queue>>

KeyOfTarget(d) == IF Target(d) = None THEN d ELSE Target(d)

(***************************************************************************)
(* The key deleted is the one this request generated, whoever won.         *)
(***************************************************************************)
DiscardedKey(d) == d

(***************************************************************************)
(* _delete_new_object_best_effort, then the pending answer.                *)
(***************************************************************************)
Discard(d) ==
    /\ In(d, "discard")
    /\ \E failed \in BOOLEAN :
         /\ IF failed THEN UNCHANGED object ELSE DeleteObject(DiscardedKey(d))
         /\ Become(d, [upload[d] EXCEPT
                !.pc = IF upload[d].after = None THEN "load" ELSE "done",
                !.answer = upload[d].after, !.kept = failed])
    /\ UNCHANGED <<row, queueVars>>

PublishOnlyIfCreated(d) == row[Target(d)].status = "queued" /\ Target(d) = d

ShouldPublish(d) == row[Target(d)].status = "queued"

(***************************************************************************)
(* _load_current_document: a locking read right before the publication     *)
(* decision, for created and recovered documents alike.                    *)
(***************************************************************************)
Load(d) ==
    /\ In(d, "load")
    /\ \/ /\ IF ShouldPublish(d) THEN Proceed(d, "publish")
             ELSE Respond(d, "accepted")
          /\ UNCHANGED dropped
       \/ /\ Respond(d, "unavailable")
          /\ Forgo(d)
    /\ UNCHANGED <<storeVars, queue>>

(***************************************************************************)
(* _publish_if_queued: the row lock is gone, so the document may have      *)
(* moved on since Load.  A publication error leaves the row as it is.      *)
(***************************************************************************)
PublishTask(d) ==
    /\ In(d, "publish")
    /\ \/ Publish(Target(d), 0) /\ Respond(d, "accepted")
       \/ /\ PublishUnconfirmed(Target(d), 0)
          /\ Forgo(d)
          /\ Respond(d, "unavailable")
    /\ UNCHANGED storeVars

(***************************************************************************)
(* The API process ends in mid-request.                                    *)
(***************************************************************************)
ApiLost(d) ==
    /\ ~ In(d, "new") /\ ~ In(d, "done")
    /\ Respond(d, "lost")
    /\ Forgo(d)
    /\ UNCHANGED <<storeVars, queue>>

RequestStep(d) ==
    \/ Recover(d) \/ CheckDuplicate(d) \/ StorePdf(d) \/ CreateRow(d)
    \/ Discard(d) \/ Load(d) \/ PublishTask(d)
=============================================================================
