------------------------ MODULE UploadWorkflowProofs -----------------------
(***************************************************************************)
(* Proofs about UploadWorkflow, for any number of files, UUIDs and picks.  *)
(***************************************************************************)
EXTENDS UploadWorkflow, TLAPS

Ui == [mode : {"upload", "url"}, selected : File \cup {None}, uploaded : Shown \cup {None},
       duplicate : Shown \cup {None}, pollingError : BOOLEAN, pending : Document \cup {None},
       answers : SUBSET (Document \cup {None}), submitting : BOOLEAN]

Answer == [kind : {"document", "duplicate", "error", "answers"}, shown : Shown \cup {None}]

Call == [kind : {"upload", "query", "url"}, id : Document \cup {None}, file : File \cup {None},
         allow : BOOLEAN, attempt : Nat, stale : BOOLEAN, answer : Answer \cup {None}]

StatusRequest == [document : Document, cancelled : BOOLEAN, answer : Shown \cup {None}]

WorkflowTypeOK ==
    /\ ui \in Ui
    /\ call \in Call \cup {None}
    /\ polls \subseteq StatusRequest
    /\ server \in [Document -> Stored \cup {None}]
    /\ attempt \in Nat
    /\ uuids \in 0..MaxUuid

(***************************************************************************)
(* What is known of a document was on the server, now or before.           *)
(***************************************************************************)
Known(shown) ==
    server[shown.document] # None /\ shown.revision <= server[shown.document].revision

Uploading == call # None /\ call.kind = "upload"
AnswerIs(kind) == call # None /\ call.answer # None /\ call.answer.kind = kind

KnownShown ==
    /\ ui.uploaded # None => Known(ui.uploaded)
    /\ ui.duplicate # None => Known(ui.duplicate)
    /\ AnswerIs("document") \/ AnswerIs("duplicate") =>
         call.answer.shown \in Shown /\ Known(call.answer.shown)

(***************************************************************************)
(* There is one status request that still counts, while the page polls: it *)
(* is about the document that is shown, and its answer is no older than    *)
(* what is shown.                                                          *)
(***************************************************************************)
PollOK(p) ==
    /\ server[p.document] # None
    /\ p.answer # None => p.answer.document = p.document /\ Known(p.answer)
    /\ ~ p.cancelled =>
         /\ Polling(ui) /\ p.document = ui.uploaded.document
         /\ p.answer # None => ui.uploaded.revision <= p.answer.revision

OnePoll(requests) == \A p, q \in requests : ~ p.cancelled /\ ~ q.cancelled => p = q

PollsOK == (\A p \in polls : PollOK(p)) /\ OnePoll(polls)

(***************************************************************************)
(* The UUID of an attempt is pending until the attempt ends, and whatever  *)
(* the attempt has stored has that UUID.                                   *)
(***************************************************************************)
OneUuidPerAttempt ==
    /\ RetriesStoreOnce
    /\ \A d \in Document : server[d] # None => /\ d <= uuids
                                               /\ server[d].attempt <= attempt
                                               /\ server[d].attempt = attempt => ui.pending = d
    /\ ui.pending # None => ui.pending <= uuids
    /\ Uploading =>
         /\ call.id # None /\ call.id <= uuids
         /\ call.attempt <= attempt
         /\ call.attempt = attempt => ui.pending = call.id
         /\ \A d \in Document :
              server[d] # None /\ server[d].attempt = call.attempt => d = call.id

(***************************************************************************)
(* While an upload is under way or a duplicate is to be decided about, no  *)
(* answers about a document are on the page.                               *)
(***************************************************************************)
AnswersInPlace ==
    /\ DocumentAnswersOwn
    /\ call # None => ui.submitting
    /\ call # None /\ call.kind = "query" =>
         /\ ui.duplicate = None
         /\ ~ call.stale => ui.uploaded # None /\ ui.uploaded.document = call.id
    /\ ui.duplicate # None \/ Uploading => ui.answers \subseteq {None}
    /\ AnswerIs("document") \/ AnswerIs("duplicate") => call.kind = "upload"
    /\ AnswerIs("answers") => call.kind # "upload"

(***************************************************************************)
(* What may replace the document shown is another one, as an upload has a  *)
(* UUID of its own, or a newer state of the same: a duplicate was read     *)
(* after the document beside it had failed.                                *)
(***************************************************************************)
NoOlder(shown) ==
    ui.uploaded # None /\ shown.document = ui.uploaded.document
      => ui.uploaded.revision <= shown.revision

ReplacedByNewer ==
    /\ ui.uploaded # None => ui.pending # ui.uploaded.document
    /\ Uploading /\ ~ call.stale => ui.pending = call.id
    /\ AnswerIs("document") => call.answer.shown.document = call.id
    /\ (ui.duplicate # None \/ Uploading) /\ ui.uploaded # None => ui.uploaded.status = "failed"
    /\ ui.duplicate # None => NoOlder(ui.duplicate)
    /\ AnswerIs("duplicate") => NoOlder(call.answer.shown)

WInv == /\ WorkflowTypeOK /\ KnownShown /\ PollsOK
        /\ OneUuidPerAttempt /\ AnswersInPlace /\ ReplacedByNewer

LEMMA InitInv == Init => WInv
BY WorkflowAssumption
   DEF Init, InitUi, WInv, WorkflowTypeOK, Ui, KnownShown, PollsOK, OnePoll,
       OneUuidPerAttempt, RetriesStoreOnce, AnswersInPlace, DocumentAnswersOwn, ReplacedByNewer, NoOlder, AnswerIs,
       Uploading

(***************************************************************************)
(* The effect that polls, for whatever the page shows next.                *)
(***************************************************************************)
LEMMA ShowKeeps ==
    ASSUME WInv, NEW u \in Ui, NEW requests \in SUBSET StatusRequest,
           \A p \in requests : PollOK(p), OnePoll(requests),
           \/ u.uploaded = ui.uploaded
           \/ u.uploaded = None
           \/ \A p \in requests : p.cancelled,
           Show(u, requests), UNCHANGED server
    PROVE  /\ ui' = u /\ ui' \in Ui
           /\ polls' \subseteq StatusRequest
           /\ PollsOK'
<1>1. CASE Dependencies(u) = Dependencies(ui)
  <2>1. polls' = requests /\ ui' = u /\ u.mode = ui.mode /\ u.pollingError = ui.pollingError
    BY <1>1 DEF Show, Dependencies
  <2>2. ASSUME NEW p \in requests, ~ p.cancelled
        PROVE  u.uploaded = ui.uploaded
    <3>1. ui.uploaded # None
      BY <2>2 DEF PollOK, Polling, Processing
    <3>2. u.uploaded # None
      BY <1>1, <3>1 DEF Dependencies
    <3> QED
      BY <2>2, <3>2
  <2>3. \A p \in requests : PollOK(p)'
    BY <2>1, <2>2 DEF PollOK, Known, Polling, Processing
  <2> QED
    BY <2>1, <2>3 DEF PollsOK, OnePoll
<1>2. CASE Dependencies(u) # Dependencies(ui)
  <2>1. ui' = u /\ polls' = {[p EXCEPT !.cancelled = TRUE] : p \in {p \in requests : p.answer # None}}
    BY <1>2 DEF Show
  <2>2. ASSUME NEW p \in requests
        PROVE  /\ [p EXCEPT !.cancelled = TRUE] \in StatusRequest
               /\ [p EXCEPT !.cancelled = TRUE].cancelled
               /\ PollOK([p EXCEPT !.cancelled = TRUE])'
    <3> DEFINE q == [p EXCEPT !.cancelled = TRUE]
    <3>1. /\ q \in StatusRequest /\ q.document = p.document /\ q.answer = p.answer /\ q.cancelled
      BY DEF StatusRequest
    <3>2. PollOK(p)
      OBVIOUS
    <3> QED
      BY <3>1, <3>2 DEF PollOK, Known
  <2> QED
    BY <2>1, <2>2 DEF PollsOK, OnePoll
<1> QED
  BY <1>1, <1>2

(***************************************************************************)
(* The page polls only while what it shows is unfinished.                  *)
(***************************************************************************)
LEMMA AllCancelled ==
    ASSUME WInv, ui.uploaded # None => ui.uploaded.status = "failed"
    PROVE  \A p \in polls : p.cancelled
BY DEF WInv, WorkflowTypeOK, StatusRequest, PollsOK, PollOK, Polling, Processing, Unfinished

LEMMA RenderKeeps ==
    ASSUME WInv, NEW u \in Ui, Render(u), UNCHANGED server,
           \/ u.uploaded = ui.uploaded
           \/ u.uploaded = None
           \/ ui.uploaded # None => ui.uploaded.status = "failed"
    PROVE  /\ ui' = u /\ ui' \in Ui
           /\ polls' \subseteq StatusRequest
           /\ PollsOK'
BY ShowKeeps, AllCancelled DEF Render, WInv, WorkflowTypeOK, PollsOK

(***************************************************************************)
(* A new upload generation: the call goes on, marked.                      *)
(***************************************************************************)
LEMMA GenerationOver ==
    ASSUME WInv, NextGeneration
    PROVE  /\ call' \in Call \cup {None}
           /\ call' # None => /\ call # None /\ call'.stale
                              /\ call'.kind = call.kind /\ call'.id = call.id
                              /\ call'.attempt = call.attempt /\ call'.answer = call.answer
BY DEF WInv, WorkflowTypeOK, NextGeneration, Call

(***************************************************************************)
(* The user takes another file, or clears the form: the attempt is over.   *)
(***************************************************************************)
LEMMA NewAttempt ==
    ASSUME WInv, NEW u \in Ui, Render(u), NextGeneration,
           u.uploaded = None, u.duplicate = None, u.pending = None, u.answers = {},
           call # None => u.submitting,
           attempt' = attempt + 1, UNCHANGED <<server, uuids>>
    PROVE  WInv'
<1>1. ui' = u /\ ui' \in Ui /\ polls' \subseteq StatusRequest /\ PollsOK'
  BY RenderKeeps
<1>2. WorkflowTypeOK'
  BY <1>1, GenerationOver DEF WInv, WorkflowTypeOK
<1>3. KnownShown'
  BY <1>1, GenerationOver DEF WInv, KnownShown, AnswerIs, Known
<1>4. OneUuidPerAttempt'
  <2>1. /\ attempt \in Nat /\ server \in [Document -> Stored \cup {None}]
        /\ \A d \in Document : server[d] # None => server[d].attempt \in Nat
    BY DEF WInv, WorkflowTypeOK, Stored
  <2>2. call # None => call.attempt \in Nat
    BY DEF WInv, WorkflowTypeOK, Call
  <2> QED
    BY <1>1, <2>1, <2>2, GenerationOver
       DEF WInv, OneUuidPerAttempt, RetriesStoreOnce, Uploading
<1>5. AnswersInPlace'
  BY <1>1, GenerationOver DEF WInv, AnswersInPlace, DocumentAnswersOwn, AnswerIs, Uploading
<1>6. ReplacedByNewer'
  BY <1>1, GenerationOver DEF WInv, ReplacedByNewer, NoOlder, AnswerIs, Uploading
<1> QED
  BY <1>1, <1>2, <1>3, <1>4, <1>5, <1>6 DEF WInv

LEMMA PickFileKeeps ==
    ASSUME WInv, PickFile
    PROVE  WInv'
<1> PICK f \in File \cup {None} :
         Render([ui EXCEPT !.selected = f, !.uploaded = None, !.duplicate = None,
                           !.pollingError = FALSE, !.pending = None, !.answers = {}])
  BY DEF PickFile
<1> DEFINE u == [ui EXCEPT !.selected = f, !.uploaded = None, !.duplicate = None,
                           !.pollingError = FALSE, !.pending = None, !.answers = {}]
<1>1. /\ u \in Ui /\ u.uploaded = None /\ u.duplicate = None /\ u.pending = None
      /\ u.answers = {} /\ u.submitting = ui.submitting
  BY DEF WInv, WorkflowTypeOK, Ui
<1>2. call # None => ui.submitting
  BY DEF WInv, AnswersInPlace
<1>3. Render(u) /\ NextGeneration /\ attempt' = attempt + 1 /\ UNCHANGED <<server, uuids>>
  BY DEF PickFile
<1> HIDE DEF u
<1> QED
  BY <1>1, <1>2, <1>3, NewAttempt

LEMMA ResetKeeps ==
    ASSUME WInv, Reset
    PROVE  WInv'
<1>1. InitUi \in Ui
  BY DEF InitUi, Ui
<1>2. call = None
  BY DEF WInv, AnswersInPlace, Reset
<1> QED
  BY <1>1, <1>2, NewAttempt DEF Reset, InitUi

-----------------------------------------------------------------------------
(***************************************************************************)
(* What changes nothing of the page but the mode, an error of the polling  *)
(* and whether something is being submitted.                               *)
(***************************************************************************)
SameDocument(u) ==
    /\ u.uploaded = ui.uploaded /\ u.duplicate = ui.duplicate
    /\ u.pending = ui.pending /\ u.answers = ui.answers

LEMMA ChangeModeKeeps ==
    ASSUME WInv, ChangeMode
    PROVE  WInv'
<1> PICK m \in {"upload", "url"} : Render([ui EXCEPT !.mode = m])
  BY DEF ChangeMode
<1>1. /\ [ui EXCEPT !.mode = m] \in Ui /\ SameDocument([ui EXCEPT !.mode = m])
      /\ [ui EXCEPT !.mode = m].submitting = ui.submitting
  BY DEF WInv, WorkflowTypeOK, Ui, SameDocument
<1>2. /\ ui' \in Ui /\ SameDocument(ui') /\ ui'.submitting = ui.submitting
      /\ polls' \subseteq StatusRequest /\ PollsOK'
  BY <1>1, RenderKeeps DEF ChangeMode, SameDocument
<1>3. NextGeneration /\ UNCHANGED <<server, attempt, uuids>>
  BY DEF ChangeMode
<1>4. WorkflowTypeOK'
  BY <1>2, <1>3, GenerationOver DEF WInv, WorkflowTypeOK
<1>5. KnownShown'
  BY <1>2, <1>3, GenerationOver DEF WInv, KnownShown, AnswerIs, Known, SameDocument
<1>6. OneUuidPerAttempt'
  BY <1>2, <1>3, GenerationOver
     DEF WInv, OneUuidPerAttempt, RetriesStoreOnce, Uploading, SameDocument
<1>7. AnswersInPlace'
  BY <1>2, <1>3, GenerationOver
     DEF WInv, AnswersInPlace, DocumentAnswersOwn, AnswerIs, Uploading, SameDocument
<1>8. ReplacedByNewer'
  BY <1>2, <1>3, GenerationOver
     DEF WInv, ReplacedByNewer, NoOlder, AnswerIs, Uploading, SameDocument
<1> QED
  BY <1>2, <1>4, <1>5, <1>6, <1>7, <1>8 DEF WInv

(***************************************************************************)
(* The call ends without an effect on the document that is shown.          *)
(***************************************************************************)
LEMMA CallEnds ==
    ASSUME WInv, NEW u \in Ui, Render(u), SameDocument(u), call' = None,
           UNCHANGED <<server, attempt, uuids>>
    PROVE  WInv'
<1>1. ui' = u /\ ui' \in Ui /\ polls' \subseteq StatusRequest /\ PollsOK'
  BY RenderKeeps DEF SameDocument
<1> QED
  BY <1>1 DEF WInv, WorkflowTypeOK, KnownShown, AnswerIs, Known, SameDocument, OneUuidPerAttempt,
              RetriesStoreOnce, Uploading, AnswersInPlace, DocumentAnswersOwn,
              ReplacedByNewer, NoOlder

LEMMA LoseKeeps ==
    ASSUME WInv, Lose
    PROVE  WInv'
<1>1. [ui EXCEPT !.submitting = FALSE] \in Ui /\ SameDocument([ui EXCEPT !.submitting = FALSE])
  BY DEF WInv, WorkflowTypeOK, Ui, SameDocument
<1> QED
  BY <1>1, CallEnds DEF Lose

LEMMA RetryStatusKeeps ==
    ASSUME WInv, RetryStatus
    PROVE  WInv'
<1>1. /\ [ui EXCEPT !.pollingError = FALSE] \in Ui
      /\ SameDocument([ui EXCEPT !.pollingError = FALSE])
      /\ [ui EXCEPT !.pollingError = FALSE].submitting = ui.submitting
  BY DEF WInv, WorkflowTypeOK, Ui, SameDocument
<1>2. /\ ui' \in Ui /\ SameDocument(ui') /\ ui'.submitting = ui.submitting
      /\ polls' \subseteq StatusRequest /\ PollsOK' /\ UNCHANGED <<call, server, attempt, uuids>>
  BY <1>1, RenderKeeps DEF RetryStatus, SameDocument
<1> QED
  BY <1>2 DEF WInv, WorkflowTypeOK, KnownShown, AnswerIs, Known, SameDocument, OneUuidPerAttempt,
              RetriesStoreOnce, Uploading, AnswersInPlace, DocumentAnswersOwn,
              ReplacedByNewer, NoOlder

-----------------------------------------------------------------------------
LEMMA UploadUuidFresh ==
    ASSUME WInv, UploadUuid <= MaxUuid
    PROVE  /\ UploadUuid \in Document
           /\ ui.pending = None => UploadUuid = uuids + 1
           /\ ui.pending # None => UploadUuid = ui.pending /\ ui.pending <= uuids
BY WorkflowAssumption DEF WInv, WorkflowTypeOK, UploadUuid, OneUuidPerAttempt, Ui, Document

(***************************************************************************)
(* An upload is sent with the UUID of its attempt, old or new.             *)
(***************************************************************************)
LEMMA SubmitKeeps ==
    ASSUME WInv, NEW u \in Ui, NEW allow \in BOOLEAN, SubmitUpload(allow, u),
           u.uploaded = ui.uploaded, u.duplicate = ui.duplicate,
           u.answers \subseteq {None},
           ui.uploaded # None => ui.uploaded.status = "failed"
    PROVE  WInv'
<1> DEFINE id == UploadUuid
           w == [[u EXCEPT !.pending = id] EXCEPT !.submitting = TRUE]
<1>1. /\ id \in Document /\ id <= MaxUuid
      /\ ui.pending = None => id = uuids + 1
      /\ ui.pending # None => id = ui.pending /\ ui.pending <= uuids
  BY UploadUuidFresh DEF SubmitUpload
<1>2. /\ uuids' = IF id > uuids THEN id ELSE uuids
      /\ call' = [kind |-> "upload", id |-> id, file |-> ui.selected, allow |-> allow,
                  attempt |-> attempt, stale |-> FALSE, answer |-> None]
      /\ Render(w)
      /\ UNCHANGED <<server, attempt, picks>>
  BY DEF SubmitUpload, Send
<1>3. /\ w \in Ui /\ w.uploaded = ui.uploaded /\ w.duplicate = ui.duplicate
      /\ w.pending = id /\ w.answers = u.answers /\ w.submitting
  BY <1>1 DEF Ui
<1>4. ui' = w /\ polls' \subseteq StatusRequest /\ PollsOK'
  BY <1>2, <1>3, RenderKeeps
<1>5. /\ uuids \in Nat /\ attempt \in Nat /\ id \in Nat /\ id # None
      /\ uuids' \in 0..MaxUuid /\ uuids <= uuids' /\ id <= uuids'
  BY <1>1, <1>2, WorkflowAssumption DEF WInv, WorkflowTypeOK, Document
<1>6. /\ call' \in Call /\ call'.kind = "upload" /\ call'.id = id /\ call'.attempt = attempt
      /\ call'.answer = None
  BY <1>1, <1>2, <1>5 DEF WInv, WorkflowTypeOK, Ui, Call
<1> HIDE DEF id, w
<1>7. WorkflowTypeOK'
  BY <1>2, <1>3, <1>4, <1>5, <1>6 DEF WInv, WorkflowTypeOK
<1>8. KnownShown'
  BY <1>2, <1>3, <1>4, <1>6 DEF WInv, KnownShown, AnswerIs, Known
<1>9. OneUuidPerAttempt'
  <2>1. \A d \in Document : server[d] # None => server[d].attempt \in Nat
    BY DEF WInv, WorkflowTypeOK, Stored
  <2>2. \A d \in Document : d \in Nat
    BY WorkflowAssumption DEF Document
  <2>3. ASSUME NEW d \in Document, server[d] # None, server[d].attempt = attempt
        PROVE  d = id
    <3>1. ui.pending = d
      BY <2>3 DEF WInv, OneUuidPerAttempt
    <3>2. d # None
      BY WorkflowAssumption
    <3> QED
      BY <1>1, <3>1, <3>2
  <2>4. \A d \in Document : server'[d] # None =>
          /\ d <= uuids' /\ server'[d].attempt <= attempt'
          /\ server'[d].attempt = attempt' => ui'.pending = d
    BY <1>2, <1>3, <1>4, <1>5, <2>1, <2>2, <2>3 DEF WInv, OneUuidPerAttempt
  <2>5. RetriesStoreOnce'
    BY <1>2 DEF WInv, OneUuidPerAttempt, RetriesStoreOnce
  <2>6. /\ call'.id # None /\ call'.id <= uuids' /\ call'.attempt <= attempt'
        /\ ui'.pending = call'.id /\ ui'.pending <= uuids'
    BY <1>2, <1>3, <1>4, <1>5, <1>6
  <2>7. \A d \in Document : server'[d] # None /\ server'[d].attempt = call'.attempt => d = call'.id
    BY <1>2, <1>6, <2>3
  <2> QED
    BY <2>4, <2>5, <2>6, <2>7 DEF OneUuidPerAttempt
<1>10. AnswersInPlace'
  BY <1>2, <1>3, <1>4, <1>6
     DEF WInv, AnswersInPlace, DocumentAnswersOwn, AnswerIs, Uploading
<1>11. ReplacedByNewer'
  <2>1. ui.uploaded # None => ui.uploaded.document # id
    <3>1. ui.uploaded # None => /\ ui.uploaded.document \in Document
                                /\ server[ui.uploaded.document] # None
      BY DEF WInv, WorkflowTypeOK, Ui, Shown, KnownShown, Known
    <3>2. ui.uploaded # None => ui.uploaded.document \in Nat /\ ui.uploaded.document <= uuids
      BY <3>1, WorkflowAssumption DEF WInv, OneUuidPerAttempt, Document
    <3> QED
      BY <1>1, <1>5, <3>2 DEF WInv, ReplacedByNewer, NoOlder
  <2> QED
    BY <1>3, <1>4, <1>6, <2>1 DEF WInv, ReplacedByNewer, NoOlder, AnswerIs, Uploading
<1> QED
  BY <1>4, <1>7, <1>8, <1>9, <1>10, <1>11 DEF WInv

LEMMA UploadKeeps ==
    ASSUME WInv, Upload
    PROVE  WInv'
<1>1. /\ [ui EXCEPT !.answers = {}] \in Ui
      /\ [ui EXCEPT !.answers = {}].uploaded = ui.uploaded
      /\ [ui EXCEPT !.answers = {}].duplicate = ui.duplicate
      /\ [ui EXCEPT !.answers = {}].answers = {}
  BY DEF WInv, WorkflowTypeOK, Ui
<1>2. ui.uploaded # None => ui.uploaded.status = "failed"
  <2>1. ui.uploaded # None => ui.uploaded.status \in Status
    BY DEF WInv, WorkflowTypeOK, Ui, Shown
  <2> QED
    BY <2>1 DEF Upload, UploadReady, Processing, Status, Unfinished
<1> QED
  BY <1>1, <1>2, SubmitKeeps DEF Upload

LEMMA UploadAgainKeeps ==
    ASSUME WInv, UploadAgain
    PROVE  WInv'
<1>1. ui \in Ui /\ ui.answers \subseteq {None} /\ (ui.uploaded # None => ui.uploaded.status = "failed")
  BY DEF WInv, WorkflowTypeOK, AnswersInPlace, ReplacedByNewer, NoOlder, UploadAgain
<1> QED
  BY <1>1, SubmitKeeps DEF UploadAgain

(***************************************************************************)
(* Questions are sent: about the document that is shown, or a URL.         *)
(***************************************************************************)
LEMMA AskKeeps ==
    ASSUME WInv, NEW kind \in {"query", "url"}, NEW id \in Document \cup {None}, NEW u \in Ui,
           Send(kind, id, FALSE, u), UNCHANGED uuids,
           u.uploaded = ui.uploaded, u.duplicate = ui.duplicate, u.pending = ui.pending,
           u.answers \subseteq ui.answers,
           kind = "query" => /\ ui.duplicate = None /\ ui.uploaded # None
                             /\ ui.uploaded.document = id
    PROVE  WInv'
<1> DEFINE w == [u EXCEPT !.submitting = TRUE]
<1>1. /\ call' = [kind |-> kind, id |-> id, file |-> ui.selected, allow |-> FALSE,
                  attempt |-> attempt, stale |-> FALSE, answer |-> None]
      /\ Render(w)
      /\ UNCHANGED <<server, attempt, picks>>
  BY DEF Send
<1>2. /\ w \in Ui /\ w.uploaded = ui.uploaded /\ w.duplicate = ui.duplicate
      /\ w.pending = ui.pending /\ w.answers = u.answers /\ w.submitting
  BY DEF Ui
<1>3. ui' = w /\ polls' \subseteq StatusRequest /\ PollsOK'
  BY <1>1, <1>2, RenderKeeps
<1>4. call' \in Call /\ call'.kind = kind /\ call'.id = id /\ call'.answer = None
  BY <1>1 DEF WInv, WorkflowTypeOK, Ui, Call
<1> HIDE DEF w
<1>5. WorkflowTypeOK' /\ KnownShown'
  BY <1>1, <1>2, <1>3, <1>4 DEF WInv, WorkflowTypeOK, KnownShown, AnswerIs, Known
<1>6. OneUuidPerAttempt' /\ AnswersInPlace' /\ ReplacedByNewer'
  BY <1>1, <1>2, <1>3, <1>4 DEF WInv, OneUuidPerAttempt, RetriesStoreOnce, Uploading,
                 AnswersInPlace, DocumentAnswersOwn, AnswerIs, ReplacedByNewer, NoOlder
<1> QED
  BY <1>3, <1>5, <1>6 DEF WInv

LEMMA AskDocumentKeeps ==
    ASSUME WInv, AskDocument
    PROVE  WInv'
<1>1. /\ ui \in Ui /\ ui.uploaded # None /\ ui.duplicate = None
      /\ Send("query", ui.uploaded.document, FALSE, ui) /\ UNCHANGED uuids
  BY DEF WInv, WorkflowTypeOK, AskDocument, UploadReady
<1>2. ui.uploaded.document \in Document
  BY <1>1 DEF Ui, Shown
<1> QED
  BY <1>1, <1>2, AskKeeps

LEMMA AskUrlKeeps ==
    ASSUME WInv, AskUrl
    PROVE  WInv'
<1> DEFINE u == [ui EXCEPT !.answers = {}]
<1>1. /\ u \in Ui /\ u.uploaded = ui.uploaded /\ u.duplicate = ui.duplicate
      /\ u.pending = ui.pending /\ u.answers = {}
  BY DEF WInv, WorkflowTypeOK, Ui
<1>2. Send("url", None, FALSE, u) /\ UNCHANGED uuids
  BY DEF AskUrl
<1> HIDE DEF u
<1> QED
  BY <1>1, <1>2, AskKeeps

(***************************************************************************)
(* The document shown is replaced by one of its own UUID or bytes, and the *)
(* attempt is over.                                                        *)
(***************************************************************************)
LEMMA DocumentShown ==
    ASSUME WInv, NEW u \in Ui, Render(u), call' = None \/ (call = None /\ call' = call),
           u.uploaded \in Shown, Known(u.uploaded),
           ui.uploaded # None => ui.uploaded.status = "failed",
           u.duplicate = None, u.pending = None, u.answers \subseteq {None},
           attempt' = attempt + 1, UNCHANGED <<server, uuids>>
    PROVE  WInv'
<1>1. ui' = u /\ ui' \in Ui /\ polls' \subseteq StatusRequest /\ PollsOK' /\ call' = None
  BY RenderKeeps
<1>2. /\ attempt \in Nat /\ \A d \in Document : server[d] # None => server[d].attempt \in Nat
      /\ u.uploaded.document # None
  BY WorkflowAssumption DEF WInv, WorkflowTypeOK, Stored, Shown
<1>3. WorkflowTypeOK' /\ KnownShown'
  BY <1>1, <1>2 DEF WInv, WorkflowTypeOK, KnownShown, AnswerIs, Known
<1>4. OneUuidPerAttempt'
  BY <1>1, <1>2 DEF WInv, OneUuidPerAttempt, RetriesStoreOnce, Uploading
<1>5. AnswersInPlace' /\ ReplacedByNewer'
  BY <1>1, <1>2
     DEF AnswersInPlace, DocumentAnswersOwn, AnswerIs, Uploading, ReplacedByNewer, NoOlder
<1> QED
  BY <1>1, <1>3, <1>4, <1>5 DEF WInv

LEMMA OpenExistingKeeps ==
    ASSUME WInv, OpenExisting
    PROVE  WInv'
<1> DEFINE u == [ui EXCEPT !.uploaded = ui.duplicate, !.duplicate = None,
                           !.pollingError = FALSE, !.pending = None]
<1>1. ui.duplicate \in Shown /\ call = None /\ ui.answers \subseteq {None}
  BY DEF WInv, WorkflowTypeOK, Ui, AnswersInPlace, OpenExisting
<1>2. /\ u \in Ui /\ u.uploaded = ui.duplicate /\ u.duplicate = None /\ u.pending = None
      /\ u.answers = ui.answers
  BY <1>1 DEF WInv, WorkflowTypeOK, Ui
<1>3. Known(ui.duplicate) /\ (ui.uploaded # None => ui.uploaded.status = "failed")
  BY DEF WInv, KnownShown, ReplacedByNewer, NoOlder, OpenExisting
<1>4. Render(u) /\ attempt' = attempt + 1 /\ UNCHANGED <<call, server, uuids>>
  BY DEF OpenExisting
<1> HIDE DEF u
<1> QED
  BY <1>1, <1>2, <1>3, <1>4, DocumentShown

-----------------------------------------------------------------------------
(***************************************************************************)
(* The server has the call, which now has an answer.                       *)
(***************************************************************************)
LEMMA AnsweredCall ==
    ASSUME WInv, call # None, NEW kind \in {"document", "duplicate", "error", "answers"},
           NEW shown \in Shown \cup {None}, Answered(kind, shown)
    PROVE  /\ call' \in Call /\ call'.answer = [kind |-> kind, shown |-> shown]
           /\ call'.answer.kind = kind /\ call'.answer.shown = shown
           /\ call'.kind = call.kind /\ call'.id = call.id /\ call'.attempt = call.attempt
           /\ call'.stale = call.stale
BY DEF WInv, WorkflowTypeOK, Answered, Call, Answer

LEMMA ServeKnown ==
    ASSUME WInv, call # None, call.answer = None,
           NEW kind \in {"document", "duplicate", "error", "answers"},
           NEW shown \in Shown \cup {None}, Answered(kind, shown),
           kind \in {"document", "duplicate"} =>
             /\ call.kind = "upload" /\ shown \in Shown /\ Known(shown),
           kind = "document" => shown.document = call.id,
           kind = "duplicate" => shown.revision = server[shown.document].revision,
           kind = "answers" => call.kind # "upload",
           UNCHANGED <<ui, polls, server, attempt, uuids>>
    PROVE  WInv'
<1>1. WorkflowTypeOK' /\ KnownShown' /\ PollsOK'
  BY AnsweredCall DEF WInv, WorkflowTypeOK, KnownShown, Known, PollsOK, PollOK, AnswerIs
<1>2. OneUuidPerAttempt' /\ AnswersInPlace'
  <2>1. OneUuidPerAttempt'
    BY AnsweredCall DEF WInv, OneUuidPerAttempt, RetriesStoreOnce, Uploading
  <2>2. AnswersInPlace'
    BY AnsweredCall DEF WInv, AnswersInPlace, DocumentAnswersOwn, Uploading, AnswerIs
  <2>3. QED
    BY <2>1, <2>2
<1>3. ReplacedByNewer'
  <2>1. kind = "duplicate" => NoOlder(shown)
    BY DEF WInv, KnownShown, Known, NoOlder
  <2> QED
    BY <2>1, AnsweredCall DEF WInv, ReplacedByNewer, NoOlder, AnswerIs, Uploading
<1> QED
  BY <1>1, <1>2, <1>3 DEF WInv

(***************************************************************************)
(* The upload is stored under a UUID that has stored nothing yet.          *)
(***************************************************************************)
LEMMA StoreKeeps ==
    ASSUME WInv, Uploading, call.answer = None, call.file # None, server[call.id] = None,
           server' = [server EXCEPT ![call.id] =
               [file |-> call.file, status |-> "queued", attempt |-> call.attempt,
                revision |-> 0]],
           Answered("document", [document |-> call.id, status |-> "queued", revision |-> 0]),
           UNCHANGED <<ui, polls, attempt, uuids>>
    PROVE  WInv'
<1>0. call.id \in Document
  BY DEF WInv, WorkflowTypeOK, Uploading, Call, OneUuidPerAttempt
<1> PICK id \in Document : id = call.id
  BY <1>0
<1> PICK shown : shown = [document |-> id, status |-> "queued", revision |-> 0]
  OBVIOUS
<1>1. /\ call.file \in File /\ call.attempt \in Nat /\ call.attempt <= attempt
      /\ id <= uuids /\ (call.attempt = attempt => ui.pending = id)
      /\ \A d \in Document : server[d] # None /\ server[d].attempt = call.attempt => d = id
  BY DEF WInv, WorkflowTypeOK, Uploading, Call, OneUuidPerAttempt
<1>2. /\ server' \in [Document -> Stored \cup {None}]
      /\ \A d \in Document : d # id => server'[d] = server[d]
      /\ server'[id] \in Stored
      /\ server'[id].revision = 0 /\ server'[id].attempt = call.attempt
  BY <1>1 DEF WInv, WorkflowTypeOK, Stored, Status
<1>3. shown \in Shown /\ shown.document = id /\ shown.revision = 0
  BY DEF Shown, Status
<1>4. /\ call' \in Call /\ call'.answer.kind = "document" /\ call'.answer.shown = shown
      /\ call'.kind = "upload" /\ call'.id = id /\ call'.attempt = call.attempt
      /\ call'.stale = call.stale
  BY <1>3, AnsweredCall DEF Uploading
<1>5. \A d \in Document : server[d] # None => server'[d] = server[d]
  BY <1>2
<1>6. \A s \in Shown : Known(s) => Known(s)'
  BY <1>5 DEF Known, Shown
<1>7. WorkflowTypeOK'
  BY <1>2, <1>4 DEF WInv, WorkflowTypeOK
<1>8. KnownShown'
  <2>1. /\ ui.uploaded # None => ui.uploaded \in Shown
        /\ ui.duplicate # None => ui.duplicate \in Shown
    BY DEF WInv, WorkflowTypeOK, Ui
  <2>3. server'[id] # None
    BY <1>1, <1>2, WorkflowAssumption
  <2>4. Known(shown)'
    BY <1>2, <1>3, <2>3 DEF Known
  <2> QED
    BY <1>3, <1>4, <1>6, <2>1, <2>4 DEF WInv, KnownShown, AnswerIs
<1>9. PollsOK'
  BY <1>5, <1>6 DEF WInv, WorkflowTypeOK, StatusRequest, PollsOK, PollOK
<1>10. OneUuidPerAttempt'
  BY <1>1, <1>2, <1>4 DEF WInv, OneUuidPerAttempt, RetriesStoreOnce, Uploading
<1>11. AnswersInPlace' /\ ReplacedByNewer'
  BY <1>3, <1>4 DEF WInv, AnswersInPlace, DocumentAnswersOwn, AnswerIs, Uploading, ReplacedByNewer,
                    NoOlder
<1> QED
  BY <1>7, <1>8, <1>9, <1>10, <1>11 DEF WInv

LEMMA ServeKeeps ==
    ASSUME WInv, Serve
    PROVE  WInv'
<1>1. /\ call # None /\ call.answer = None /\ call \in Call
      /\ UNCHANGED <<ui, polls, attempt, uuids>>
  BY DEF WInv, WorkflowTypeOK, Serve
<1>2. CASE call.kind = "upload"
  <2>1. Uploading /\ call.id \in Document /\ ServeUpload
    BY <1>1, <1>2 DEF WInv, OneUuidPerAttempt, Uploading, Call, Serve
  <2>2. CASE call.file = None
    <3>1. UNCHANGED server /\ Answered("error", None)
      BY <2>1, <2>2 DEF ServeUpload
    <3> QED
      BY <1>1, <3>1, ServeKnown
  <2>3. ASSUME NEW d \in Document, server[d] # None
        PROVE  /\ Current(d) \in Shown /\ Known(Current(d))
               /\ Current(d).document = d /\ Current(d).revision = server[d].revision
    BY <2>3 DEF WInv, WorkflowTypeOK, Stored, Current, Shown, Known
  <2>4. CASE call.file # None /\ server[call.id] # None
    <3>1. UNCHANGED server /\ Answered("document", Current(call.id))
      BY <2>1, <2>4 DEF ServeUpload
    <3> HIDE DEF Current
    <3> QED
      BY <1>1, <1>2, <2>1, <2>3, <2>4, <3>1, ServeKnown
  <2>5. CASE call.file # None /\ server[call.id] = None /\ ~ call.allow /\ Duplicates # {}
    <3>1. UNCHANGED server /\ \E d \in Duplicates : Answered("duplicate", Current(d))
      BY <2>1, <2>5 DEF ServeUpload
    <3>2. PICK d \in Duplicates : Answered("duplicate", Current(d))
      BY <3>1
    <3>3. d \in Document /\ server[d] # None
      BY DEF Duplicates
    <3> HIDE DEF Current
    <3> QED
      BY <1>1, <1>2, <2>3, <3>1, <3>2, <3>3, ServeKnown
  <2>6. CASE call.file # None /\ server[call.id] = None /\ ~ (~ call.allow /\ Duplicates # {})
    <3>1. /\ server' = [server EXCEPT ![call.id] =
               [file |-> call.file, status |-> "queued", attempt |-> call.attempt,
                revision |-> 0]]
          /\ Answered("document", [document |-> call.id, status |-> "queued", revision |-> 0])
      BY <2>1, <2>6 DEF ServeUpload
    <3> QED
      BY <1>1, <2>1, <2>6, <3>1, StoreKeeps
  <2> QED
    BY <2>2, <2>4, <2>5, <2>6
<1>3. CASE call.kind # "upload"
  <2>1. UNCHANGED server /\ Answered("answers", None)
    BY <1>3 DEF Serve
  <2> QED
    BY <1>1, <1>3, <2>1, ServeKnown
<1> QED
  BY <1>2, <1>3

(***************************************************************************)
(* The worker moves a document, wherever to: what was known of it is older.*)
(***************************************************************************)
LEMMA WorkKeeps ==
    ASSUME WInv, Work
    PROVE  WInv'
<1>0. PICK e \in Document, t \in Status :
      /\ server[e] # None
      /\ server' = [server EXCEPT ![e].status = t, ![e].revision = @ + 1]
  BY DEF Work
<1> DEFINE row == [server[e] EXCEPT !.status = t, !.revision = server[e].revision + 1]
<1>1. /\ server[e] \in Stored /\ row \in Stored
      /\ row.attempt = server[e].attempt /\ row.revision = server[e].revision + 1
      /\ server[e].revision \in Nat /\ server[e] # None
  BY <1>0, WorkflowAssumption DEF WInv, WorkflowTypeOK, Stored
<1>2. /\ server'[e] = row /\ \A d \in Document : d # e => server'[d] = server[d]
      /\ server' \in [Document -> Stored \cup {None}]
  BY <1>0, <1>1 DEF WInv, WorkflowTypeOK, Stored
<1> HIDE DEF row
<1>3. row # None
  BY <1>1, WorkflowAssumption
<1>4. \A d \in Document : /\ server[d] # None <=> server'[d] # None
                          /\ server[d] # None => server'[d].attempt = server[d].attempt
  BY <1>1, <1>2, <1>3
<1>5. ASSUME NEW shown \in Shown, Known(shown)
      PROVE  Known(shown)'
  <2>1. shown.document \in Document /\ shown.revision \in Nat
    BY DEF Shown
  <2> QED
    BY <1>1, <1>2, <1>3, <1>5, <2>1 DEF Known
<1>6. UNCHANGED <<ui, call, polls, attempt, uuids>>
  BY DEF Work
<1>7. WorkflowTypeOK'
  BY <1>2, <1>6 DEF WInv, WorkflowTypeOK
<1>8. KnownShown'
  <2>1. /\ ui.uploaded # None => ui.uploaded \in Shown
        /\ ui.duplicate # None => ui.duplicate \in Shown
    BY DEF WInv, WorkflowTypeOK, Ui
  <2> QED
    BY <1>5, <1>6, <2>1 DEF WInv, KnownShown, AnswerIs
<1>9. PollsOK'
  BY <1>4, <1>5, <1>6 DEF WInv, WorkflowTypeOK, StatusRequest, PollsOK, PollOK, OnePoll,
                          Polling, Processing
<1>10. OneUuidPerAttempt'
  BY <1>4, <1>6 DEF WInv, OneUuidPerAttempt, RetriesStoreOnce, Uploading
<1>11. AnswersInPlace' /\ ReplacedByNewer'
  BY <1>6 DEF WInv, AnswersInPlace, DocumentAnswersOwn, AnswerIs, Uploading, ReplacedByNewer,
              NoOlder
<1> QED
  BY <1>7, <1>8, <1>9, <1>10, <1>11 DEF WInv

-----------------------------------------------------------------------------
LEMMA ArriveKeeps ==
    ASSUME WInv, Arrive
    PROVE  WInv'
<1>1. /\ call # None /\ call.answer # None /\ call \in Call /\ ui \in Ui
      /\ call' = None /\ UNCHANGED <<server, uuids>>
  BY DEF WInv, WorkflowTypeOK, Arrive
<1>2. [ui EXCEPT !.submitting = FALSE] \in Ui /\ SameDocument([ui EXCEPT !.submitting = FALSE])
  BY <1>1 DEF Ui, SameDocument
<1>3. CASE call.answer.kind = "document" /\ AnswerStored
  <2>1. CASE call.stale
    BY <1>1, <1>2, <1>3, <2>1, CallEnds DEF AnswerStored
  <2>2. CASE ~ call.stale
    <3> DEFINE u == [ui EXCEPT !.submitting = FALSE, !.uploaded = call.answer.shown,
                               !.duplicate = None, !.pollingError = FALSE, !.pending = None]
    <3>1. /\ call.answer.shown \in Shown
          /\ Known(call.answer.shown)
          /\ ui.answers \subseteq {None}
          /\ ui.uploaded # None => ui.uploaded.status = "failed"
      BY <1>1, <1>3
         DEF WInv, KnownShown, AnswersInPlace, ReplacedByNewer, NoOlder, AnswerIs, Uploading
    <3>2. /\ u \in Ui /\ u.uploaded = call.answer.shown /\ u.duplicate = None
          /\ u.pending = None /\ u.answers = ui.answers
      BY <1>1, <3>1 DEF Ui
    <3>3. Render(u) /\ attempt' = attempt + 1
      BY <1>3, <2>2 DEF AnswerStored
    <3> HIDE DEF u
    <3> QED
      BY <1>1, <3>1, <3>2, <3>3, DocumentShown
  <2> QED
    BY <2>1, <2>2
<1>4. CASE /\ call.answer.kind = "duplicate"
           /\ Render([ui EXCEPT !.submitting = FALSE, !.duplicate = call.answer.shown])
           /\ UNCHANGED attempt
  <2> DEFINE u == [ui EXCEPT !.submitting = FALSE, !.duplicate = call.answer.shown]
  <2>1. /\ call.answer.shown \in Shown
        /\ Known(call.answer.shown)
        /\ ui.answers \subseteq {None} /\ Uploading
    BY <1>1, <1>4 DEF WInv, KnownShown, AnswersInPlace, AnswerIs, Uploading
  <2>2. /\ u \in Ui /\ u.uploaded = ui.uploaded /\ u.duplicate = call.answer.shown
        /\ u.pending = ui.pending /\ u.answers = ui.answers
    BY <1>1, <2>1 DEF Ui
  <2>3. Render(u)
    BY <1>4
  <2> HIDE DEF u
  <2>4. ui' = u /\ polls' \subseteq StatusRequest /\ PollsOK'
    BY <1>1, <2>2, <2>3, RenderKeeps
  <2>5. WorkflowTypeOK' /\ KnownShown'
    BY <1>1, <1>4, <2>1, <2>2, <2>4 DEF WInv, WorkflowTypeOK, KnownShown, AnswerIs, Known
  <2>6. OneUuidPerAttempt' /\ AnswersInPlace'
    BY <1>1, <1>4, <2>1, <2>2, <2>4
       DEF WInv, OneUuidPerAttempt, RetriesStoreOnce, AnswersInPlace, DocumentAnswersOwn,
           AnswerIs, Uploading
  <2>7. ReplacedByNewer'
    BY <1>1, <1>4, <2>1, <2>2, <2>4 DEF WInv, ReplacedByNewer, NoOlder, AnswerIs, Uploading
  <2> QED
    BY <2>4, <2>5, <2>6, <2>7 DEF WInv
<1>5. CASE call.answer.kind = "error" /\ Render([ui EXCEPT !.submitting = FALSE]) /\ UNCHANGED attempt
  BY <1>1, <1>2, <1>5, CallEnds
<1>6. CASE /\ call.answer.kind = "answers"
           /\ Render([ui EXCEPT !.submitting = FALSE,
                        !.answers = IF call.kind = "url" THEN {None}
                                    ELSE IF call.stale THEN @ ELSE @ \cup {call.id}])
           /\ UNCHANGED attempt
  <2> DEFINE shown == IF call.kind = "url" THEN {None}
                      ELSE IF call.stale THEN ui.answers ELSE ui.answers \cup {call.id}
             u == [ui EXCEPT !.submitting = FALSE, !.answers = shown]
  <2>0. shown \in SUBSET (Document \cup {None})
    BY <1>1 DEF Ui, Call
  <2>1. /\ u \in Ui /\ u.uploaded = ui.uploaded /\ u.duplicate = ui.duplicate
        /\ u.pending = ui.pending
        /\ u.answers = shown
    <3> HIDE DEF shown
    <3> QED
      BY <1>1, <2>0 DEF Ui
  <2>2. Render(u)
    BY <1>1, <1>6 DEF Ui
  <2> HIDE DEF u
  <2>3. ui' = u /\ polls' \subseteq StatusRequest /\ PollsOK'
    BY <1>1, <2>1, <2>2, RenderKeeps
  <2>4. /\ call.kind # "upload" /\ call.kind \in {"query", "url"}
        /\ call.kind = "query" =>
             /\ ui.duplicate = None
             /\ ~ call.stale => ui.uploaded # None /\ ui.uploaded.document = call.id
    BY <1>1, <1>6 DEF WInv, AnswersInPlace, AnswerIs, Call
  <2>5. WorkflowTypeOK' /\ KnownShown'
    BY <1>1, <1>6, <2>1, <2>3 DEF WInv, WorkflowTypeOK, KnownShown, AnswerIs, Known
  <2>6. OneUuidPerAttempt' /\ ReplacedByNewer'
    BY <1>1, <1>6, <2>1, <2>3
       DEF WInv, OneUuidPerAttempt, RetriesStoreOnce, ReplacedByNewer, NoOlder, AnswerIs, Uploading
  <2>7. AnswersInPlace'
    <3>1. u.duplicate # None => u.answers \subseteq {None}
      BY <2>1, <2>4 DEF WInv, AnswersInPlace
    <3>2. \A a \in u.answers : a # None => u.uploaded # None /\ u.uploaded.document = a
      BY <2>1, <2>4 DEF WInv, AnswersInPlace, DocumentAnswersOwn
    <3> QED
      BY <1>1, <2>3, <3>1, <3>2 DEF AnswersInPlace, DocumentAnswersOwn, AnswerIs, Uploading
  <2> QED
    BY <2>3, <2>5, <2>6, <2>7 DEF WInv
<1> QED
  BY <1>3, <1>4, <1>5, <1>6 DEF Arrive

-----------------------------------------------------------------------------
(***************************************************************************)
(* The requests for the status.                                            *)
(***************************************************************************)
LEMMA PollKeeps ==
    ASSUME WInv, Poll
    PROVE  WInv'
<1> PICK p : p = [document |-> ui.uploaded.document, cancelled |-> FALSE, answer |-> None]
  OBVIOUS
<1>1. /\ ui.uploaded # None /\ ui.uploaded.document \in Document
      /\ server[ui.uploaded.document] # None
      /\ polls' = polls \cup {p} /\ UNCHANGED <<ui, call, server, attempt, uuids>>
      /\ Polling(ui) /\ \A q \in polls : q.cancelled
  BY DEF WInv, WorkflowTypeOK, KnownShown, Known, Poll, Due, Polling, Processing, Ui, Shown
<1>2. p \in StatusRequest /\ PollOK(p)'
  BY <1>1 DEF StatusRequest, PollOK, Polling, Processing
<1>3. PollsOK' /\ polls' \subseteq StatusRequest
  <2>1. \A q \in polls : PollOK(q)'
    BY <1>1 DEF WInv, PollsOK, PollOK, Known, Polling, Processing
  <2> QED
    BY <1>1, <1>2, <2>1 DEF WInv, WorkflowTypeOK, PollsOK, OnePoll
<1> QED
  BY <1>1, <1>3 DEF WInv, WorkflowTypeOK, KnownShown, AnswerIs, Known, OneUuidPerAttempt,
       RetriesStoreOnce, Uploading, AnswersInPlace, DocumentAnswersOwn,
              ReplacedByNewer, NoOlder

LEMMA ServePollKeeps ==
    ASSUME WInv, ServePoll
    PROVE  WInv'
<1> PICK p \in polls :
      /\ p.answer = None
      /\ polls' = (polls \ {p}) \cup {[p EXCEPT !.answer = Current(p.document)]}
  BY DEF ServePoll
<1> DEFINE q == [p EXCEPT !.answer = Current(p.document)]
<1>1. UNCHANGED <<ui, call, server, attempt, uuids>>
  BY DEF ServePoll
<1>2. p \in StatusRequest /\ PollOK(p) /\ server[p.document] \in Stored
  BY DEF WInv, WorkflowTypeOK, StatusRequest, PollsOK, PollOK
<1>3. /\ q \in StatusRequest /\ q.document = p.document /\ q.cancelled = p.cancelled
      /\ q.answer = Current(p.document) /\ q.answer \in Shown
      /\ q.answer.document = p.document
      /\ q.answer.revision = server[p.document].revision
  BY <1>2 DEF StatusRequest, Stored, Shown, Current
<1> HIDE DEF q
<1>4. PollOK(q)
  <2>1. server[p.document] # None /\ server[p.document].revision \in Nat
    BY <1>2 DEF PollOK, Stored
  <2>2. Known(q.answer)
    BY <1>3, <2>1 DEF Known
  <2>3. ~ q.cancelled =>
          /\ Polling(ui) /\ q.document = ui.uploaded.document
          /\ ui.uploaded.revision <= q.answer.revision
    <3>1. ~ q.cancelled => Polling(ui) /\ q.document = ui.uploaded.document
      BY <1>2, <1>3 DEF PollOK
    <3>2. ui.uploaded # None => Known(ui.uploaded)
      BY DEF WInv, KnownShown
    <3> QED
      BY <1>3, <3>1, <3>2 DEF Known, Polling, Processing
  <2> QED
    BY <1>3, <2>1, <2>2, <2>3 DEF PollOK
<1>5. PollsOK' /\ polls' \subseteq StatusRequest
  <2>1. polls' = (polls \ {p}) \cup {q}
    BY DEF q
  <2>2. \A r \in polls \cup {q} : PollOK(r)'
    BY <1>1, <1>4 DEF WInv, PollsOK, PollOK, Known, Polling, Processing
  <2>3. OnePoll(polls')
    BY <1>3, <2>1 DEF WInv, PollsOK, OnePoll
  <2> QED
    BY <1>3, <2>1, <2>2, <2>3 DEF WInv, WorkflowTypeOK, PollsOK, OnePoll
<1> QED
  BY <1>1, <1>5 DEF WInv, WorkflowTypeOK, KnownShown, AnswerIs, Known, OneUuidPerAttempt,
       RetriesStoreOnce, Uploading, AnswersInPlace, DocumentAnswersOwn,
              ReplacedByNewer, NoOlder

(***************************************************************************)
(* An answer that counts is about the document shown and no older.         *)
(***************************************************************************)
LEMMA PollAnswer ==
    ASSUME WInv, NEW p \in polls, p.answer # None
    PROVE  /\ p.answer \in Shown /\ Known(p.answer)
           /\ Applies(p) => /\ ui.uploaded # None /\ ui.uploaded.status \in Unfinished
                            /\ p.answer.document = ui.uploaded.document
                            /\ ui.uploaded.revision <= p.answer.revision
                            /\ \A q \in polls \ {p} : q.cancelled
<1>1. p \in StatusRequest /\ PollOK(p) /\ polls \subseteq StatusRequest
  BY DEF WInv, WorkflowTypeOK, PollsOK
<1>2. p.answer \in Shown /\ Known(p.answer)
  BY <1>1 DEF PollOK, StatusRequest
<1>3. ASSUME Applies(p)
      PROVE  /\ ui.uploaded # None /\ ui.uploaded.status \in Unfinished
             /\ p.answer.document = ui.uploaded.document
             /\ ui.uploaded.revision <= p.answer.revision
  BY <1>1, <1>3 DEF PollOK, Applies, Polling, Processing
<1>4. ASSUME Applies(p), NEW q \in polls \ {p}
      PROVE  q.cancelled
  BY <1>1, <1>4 DEF WInv, PollsOK, OnePoll, Applies, StatusRequest
<1> QED
  BY <1>2, <1>3, <1>4

LEMMA PollArrivesKeeps ==
    ASSUME WInv, PollArrives
    PROVE  WInv'
<1> PICK p \in polls :
      /\ p.answer # None
      /\ Show(IF Applies(p) THEN [ui EXCEPT !.uploaded = p.answer] ELSE ui, polls \ {p})
  BY DEF PollArrives
<1>1. /\ UNCHANGED <<call, server, attempt, uuids>> /\ ui \in Ui
      /\ polls \ {p} \in SUBSET StatusRequest /\ \A r \in polls \ {p} : PollOK(r)
      /\ OnePoll(polls \ {p})
  BY DEF WInv, WorkflowTypeOK, PollsOK, OnePoll, PollArrives
<1>2. CASE ~ Applies(p)
  <2>1. ui' = ui /\ polls' \subseteq StatusRequest /\ PollsOK'
    BY <1>1, <1>2, ShowKeeps
  <2> QED
    BY <1>1, <2>1 DEF WInv, WorkflowTypeOK, KnownShown, AnswerIs, Known, OneUuidPerAttempt,
         RetriesStoreOnce, Uploading, AnswersInPlace, DocumentAnswersOwn,
              ReplacedByNewer, NoOlder
<1>3. CASE Applies(p)
  <2> PICK shown : shown = p.answer
    OBVIOUS
  <2> DEFINE u == [ui EXCEPT !.uploaded = shown]
  <2>1. /\ shown \in Shown /\ shown # None /\ Known(shown)
        /\ ui.uploaded # None /\ ui.uploaded.status \in Unfinished
        /\ shown.document = ui.uploaded.document
        /\ \A q \in polls \ {p} : q.cancelled
    BY <1>3, PollAnswer
  <2>2. /\ u \in Ui /\ u.uploaded = shown /\ u.duplicate = ui.duplicate
        /\ u.pending = ui.pending /\ u.answers = ui.answers /\ u.submitting = ui.submitting
    BY <1>1, <2>1 DEF Ui
  <2>3. Show(u, polls \ {p})
    BY <1>3
  <2> HIDE DEF u
  <2>4. ui' = u /\ polls' \subseteq StatusRequest /\ PollsOK'
    BY <1>1, <2>1, <2>2, <2>3, ShowKeeps
  <2>5. ui.duplicate = None /\ ~ Uploading /\ ~ AnswerIs("duplicate")
    BY <2>1 DEF WInv, ReplacedByNewer, NoOlder, AnswersInPlace, AnswerIs, Uploading, Unfinished
  <2>6. WorkflowTypeOK' /\ KnownShown'
    BY <1>1, <2>1, <2>2, <2>4 DEF WInv, WorkflowTypeOK, KnownShown, AnswerIs, Known
  <2>7. OneUuidPerAttempt' /\ AnswersInPlace'
    BY <1>1, <2>1, <2>2, <2>4 DEF WInv, OneUuidPerAttempt, RetriesStoreOnce, Uploading,
         AnswersInPlace, DocumentAnswersOwn, AnswerIs
  <2>8. ReplacedByNewer'
    BY <1>1, <2>1, <2>2, <2>4, <2>5 DEF WInv, ReplacedByNewer, NoOlder, Uploading, AnswerIs
  <2> QED
    BY <2>4, <2>6, <2>7, <2>8 DEF WInv
<1> QED
  BY <1>2, <1>3

LEMMA PollFailsKeeps ==
    ASSUME WInv, PollFails
    PROVE  WInv'
<1> PICK p \in polls : Show([ui EXCEPT !.pollingError = TRUE], polls \ {p})
  BY DEF PollFails
<1>1. /\ UNCHANGED <<call, server, attempt, uuids>>
      /\ polls \ {p} \in SUBSET StatusRequest /\ \A r \in polls \ {p} : PollOK(r)
      /\ OnePoll(polls \ {p})
      /\ [ui EXCEPT !.pollingError = TRUE] \in Ui
      /\ SameDocument([ui EXCEPT !.pollingError = TRUE])
      /\ [ui EXCEPT !.pollingError = TRUE].submitting = ui.submitting
  BY DEF WInv, WorkflowTypeOK, PollsOK, OnePoll, PollFails, Ui, SameDocument
<1>2. /\ ui' \in Ui /\ SameDocument(ui') /\ ui'.submitting = ui.submitting
      /\ polls' \subseteq StatusRequest /\ PollsOK'
  BY <1>1, ShowKeeps DEF SameDocument
<1> QED
  BY <1>1, <1>2 DEF WInv, WorkflowTypeOK, KnownShown, AnswerIs, Known, SameDocument,
       OneUuidPerAttempt, RetriesStoreOnce, Uploading, AnswersInPlace, DocumentAnswersOwn,
       ReplacedByNewer, NoOlder

-----------------------------------------------------------------------------
LEMMA NextKeeps == WInv /\ [Next]_vars => WInv'
<1> SUFFICES ASSUME WInv, [Next]_vars
             PROVE  WInv'
  OBVIOUS
<1>1. CASE UNCHANGED vars
  BY <1>1 DEF vars, WInv, WorkflowTypeOK, KnownShown, AnswerIs, Known, PollsOK, PollOK,
       OnePoll, Polling, Processing,
       OneUuidPerAttempt, RetriesStoreOnce, Uploading, AnswersInPlace, DocumentAnswersOwn,
       ReplacedByNewer, NoOlder
<1>2. CASE PickFile \/ ChangeMode \/ Reset
  BY <1>2, PickFileKeeps, ChangeModeKeeps, ResetKeeps
<1>3. CASE Upload \/ UploadAgain \/ OpenExisting \/ AskDocument \/ AskUrl
  BY <1>3, UploadKeeps, UploadAgainKeeps, OpenExistingKeeps, AskDocumentKeeps, AskUrlKeeps
<1>4. CASE Serve \/ Work \/ Arrive \/ Lose
  BY <1>4, ServeKeeps, WorkKeeps, ArriveKeeps, LoseKeeps
<1>5. CASE Poll \/ ServePoll \/ PollArrives \/ PollFails \/ RetryStatus
  BY <1>5, PollKeeps, ServePollKeeps, PollArrivesKeeps, PollFailsKeeps, RetryStatusKeeps
<1> QED
  BY <1>1, <1>2, <1>3, <1>4, <1>5 DEF Next

LEMMA InvariantHolds == Spec => []WInv
BY InitInv, NextKeeps, PTL DEF Spec

(***************************************************************************)
(* POST /documents/upload stores at most one document per attempt of the   *)
(* browser (App.jsx submitUpload), whatever answers are lost.              *)
(***************************************************************************)
THEOREM AttemptStoresOnce == Spec => []RetriesStoreOnce
<1>1. WInv => RetriesStoreOnce
  BY DEF WInv, OneUuidPerAttempt
<1> QED
  BY <1>1, InvariantHolds, PTL

(***************************************************************************)
(* The answers that App.jsx shows about a document belong to the document  *)
(* shown, however late they arrive.                                        *)
(***************************************************************************)
THEOREM AnswersOfTheDocumentShown == Spec => []DocumentAnswersOwn
<1>1. WInv => DocumentAnswersOwn
  BY DEF WInv, AnswersInPlace
<1> QED
  BY <1>1, InvariantHolds, PTL

-----------------------------------------------------------------------------
NoneOlder ==
    ui.uploaded # None /\ ui'.uploaded # None /\ ui.uploaded.document = ui'.uploaded.document
      => ui.uploaded.revision <= ui'.uploaded.revision

LEMMA SameShown ==
    ASSUME WInv, ui'.uploaded = ui.uploaded
    PROVE  NoneOlder
<1>1. ui.uploaded # None => ui.uploaded.revision \in Nat
  BY DEF WInv, WorkflowTypeOK, Ui, Shown
<1> QED
  BY <1>1 DEF NoneOlder

LEMMA StepNoneOlder == WInv /\ [Next]_vars => NoneOlder
<1> SUFFICES ASSUME WInv, [Next]_vars
             PROVE  NoneOlder
  OBVIOUS
<1> USE DEF WInv, WorkflowTypeOK, Ui
<1>1. CASE \/ UNCHANGED vars \/ ChangeMode \/ Upload \/ UploadAgain \/ AskDocument \/ AskUrl
           \/ Serve \/ Work \/ Lose \/ Poll \/ ServePoll \/ PollFails \/ RetryStatus
  <2>1. CASE UNCHANGED vars \/ Serve \/ Work \/ Poll \/ ServePoll
    BY <2>1, SameShown DEF vars, Serve, Work, Poll, ServePoll
  <2>2. CASE ChangeMode \/ Lose \/ PollFails \/ RetryStatus
    <3>1. ui'.uploaded = ui.uploaded
      BY <2>2 DEF ChangeMode, Lose, PollFails, RetryStatus, Render, Show
    <3> QED
      BY <3>1, SameShown
  <2>3. CASE Upload \/ UploadAgain \/ AskDocument \/ AskUrl
    <3>1. CASE Upload
      <4>1. UploadUuid \in Document
        BY <3>1, UploadUuidFresh DEF Upload, SubmitUpload
      <4> QED
        BY <3>1, <4>1, SameShown DEF Upload, SubmitUpload, Send, Render, Show
    <3>2. CASE UploadAgain
      <4>1. UploadUuid \in Document
        BY <3>2, UploadUuidFresh DEF UploadAgain, SubmitUpload
      <4> QED
        BY <3>2, <4>1, SameShown DEF UploadAgain, SubmitUpload, Send, Render, Show
    <3>3. CASE AskDocument \/ AskUrl
      BY <3>3, SameShown DEF AskDocument, AskUrl, Send, Render, Show
    <3> QED
      BY <2>3, <3>1, <3>2, <3>3
  <2> QED
    BY <1>1, <2>1, <2>2, <2>3
<1>2. CASE PickFile \/ Reset
  <2>1. ui'.uploaded = None
    <3>1. CASE PickFile
      BY <3>1 DEF PickFile, Render, Show
    <3>2. CASE Reset
      BY <3>2 DEF Reset, InitUi, Render, Show
    <3> QED
      BY <1>2, <3>1, <3>2
  <2> QED
    BY <2>1 DEF NoneOlder
<1>3. CASE OpenExisting
  <2>1. ui'.uploaded = ui.duplicate /\ ui.duplicate # None
    BY <1>3 DEF OpenExisting, Render, Show
  <2> QED
    BY <2>1 DEF NoneOlder, ReplacedByNewer, NoOlder
<1>4. CASE Arrive
  <2>1. CASE call.answer.kind = "document" /\ AnswerStored /\ ~ call.stale
    <3>1. ui'.uploaded = call.answer.shown
      BY <2>1 DEF AnswerStored, Render, Show
    <3>2. AnswerIs("document") /\ Uploading
      BY <1>4, <2>1 DEF Arrive, AnswerIs, AnswersInPlace, Uploading
    <3>3. call.answer.shown.document = ui.pending
      BY <2>1, <3>2 DEF ReplacedByNewer, NoOlder
    <3> QED
      BY <3>1, <3>3 DEF NoneOlder, ReplacedByNewer, NoOlder
  <2>2. CASE ~ (call.answer.kind = "document" /\ AnswerStored /\ ~ call.stale)
    <3>1. ui'.uploaded = ui.uploaded
      BY <1>4, <2>2 DEF Arrive, AnswerStored, Render, Show
    <3> QED
      BY <3>1, SameShown
  <2> QED
    BY <2>1, <2>2
<1>5. CASE PollArrives
  <2> PICK p \in polls :
        /\ p.answer # None
        /\ Show(IF Applies(p) THEN [ui EXCEPT !.uploaded = p.answer] ELSE ui, polls \ {p})
    BY <1>5 DEF PollArrives
  <2>1. CASE Applies(p)
    <3>1. ui'.uploaded = p.answer
      BY <2>1 DEF Show
    <3> QED
      BY <2>1, <3>1, PollAnswer DEF NoneOlder
  <2>2. CASE ~ Applies(p)
    BY <2>2, SameShown DEF Show
  <2> QED
    BY <2>1, <2>2
<1> QED
  BY <1>1, <1>2, <1>3, <1>4, <1>5 DEF Next

(***************************************************************************)
(* What App.jsx shows of a document is never replaced by something older:  *)
(* neither by a late answer to a poll nor by a duplicate or an upload,     *)
(* wherever the worker moves the document meanwhile.                       *)
(***************************************************************************)
THEOREM NothingOlderReplacesShown == Spec => NothingOlderIsShown
<1>1. WInv /\ [Next]_vars =>
        [ui.uploaded # None /\ ui'.uploaded # None /\ ui.uploaded.document = ui'.uploaded.document
           => ui.uploaded.revision <= ui'.uploaded.revision]_vars
  BY StepNoneOlder DEF NoneOlder
<1> QED
  BY <1>1, InvariantHolds, PTL DEF Spec, NothingOlderIsShown
=============================================================================
