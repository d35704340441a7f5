--------------------------- MODULE UploadWorkflow --------------------------
(***************************************************************************)
(* The query view of App.jsx and api/documentWorkflow.js: the user picks a *)
(* file, uploads it, decides about a duplicate, watches its status and     *)
(* asks questions, while answers to what was sent before are on their way, *)
(* arrive late, or are lost.                                               *)
(*                                                                         *)
(* The form sends one thing at a time (isSubmitting), but the file input   *)
(* and the mode switch stay usable meanwhile: they increment the upload    *)
(* generation, modelled as a mark on the call whose generation is over.    *)
(* The server is here as POST /documents/upload and the worker leave it:   *)
(* uploads recovered by UUID, refused as duplicates, or stored.            *)
(***************************************************************************)
EXTENDS Naturals, FiniteSets

CONSTANTS
    File,             \* contents of PDFs
    MaxUuid,          \* bound on UUIDs made by the browser
    MaxPicks,         \* bound on files picked and forms cleared
    MaxMoves,         \* bound on the transactions of the worker on a document
    MaxPolls,         \* bound on status requests under way, the cancelled too
    None

VARIABLES
    ui,               \* the state of AuthenticatedApp
    call,             \* what was submitted and not yet answered
    polls,            \* status requests under way
    server,           \* server[d]: document d, where d is the UUID it came with
    attempt,          \* counts what ends the upload attempt of a file
    uuids,            \* UUIDs made
    picks

vars == <<ui, call, polls, server, attempt, uuids, picks>>

Document == 1..MaxUuid
Status == {"queued", "processing", "ready", "failed"}
Unfinished == {"queued", "processing"}

(***************************************************************************)
(* revision is history: how often the worker had changed the row when the  *)
(* status was read.  No code keeps it, and no guard but Work's bound and   *)
(* no dependency of the effect looks at it.                                *)
(***************************************************************************)
Shown == [document: Document, status: Status, revision: Nat]
Stored == [file: File, status: Status, attempt: Nat, revision: Nat]

ASSUME WorkflowAssumption ==
    /\ {MaxUuid, MaxPicks, MaxMoves, MaxPolls} \subseteq Nat
    /\ None \notin Document \cup Shown \cup Stored

InitUi == [mode |-> "upload", selected |-> None, uploaded |-> None, duplicate |-> None,
           pollingError |-> FALSE, pending |-> None, answers |-> {}, submitting |-> FALSE]

Init ==
    /\ ui = InitUi
    /\ call = None
    /\ polls = {}
    /\ server = [d \in Document |-> None]
    /\ attempt = 1
    /\ uuids = 0
    /\ picks = 0

-----------------------------------------------------------------------------
UploadReady == ui.uploaded # None /\ ui.uploaded.status = "ready"
Processing(u) == u.uploaded # None /\ u.uploaded.status \in Unfinished

Polling(u) == u.mode = "upload" /\ Processing(u) /\ ~ u.pollingError

(***************************************************************************)
(* The effect that polls is torn down when one of its dependencies         *)
(* changes: its request is aborted, or ignored if it was just answered.    *)
(***************************************************************************)
Dependencies(u) ==
    <<u.mode, u.pollingError,
      {<<shown.document, shown.status>> : shown \in {u.uploaded} \ {None}}>>

Show(u, requests) ==
    /\ ui' = u
    /\ polls' = IF Dependencies(u) = Dependencies(ui) THEN requests
                ELSE {[p EXCEPT !.cancelled = TRUE] : p \in {p \in requests : p.answer # None}}

Render(u) == Show(u, polls)

NextGenerationMissed == UNCHANGED call

(***************************************************************************)
(* uploadGenerationRef.current += 1                                        *)
(***************************************************************************)
NextGeneration ==
    call' = IF call = None THEN None ELSE [call EXCEPT !.stale = TRUE]

(***************************************************************************)
(* handleFileChange: what is not a PDF leaves no file selected.            *)
(***************************************************************************)
PickFile ==
    /\ picks < MaxPicks
    /\ picks' = picks + 1
    /\ \E f \in File \cup {None} :
         Render([ui EXCEPT !.selected = f, !.uploaded = None, !.duplicate = None,
                           !.pollingError = FALSE, !.pending = None, !.answers = {}])
    /\ NextGeneration
    /\ attempt' = attempt + 1
    /\ UNCHANGED <<server, uuids>>

(***************************************************************************)
(* handleModeChange keeps the document, the answers and the UUID.          *)
(***************************************************************************)
ChangeMode ==
    /\ \E m \in {"upload", "url"} : Render([ui EXCEPT !.mode = m])
    /\ NextGeneration
    /\ UNCHANGED <<server, attempt, uuids, picks>>

(***************************************************************************)
(* handleReset: Clear is disabled while something is being submitted.      *)
(***************************************************************************)
Reset ==
    /\ ~ ui.submitting
    /\ picks < MaxPicks
    /\ picks' = picks + 1
    /\ Render(InitUi)
    /\ NextGeneration
    /\ attempt' = attempt + 1
    /\ UNCHANGED <<server, uuids>>

-----------------------------------------------------------------------------
Send(kind, id, allow, u) ==
    /\ call' = [kind |-> kind, id |-> id, file |-> ui.selected, allow |-> allow,
                attempt |-> attempt, stale |-> FALSE, answer |-> None]
    /\ Render([u EXCEPT !.submitting = TRUE])
    /\ UNCHANGED <<server, attempt, picks>>

NewUuidEachTime == uuids + 1

(***************************************************************************)
(* submitUpload sends the UUID of the file's attempt again, if there is    *)
(* one.                                                                    *)
(***************************************************************************)
UploadUuid == IF ui.pending # None THEN ui.pending ELSE uuids + 1

SubmitUpload(allow, u) ==
    /\ UploadUuid <= MaxUuid
    /\ uuids' = IF UploadUuid > uuids THEN UploadUuid ELSE uuids
    /\ Send("upload", UploadUuid, allow, [u EXCEPT !.pending = UploadUuid])

(***************************************************************************)
(* handleSubmit and validateForm, for a file.                              *)
(***************************************************************************)
Upload ==
    /\ ui.mode = "upload"
    /\ ~ ui.submitting
    /\ ~ UploadReady /\ ui.duplicate = None /\ ~ Processing(ui) /\ ui.selected # None
    /\ SubmitUpload(FALSE, [ui EXCEPT !.answers = {}])

UploadAgain ==
    /\ ui.mode = "upload"
    /\ ui.duplicate # None
    /\ ~ ui.submitting
    /\ SubmitUpload(TRUE, ui)

(***************************************************************************)
(* The duplicate choice disables the submit button also when the document  *)
(* is ready.                                                               *)
(***************************************************************************)
AskDocument ==
    /\ ui.mode = "upload"
    /\ ~ ui.submitting
    /\ UploadReady /\ ui.duplicate = None
    /\ Send("query", ui.uploaded.document, FALSE, ui)
    /\ UNCHANGED uuids

AskUrl ==
    /\ ui.mode = "url"
    /\ ~ ui.submitting
    /\ Send("url", None, FALSE, [ui EXCEPT !.answers = {}])
    /\ UNCHANGED uuids

OpenExisting ==
    /\ ui.mode = "upload"
    /\ ui.duplicate # None
    /\ ~ ui.submitting
    /\ Render([ui EXCEPT !.uploaded = ui.duplicate, !.duplicate = None,
                         !.pollingError = FALSE, !.pending = None])
    /\ attempt' = attempt + 1
    /\ UNCHANGED <<call, server, uuids, picks>>

-----------------------------------------------------------------------------
Current(d) == [document |-> d, status |-> server[d].status, revision |-> server[d].revision]

Answered(kind, shown) ==
    call' = [call EXCEPT !.answer = [kind |-> kind, shown |-> shown]]

Duplicates ==
    {d \in Document : server[d] # None /\ server[d].file = call.file
                        /\ server[d].status # "failed"}

(***************************************************************************)
(* create_document_upload: recovered by its UUID, refused for one of the   *)
(* documents with the same bytes, or stored.                               *)
(***************************************************************************)
ServeUpload ==
    IF call.file = None THEN UNCHANGED server /\ Answered("error", None)
    ELSE IF server[call.id] # None
    THEN UNCHANGED server /\ Answered("document", Current(call.id))
    ELSE IF ~ call.allow /\ Duplicates # {}
    THEN UNCHANGED server /\ \E d \in Duplicates : Answered("duplicate", Current(d))
    ELSE /\ server' = [server EXCEPT ![call.id] =
               [file |-> call.file, status |-> "queued", attempt |-> call.attempt,
                revision |-> 0]]
         /\ Answered("document", [document |-> call.id, status |-> "queued", revision |-> 0])

Serve ==
    /\ call # None
    /\ call.answer = None
    /\ IF call.kind = "upload" THEN ServeUpload
       ELSE UNCHANGED server /\ Answered("answers", None)
    /\ UNCHANGED <<ui, polls, attempt, uuids, picks>>

(***************************************************************************)
(* The worker's transactions: an attempt starts, is taken back for a       *)
(* retry, fails or succeeds.  Attempts overlap, so what has failed may     *)
(* still become ready; only that is final.                                 *)
(***************************************************************************)
Moves ==
    {<<"queued", "processing">>, <<"processing", "queued">>}
      \cup (Unfinished \X {"failed"}) \cup ((Status \ {"ready"}) \X {"ready"})

Work ==
    /\ \E d \in Document, s \in Status :
         /\ server[d] # None
         /\ server[d].revision < MaxMoves
         /\ <<server[d].status, s>> \in Moves
         /\ server' = [server EXCEPT ![d].status = s, ![d].revision = @ + 1]
    /\ UNCHANGED <<ui, call, polls, attempt, uuids, picks>>

(***************************************************************************)
(* An answer arrives.  Success is dropped when the generation is over; a   *)
(* duplicate is shown in any case.                                         *)
(***************************************************************************)
AnswerStored ==
    IF call.stale THEN Render([ui EXCEPT !.submitting = FALSE]) /\ UNCHANGED attempt
    ELSE /\ Render([ui EXCEPT !.submitting = FALSE, !.uploaded = call.answer.shown,
                              !.duplicate = None, !.pollingError = FALSE, !.pending = None])
         /\ attempt' = attempt + 1

Arrive ==
    /\ call # None
    /\ call.answer # None
    /\ \/ call.answer.kind = "document" /\ AnswerStored
       \/ /\ call.answer.kind = "duplicate"
          /\ Render([ui EXCEPT !.submitting = FALSE, !.duplicate = call.answer.shown])
          /\ UNCHANGED attempt
       \/ /\ call.answer.kind = "error"
          /\ Render([ui EXCEPT !.submitting = FALSE])
          /\ UNCHANGED attempt
       \/ /\ call.answer.kind = "answers"
          /\ Render([ui EXCEPT !.submitting = FALSE,
                       !.answers = IF call.kind = "url" THEN {None}
                                   ELSE IF call.stale THEN @ ELSE @ \cup {call.id}])
          /\ UNCHANGED attempt
    /\ call' = None
    /\ UNCHANGED <<server, uuids, picks>>

(***************************************************************************)
(* The request fails before the server did anything, or its answer does    *)
(* not arrive: an error is shown, and the pending UUID stays.              *)
(***************************************************************************)
Lose ==
    /\ call # None
    /\ Render([ui EXCEPT !.submitting = FALSE])
    /\ call' = None
    /\ UNCHANGED <<server, attempt, uuids, picks>>

-----------------------------------------------------------------------------
DueWhileQueued == ui.uploaded.status = "queued" /\ \A p \in polls : p.cancelled

(***************************************************************************)
(* The timer is set by the effect, and again by each unfinished status.    *)
(***************************************************************************)
Due == \A p \in polls : p.cancelled

(***************************************************************************)
(* pollStatus: one request at a time.                                      *)
(***************************************************************************)
Poll ==
    /\ Polling(ui)
    /\ Due
    /\ Cardinality(polls) < MaxPolls
    /\ polls' = polls \cup
                  {[document |-> ui.uploaded.document, cancelled |-> FALSE, answer |-> None]}
    /\ UNCHANGED <<ui, call, server, attempt, uuids, picks>>

ServePoll ==
    /\ \E p \in polls :
         /\ p.answer = None
         /\ polls' = (polls \ {p}) \cup {[p EXCEPT !.answer = Current(p.document)]}
    /\ UNCHANGED <<ui, call, server, attempt, uuids, picks>>

AppliesAnyway(p) == TRUE

Applies(p) == ~ p.cancelled

PollArrives ==
    /\ \E p \in polls :
         /\ p.answer # None
         /\ Show(IF Applies(p) THEN [ui EXCEPT !.uploaded = p.answer] ELSE ui, polls \ {p})
    /\ UNCHANGED <<call, server, attempt, uuids, picks>>

PollFails ==
    /\ \E p \in polls :
         /\ ~ p.cancelled
         /\ Show([ui EXCEPT !.pollingError = TRUE], polls \ {p})
    /\ UNCHANGED <<call, server, attempt, uuids, picks>>

RetryStatus ==
    /\ ui.pollingError
    /\ ui.mode = "upload" /\ ui.uploaded # None
    /\ Render([ui EXCEPT !.pollingError = FALSE])
    /\ UNCHANGED <<call, server, attempt, uuids, picks>>

Next ==
    \/ PickFile \/ ChangeMode \/ Reset
    \/ Upload \/ UploadAgain \/ OpenExisting \/ AskDocument \/ AskUrl
    \/ Serve \/ Work \/ Arrive \/ Lose
    \/ Poll \/ ServePoll \/ PollArrives \/ PollFails \/ RetryStatus

(***************************************************************************)
(* Timers fire and requests end: fetch is answered or fails.               *)
(***************************************************************************)
Spec ==
    /\ Init /\ [][Next]_vars
    /\ WF_vars(Poll) /\ WF_vars(ServePoll) /\ WF_vars(PollArrives)

-----------------------------------------------------------------------------
(***************************************************************************)
(* However often its answer is lost or overtaken by a change of mode, one  *)
(* attempt to upload a file stores one document, with one UUID.            *)
(***************************************************************************)
RetriesStoreOnce ==
    \A d, e \in Document :
        server[d] # None /\ server[e] # None /\ server[d].attempt = server[e].attempt => d = e

(***************************************************************************)
(* Answers of a document are shown only with that document: an answer that *)
(* arrives after another file was picked does not appear under it.         *)
(***************************************************************************)
DocumentAnswersOwn ==
    \A a \in ui.answers :
        a # None => ui.uploaded # None /\ ui.uploaded.document = a

(***************************************************************************)
(* What is shown of a document is never replaced by something older, from  *)
(* whichever of its status requests, cancelled or not, an upload or a      *)
(* duplicate it comes.  The status itself may go back, from processing to  *)
(* queued before a retry or from failed to ready, but only because the     *)
(* server's did.                                                           *)
(***************************************************************************)
NothingOlderIsShown ==
    [][ui.uploaded # None /\ ui'.uploaded # None /\ ui.uploaded.document = ui'.uploaded.document
         => ui.uploaded.revision <= ui'.uploaded.revision]_vars

(***************************************************************************)
(* A document that is finished on the server is shown as finished, as long *)
(* as its user stays with it and no status request fails.                  *)
(***************************************************************************)
StatusIsShown ==
    \A d \in Document :
        (Polling(ui) /\ ui.uploaded.document = d /\ server[d].status \notin Unfinished)
            ~> (~ Polling(ui) \/ ui.uploaded.document # d)

(***************************************************************************)
(* Not an invariant.  The duplicate offered is a document with the bytes   *)
(* of the file that is selected: but handleSubmit shows the duplicate of   *)
(* an upload whose generation is over, beside the file picked since.       *)
(***************************************************************************)
DuplicateOfSelected ==
    ui.duplicate # None => server[ui.duplicate.document].file = ui.selected
=============================================================================
