--------------------------- MODULE DocumentStore ---------------------------
(***************************************************************************)
(* The durable state of a document: its row in the `documents` table, its  *)
(* chunks, and its source PDF in private object storage, with the short    *)
(* transactions of persistence/document_ingestion.py and                   *)
(* persistence/document_uploads.py written as functions of a row.  Each    *)
(* transaction locks the row (SELECT ... FOR UPDATE), so it is atomic.     *)
(*                                                                         *)
(* A PDF is a member of Content: equal contents have equal SHA-256 digests *)
(* (source_hash) and the parser accepts or rejects a content for good.     *)
(* `None` stands for SQL NULL, an absent object and an absent client UUID. *)
(***************************************************************************)
CONSTANTS
    Document,    \* document ids: the uuid4 values uploads may draw
    User,        \* owners, from the verified access token
    Content,     \* PDF contents
    Unreadable,  \* contents that parsing rejects with PdfContentError
    RequestId,   \* client-chosen upload_request_id UUIDs
    None

VARIABLES
    row,     \* row[d]: the documents row of id d, with its chunks
    object   \* object[d]: the bytes stored under documents/<d>/source.pdf

storeVars == <<row, object>>

Status == {"absent", "queued", "processing", "ready", "failed"}
Terminal == {"ready", "failed"}
FailureCause == {"content", "size", "exhausted"}

ASSUME StoreAssumption ==
    /\ Unreadable \subseteq Content
    /\ None \notin Content \cup RequestId \cup Document \cup User \cup FailureCause

(***************************************************************************)
(* `chunks` is the content the committed chunks were computed from.        *)
(***************************************************************************)
Row == [status: Status, user: User \cup {None}, content: Content \cup {None},
        requestId: RequestId \cup {None}, error: FailureCause \cup {None},
        chunks: Content \cup {None}]

NoRow == [status |-> "absent", user |-> None, content |-> None,
          requestId |-> None, error |-> None, chunks |-> None]

QueuedRow(user, content, requestId) ==
    [status |-> "queued", user |-> user, content |-> content,
     requestId |-> requestId, error |-> None, chunks |-> None]

StoreInit ==
    /\ row = [d \in Document |-> NoRow]
    /\ object = [d \in Document |-> None]

Exists(d) == row[d].status # "absent"

(***************************************************************************)
(* The object store: a put replaces the object whole, a get finds it or    *)
(* nothing, and a delete of nothing succeeds.                              *)
(***************************************************************************)
PutObject(d, bytes) == object' = [object EXCEPT ![d] = bytes]

GetObject(d) == object[d]

DeleteObject(d) == object' = [object EXCEPT ![d] = None]

(***************************************************************************)
(* The row transactions of persistence/document_ingestion.py.              *)
(***************************************************************************)
StartForgetsFailed(r) ==
    IF r.status = "ready" THEN r
    ELSE [r EXCEPT !.status = "processing", !.error = None]

StartIngestion(r) ==
    IF r.status \in Terminal THEN r
    ELSE [r EXCEPT !.status = "processing", !.error = None]

MarkFailedUnsanitized(r, cause) ==
    IF r.status = "ready" THEN r
    ELSE [r EXCEPT !.status = "failed", !.error = "exception text"]

MarkFailedBlindly(r, cause) == [r EXCEPT !.status = "failed", !.error = cause]

MarkFailed(r, cause) ==
    IF r.status = "ready" THEN r
    ELSE [r EXCEPT !.status = "failed", !.error = cause]

QueueAlsoFailed(r) ==
    IF r.status \in {"processing", "failed"}
    THEN [r EXCEPT !.status = "queued", !.error = None]
    ELSE r

MarkQueuedForRetry(r) ==
    IF r.status = "processing"
    THEN [r EXCEPT !.status = "queued", !.error = None]
    ELSE r

ReadyBeforeChunks(r, content) ==
    IF r.status = "ready" THEN r
    ELSE [r EXCEPT !.status = "ready", !.error = None]

(***************************************************************************)
(* Delete-and-insert of the chunks commits together with `ready`; only an  *)
(* already-ready winner is preserved, so a failed or requeued row is       *)
(* superseded.                                                             *)
(***************************************************************************)
PersistArtifacts(r, content) ==
    IF r.status = "ready" THEN r
    ELSE [r EXCEPT !.status = "ready", !.error = None, !.chunks = content]

(***************************************************************************)
(* The queries of persistence/document_uploads.py.                         *)
(***************************************************************************)
RequestMatches(user, requestId) ==
    {d \in Document : /\ Exists(d)
                      /\ row[d].user = user
                      /\ row[d].requestId = requestId}

Active(d) == row[d].status \in {"queued", "processing"}

UsableDuplicates(user, content) ==
    {d \in Document : /\ Active(d) \/ row[d].status = "ready"
                      /\ row[d].user = user
                      /\ row[d].content = content}

(***************************************************************************)
(* The duplicate the 409 answer names: an active match before a ready one; *)
(* the newest of each class, whose creation time is not modelled.          *)
(***************************************************************************)
PreferredDuplicates(user, content) ==
    LET matches == UsableDuplicates(user, content)
        active == {d \in matches : Active(d)}
    IN  IF active # {} THEN active ELSE matches
=============================================================================
