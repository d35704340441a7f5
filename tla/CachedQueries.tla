--------------------------- MODULE CachedQueries ---------------------------
(***************************************************************************)
(* The two query routes that go through the document cache: POST           *)
(* /hackrx/run, which reads its PDF from a URL, and POST                   *)
(* /documents/{id}/queries, which reads a ready document from MySQL        *)
(* (main.py, persistence/ingestion.py, persistence/query_history.py).      *)
(*                                                                         *)
(* Requests interleave at their awaits, and a URL may change its content   *)
(* between them.  A chunk list is the object at an address: the lexical    *)
(* index of the hybrid mode is kept per address and length, for ever,      *)
(* while the address is used again once nothing references the list.       *)
(***************************************************************************)
EXTENDS DocumentCache, Sequences

CONSTANTS
    Request,
    Url,              \* the keys of URLs; the others are ready documents
    Address,
    MaxVersion,       \* bound on the contents a URL serves one after another
    Size(_, _),       \* chunks in a key's content of a version
    None

ASSUME QueryAssumption ==
    /\ Url \subseteq Key
    /\ MaxVersion \in Nat
    /\ [at: Address, key: Key, version: 0..MaxVersion] \subseteq List
    /\ \A k \in Key, v \in 0..MaxVersion : Size(k, v) \in Nat

VARIABLES
    frame,            \* frame[r]: the local variables of request r
    version,          \* version[k]: the content that k has now
    replaced,         \* replaced[k][v]: when version v of k was replaced
    rows,             \* rows[k]: versions in the documents rows stored for URL k
    bm25,             \* lexical indexes of model_cache, by address and length
    history           \* query rows written by background tasks

queryVars == <<frame, version, replaced, rows, bm25, history>>
vars == <<cacheVars, queryVars>>

Version == 0..MaxVersion
ChunkList == [at: Address, key: Key, version: Version]

Pc == {"idle", "load", "build", "find", "insert", "ask", "history", "done"}
Status == {"answered", "error"}
IdleFrame == [pc |-> "idle", key |-> None, stamp |-> 0, chunks |-> None,
              row |-> 0, ranked |-> None, status |-> None]

At(r, pc) == frame[r].pc = pc
Hold(r, f) == frame' = [frame EXCEPT ![r] = f]
Goto(r, pc) == Hold(r, [frame[r] EXCEPT !.pc = pc])

End(r) == Hold(r, [IdleFrame EXCEPT !.pc = "done"])

Init ==
    /\ CacheInit
    /\ frame = [r \in Request |-> IdleFrame]
    /\ version = [k \in Key |-> 0]
    /\ replaced = [k \in Key |-> [v \in Version |-> 0]]
    /\ rows = [k \in Url |-> <<>>]
    /\ bm25 = [i \in {} |-> None]
    /\ history = {}

Referenced == {cache[k].list : k \in DOMAIN cache}
                \cup ({frame[r].chunks : r \in Request} \ {None})

FreeAddresses == Address \ {list.at : list \in Referenced}

(***************************************************************************)
(* After the chunks are there: the URL route stores them as a document     *)
(* that has no vectors, the other asks its question at once.               *)
(***************************************************************************)
WithChunks(k) == IF k \in Url THEN "find" ELSE "ask"

Ask(r) ==
    /\ At(r, "idle")
    /\ \E k \in Key :
         /\ IF k \in Live(clock)
            THEN Hold(r, [IdleFrame EXCEPT !.pc = WithChunks(k), !.key = k,
                            !.stamp = clock, !.chunks = cache[k].list])
            ELSE Hold(r, [IdleFrame EXCEPT !.pc = "load", !.key = k, !.stamp = clock])
         /\ Touch(k, clock)
    /\ UNCHANGED <<clock, version, replaced, rows, bm25, history>>

Loaded(r) ==
    \E a \in FreeAddresses :
        Hold(r, [frame[r] EXCEPT
            !.pc = "build",
            !.chunks = [at |-> a, key |-> frame[r].key,
                        version |-> version[frame[r].key]]])

(***************************************************************************)
(* load_and_chunk_pdf: the content that the URL serves now, unless the     *)
(* download, its headers or the PDF are refused.                           *)
(***************************************************************************)
LoadUrl(r) == frame[r].key \in Url /\ (Loaded(r) \/ End(r))

(***************************************************************************)
(* load_owned_document_query_artifacts: the stored chunks and vectors of a *)
(* ready document, whose version never changes.  A document of another     *)
(* user, of another embedding model, or with damaged vectors is refused.   *)
(***************************************************************************)
LoadDocument(r) == frame[r].key \notin Url /\ (Loaded(r) \/ End(r))

Load(r) ==
    /\ At(r, "load")
    /\ LoadUrl(r) \/ LoadDocument(r)
    /\ UNCHANGED <<cacheVars, version, replaced, rows, bm25, history>>

StampedAtStore(r) == clock

(***************************************************************************)
(* The URL route stamps the entry with the time its request came in, the   *)
(* other with the time of the storing.                                     *)
(***************************************************************************)
Stamp(r) == IF frame[r].key \in Url THEN frame[r].stamp ELSE clock

(***************************************************************************)
(* The vectors are indexed on a thread and the entry is stored, whatever   *)
(* others have stored under the key meanwhile.                             *)
(***************************************************************************)
Build(r) ==
    /\ At(r, "build")
    /\ \/ /\ Store(frame[r].key, frame[r].chunks, Stamp(r))
          /\ Goto(r, WithChunks(frame[r].key))
       \/ End(r) /\ UNCHANGED cache
    /\ UNCHANGED <<clock, version, replaced, rows, bm25, history>>

(***************************************************************************)
(* persist_ingested_document_best_effort: the newest row of the URL, or a  *)
(* new one; no constraint keeps two requests from both inserting, and a    *)
(* failure only costs the request its history.                             *)
(***************************************************************************)
FindRow(r) ==
    /\ At(r, "find")
    /\ LET stored == rows[frame[r].key]
       IN  \/ /\ stored = <<>>
              /\ Goto(r, "insert")
           \/ /\ stored # <<>>
              /\ Hold(r, [frame[r] EXCEPT !.pc = "ask", !.row = Len(stored)])
           \/ Goto(r, "ask")
    /\ UNCHANGED <<cacheVars, version, replaced, rows, bm25, history>>

InsertRow(r) ==
    /\ At(r, "insert")
    /\ \/ /\ rows' = [rows EXCEPT ![frame[r].key] = Append(@, frame[r].chunks.version)]
          /\ Hold(r, [frame[r] EXCEPT !.pc = "ask", !.row = Len(rows[frame[r].key]) + 1])
       \/ Goto(r, "ask") /\ UNCHANGED rows
    /\ UNCHANGED <<cacheVars, version, replaced, bm25, history>>

SizeOf(list) == Size(list.key, list.version)

AddressOnly(list) == <<list.at, 0>>

Bm25Key(list) == <<list.at, SizeOf(list)>>

HasDocument(r) == frame[r].key \in Url => frame[r].row # 0

(***************************************************************************)
(* The response is sent, and the background task that writes the history   *)
(* of the question starts, if there is a document to write it on.          *)
(***************************************************************************)
Respond(r, status, index) ==
    IF HasDocument(r)
    THEN Hold(r, [frame[r] EXCEPT !.pc = "history", !.status = status, !.ranked = index])
    ELSE End(r)

(***************************************************************************)
(* retrieve_hybrid_context ranks with the index found under the list's     *)
(* address and length, or indexes the list and keeps the index.            *)
(***************************************************************************)
AnswerWith(r, index) ==
    /\ bm25' = [i \in DOMAIN bm25 \cup {Bm25Key(frame[r].chunks)} |->
                  IF i = Bm25Key(frame[r].chunks) THEN index ELSE bm25[i]]
    /\ Respond(r, "answered", index)

Answer(r) ==
    /\ At(r, "ask")
    /\ LET k == Bm25Key(frame[r].chunks)
       IN  AnswerWith(r, IF k \in DOMAIN bm25 THEN bm25[k] ELSE frame[r].chunks)
    /\ UNCHANGED <<cacheVars, version, replaced, rows, history>>

RespondsAnyway(r) == Respond(r, "error", None)

(***************************************************************************)
(* A question that could not be processed is an answer of the URL route,   *)
(* and a 503 of the other, whose background task is then dropped.          *)
(***************************************************************************)
RespondToError(r) ==
    IF frame[r].key \in Url THEN Respond(r, "error", None) ELSE End(r)

AskFails(r) ==
    /\ At(r, "ask")
    /\ RespondToError(r)
    /\ UNCHANGED <<cacheVars, version, replaced, rows, bm25, history>>

WriteHistory(r) ==
    /\ At(r, "history")
    /\ \/ history' = history \cup {[key |-> frame[r].key, row |-> frame[r].row,
                                    status |-> frame[r].status]}
       \/ UNCHANGED history
    /\ End(r)
    /\ UNCHANGED <<cacheVars, version, replaced, rows, bm25>>

Publish ==
    /\ \E k \in Url :
         /\ version[k] < MaxVersion
         /\ version' = [version EXCEPT ![k] = @ + 1]
         /\ replaced' = [replaced EXCEPT ![k][version[k]] = clock]
    /\ UNCHANGED <<cacheVars, frame, rows, bm25, history>>

Tick ==
    /\ clock < MaxTime
    /\ clock' = clock + 1
    /\ UNCHANGED <<cache, queryVars>>

(***************************************************************************)
(* GET /health drops the expired entries.                                  *)
(***************************************************************************)
HealthCheck ==
    /\ Sweep(clock)
    /\ UNCHANGED <<clock, queryVars>>

(***************************************************************************)
(* The process is replaced: requests under way and background tasks end.   *)
(***************************************************************************)
Restart ==
    /\ cache' = [k \in {} |-> {}]
    /\ bm25' = [i \in {} |-> None]
    /\ frame' = [r \in Request |->
                   IF frame[r].pc = "idle" THEN frame[r]
                   ELSE [IdleFrame EXCEPT !.pc = "done"]]
    /\ UNCHANGED <<clock, version, replaced, rows, history>>

RequestStep(r) ==
    \/ Ask(r) \/ Load(r) \/ Build(r) \/ FindRow(r) \/ InsertRow(r)
    \/ Answer(r) \/ AskFails(r) \/ WriteHistory(r)

Next ==
    \/ \E r \in Request : RequestStep(r)
    \/ Publish \/ Tick \/ HealthCheck \/ Restart

Spec == Init /\ [][Next]_vars

-----------------------------------------------------------------------------
Frame == [pc: Pc, key: Key \cup {None}, stamp: Time, chunks: ChunkList \cup {None},
          row: Nat, ranked: ChunkList \cup {None}, status: Status \cup {None}]

(***************************************************************************)
(* The types, and the bound on the cache: concurrent misses and late       *)
(* stores never leave more than MaxItems entries.                          *)
(***************************************************************************)
QueriesTypeOK ==
    /\ CacheTypeOK
    /\ Cardinality(DOMAIN cache) <= MaxItems
    /\ \A k \in DOMAIN cache : cache[k].list \in ChunkList /\ cache[k].list.key = k
    /\ frame \in [Request -> Frame]
    /\ version \in [Key -> Version]
    /\ replaced \in [Key -> [Version -> Time]]
    /\ rows \in [Url -> Seq(Version)]
    /\ bm25 \in [DOMAIN bm25 -> ChunkList]
    /\ DOMAIN bm25 \subseteq Address \X Nat
    /\ history \subseteq [key: Key, row: Nat, status: Status]

CurrentSince(k, v, time) == v = version[k] \/ replaced[k][v] >= time

(***************************************************************************)
(* The content a request works with was current at most TTL before the     *)
(* request came in: reads do not extend an entry's life, and neither does  *)
(* a slow load, nor a store that overtakes a newer one.                    *)
(***************************************************************************)
BoundedStaleness ==
    \A r \in Request :
        frame[r].chunks # None =>
            CurrentSince(frame[r].key, frame[r].chunks.version, frame[r].stamp - TTL)

(***************************************************************************)
(* Whatever list the lexical index in use was built from, it has as many   *)
(* entries as the list it ranks: chunks[index] never leaves the list.      *)
(***************************************************************************)
RankFits ==
    \A r \in Request :
        frame[r].ranked # None /\ frame[r].chunks # None =>
            SizeOf(frame[r].ranked) = SizeOf(frame[r].chunks)

(***************************************************************************)
(* The history of a ready document has no entry for a question its client  *)
(* got a 503 for, and that of a URL hangs on a row that is stored.         *)
(***************************************************************************)
HistoryWasAnswered ==
    \A h \in history :
        IF h.key \in Url THEN h.row \in DOMAIN rows[h.key] ELSE h.status = "answered"

(***************************************************************************)
(* Under pressure the cache keeps what was used last: when an entry leaves *)
(* that had not expired, every entry that stays as it was has been used    *)
(* since, although a slow load stores with a clock read long before.       *)
(***************************************************************************)
KeepsTheHottest ==
    [][\A out \in DOMAIN cache \ DOMAIN cache', stay \in DOMAIN cache \cap DOMAIN cache' :
          clock <= cache[out].created + TTL /\ cache'[stay] = cache[stay] =>
              cache[out].accessed <= cache[stay].accessed]_vars

(***************************************************************************)
(* Not an invariant.  A question is ranked with the index of its own       *)
(* chunks: but one kept for a list that is gone is found again under the   *)
(* address and length of a new one.                                        *)
(***************************************************************************)
RanksOwnChunks ==
    \A r \in Request :
        frame[r].ranked # None /\ frame[r].chunks # None =>
            frame[r].ranked = frame[r].chunks
=============================================================================
