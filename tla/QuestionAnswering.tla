------------------------- MODULE QuestionAnswering -------------------------
(***************************************************************************)
(* How main.py answers the questions of one request about one chunk list:  *)
(* each question waits for the request's semaphore, retrieves its context, *)
(* has an answer generated, and has the claims of that answer extracted    *)
(* and verified one by one, each against evidence retrieved for it.        *)
(*                                                                         *)
(* The vector search, the lexical search, the cross encoder and the        *)
(* language model may return anything of the right form, or raise.         *)
(***************************************************************************)
EXTENDS Integers, FiniteSets, Sequences, SequencesExt, Functions

CONSTANTS
    Question,
    Chunk,            \* the chunks of the list, by chunk_id
    Limit,            \* get_max_concurrent_questions()
    Mode,             \* the retrieval modes a process may be configured with
    KInitial,         \* get_retrieval_k_initial()
    KFinal,           \* get_retrieval_k_final()
    ClaimKFinal,      \* CLAIM_VERIFICATION_K_FINAL
    HybridE5K,        \* get_hybrid_e5_k_initial()
    HybridBm25K,      \* get_hybrid_bm25_k_initial()
    HybridKFinal,     \* get_hybrid_k_final()
    Score,            \* scores of the cross encoder
    MaxClaims,        \* MAX_CLAIMS_PER_ANSWER
    Claim,            \* claim texts, up to white space and bullets
    Fold(_),          \* casefold() of a claim text
    ClaimList,        \* what the model, or splitting the answer, may list
    ChunkIds,         \* the use_chunk_ids lists the model may return
    None

ASSUME AnsweringAssumption ==
    /\ IsFiniteSet(Question) /\ IsFiniteSet(Chunk)
    /\ {Limit, MaxClaims} \subseteq Nat
    /\ {KInitial, KFinal, ClaimKFinal, HybridE5K, HybridBm25K, HybridKFinal} \subseteq Nat
    /\ Limit # 0
    /\ Mode \subseteq {"faiss_reranker", "e5_bm25_reranker"}
    /\ Score \subseteq Int
    /\ \A list \in ClaimList \cup ChunkIds : list \in Seq(ToSet(list))
    /\ None \notin {"ok", "no_context", "error"}

VARIABLES
    task,             \* task[q]: how far question q is
    mode,
    answered          \* the response is sent

vars == <<task, mode, answered>>

Stage == {"waiting", "retrieve", "generate", "extract", "verify", "judge", "finished"}
Running == Stage \ {"waiting", "finished"}

(***************************************************************************)
(* retrieved is there from a retrieval until the model is asked with it,   *)
(* for an answer ("generate") or about a claim ("judge").  context is      *)
(* history: the chunks the model had before it when it gave the answer.    *)
(***************************************************************************)
Waiting == [stage |-> "waiting", retrieved |-> None, context |-> {}, sources |-> <<>>,
            informative |-> FALSE, claims |-> <<>>, verified |-> <<>>, status |-> None]

Init ==
    /\ task = [q \in Question |-> Waiting]
    /\ mode \in Mode
    /\ answered = FALSE

Put(q, t) == task' = [task EXCEPT ![q] = t]

NoLimit == Cardinality(Question)

Slots == Limit

HeldAfterErrors ==
    {q \in Question : task[q].stage \in Running \/ task[q].status = "error"}

(***************************************************************************)
(* The questions inside `async with semaphore`.                            *)
(***************************************************************************)
Held == {q \in Question : task[q].stage \in Running}

Enter(q) ==
    /\ task[q].stage = "waiting"
    /\ Cardinality(Held) < Slots
    /\ Put(q, [task[q] EXCEPT !.stage = "retrieve"])
    /\ UNCHANGED <<mode, answered>>

-----------------------------------------------------------------------------
Rankings(k) == {s \in SeqOf(Chunk, k) : IsInjective(s)}

(***************************************************************************)
(* The items of s at the positions I, as `precedes` orders the positions.  *)
(***************************************************************************)
Place(I, precedes, i) == 1 + Cardinality({j \in I : <<j, i>> \in precedes})

Arranged(s, I, precedes) ==
    [n \in 1..Cardinality(I) |-> s[CHOOSE i \in I : Place(I, precedes, i) = n]]

Picked(s, I) == Arranged(s, I, {p \in I \X I : p[1] < p[2]})

Smaller(m, n) == IF m < n THEN m ELSE n

FirstOf(s, k) == [n \in 1..Smaller(Len(s), k) |-> s[n]]

(***************************************************************************)
(* merged_by_chunk_id: what the vector search found, then what only the    *)
(* lexical search found.                                                   *)
(***************************************************************************)
Merged(e5, bm25) == e5 \o Picked(bm25, {i \in DOMAIN bm25 : bm25[i] \notin ToSet(e5)})

LaterOfEquals(s, score, i, j) ==
    score[s[i]] > score[s[j]] \/ (score[s[i]] = score[s[j]] /\ i > j)

Before(s, score, i, j) ==
    score[s[i]] > score[s[j]] \/ (score[s[i]] = score[s[j]] /\ i < j)

(***************************************************************************)
(* The first k of a stable sort by descending score.                       *)
(***************************************************************************)
Best(s, score, k) ==
    LET I == DOMAIN s
    IN  FirstOf(Arranged(s, I, {p \in I \X I : Before(s, score, p[1], p[2])}), k)

(***************************************************************************)
(* A retrieval: what either search found, the scores of it, and the chunks *)
(* that are kept.                                                          *)
(***************************************************************************)
Retrieval(e5, bm25, k) ==
    {[e5 |-> e5, bm25 |-> bm25, score |-> score, chunks |-> Best(Merged(e5, bm25), score, k)] :
        score \in [ToSet(Merged(e5, bm25)) -> Score]}

Dense(k) == UNION {Retrieval(e5, <<>>, k) : e5 \in Rankings(KInitial)}

Hybrid ==
    UNION {Retrieval(e5, bm25, HybridKFinal) :
             e5 \in Rankings(HybridE5K), bm25 \in Rankings(HybridBm25K)}

DenseForQuestion == Dense(KFinal)
DenseForClaim == Dense(Smaller(KFinal, ClaimKFinal))

(***************************************************************************)
(* retrieve_context: the hybrid branch has its own number of chunks, for   *)
(* questions and claims alike.                                             *)
(***************************************************************************)
ByMode(dense, hybrid) == IF mode = "e5_bm25_reranker" THEN hybrid ELSE dense

ForQuestion == ByMode(DenseForQuestion, Hybrid)
ForClaim == ByMode(DenseForClaim, Hybrid)

(***************************************************************************)
(* _deduplicate_strings: the first of the texts that fold to the same, no  *)
(* more than the limit.                                                    *)
(***************************************************************************)
Kept(items, i) ==
    /\ items[i] \in Claim
    /\ \A j \in 1..(i - 1) : items[j] \in Claim => Fold(items[j]) # Fold(items[i])

Deduplicated(items) ==
    FirstOf(Picked(items, {i \in DOMAIN items : Kept(items, i)}), MaxClaims)

ClaimLists == {Deduplicated(items) : items \in ClaimList}

NamedAnywhere(ids, evidence) ==
    Picked(ids, {i \in DOMAIN ids : /\ ids[i] \in Chunk
                                    /\ \A j \in 1..(i - 1) : ids[j] # ids[i]})

(***************************************************************************)
(* The chunk_ids the model named that are in the evidence, once each.      *)
(***************************************************************************)
NamedChunks(ids, evidence) ==
    Picked(ids, {i \in DOMAIN ids : /\ ids[i] \in ToSet(evidence)
                                    /\ \A j \in 1..(i - 1) : ids[j] # ids[i]})

(***************************************************************************)
(* The sources of a verification: none when a call raises, the answer is   *)
(* not JSON or it names no verdict.                                        *)
(***************************************************************************)
Citations(evidence) == {<<>>} \cup {NamedChunks(ids, evidence) : ids \in ChunkIds}

(***************************************************************************)
(* A verification, without its verdict and rationale.  evidence is         *)
(* history: the chunks that were retrieved for the claim.                  *)
(***************************************************************************)
Verified(claim, evidence, sources) ==
    [claim |-> claim, evidence |-> evidence, sources |-> sources]

-----------------------------------------------------------------------------
Ended(t, status) ==
    [t EXCEPT !.stage = "finished", !.retrieved = None, !.informative = FALSE,
              !.claims = <<>>, !.status = status]

(***************************************************************************)
(* Whatever raises before there is an answer makes the question an error.  *)
(***************************************************************************)
FinishWithout(q, status) == Put(q, Ended(Waiting, status))

Retrieve(q) ==
    /\ task[q].stage = "retrieve"
    /\ \/ \E r \in ForQuestion :
            Put(q, [task[q] EXCEPT !.stage = "generate", !.retrieved = r, !.sources = r.chunks])
       \/ FinishWithout(q, "error")
    /\ UNCHANGED <<mode, answered>>

(***************************************************************************)
(* An answer of "not found" is an answer, with its sources.                *)
(***************************************************************************)
GenerateAnswer(q) ==
    \/ \E informative \in BOOLEAN :
         Put(q, [task[q] EXCEPT !.stage = "extract", !.retrieved = None,
                                !.context = ToSet(task[q].retrieved.chunks),
                                !.informative = informative])
    \/ FinishWithout(q, "error")

Generate(q) ==
    /\ task[q].stage = "generate"
    /\ IF task[q].retrieved.chunks = <<>> THEN FinishWithout(q, "no_context")
       ELSE GenerateAnswer(q)
    /\ UNCHANGED <<mode, answered>>

(***************************************************************************)
(* Claims come from the model's JSON or, when the call or the parsing      *)
(* fails, from the sentences of the answer.                                *)
(***************************************************************************)
ExtractClaims(q) ==
    /\ task[q].stage = "extract"
    /\ \E claims \in IF task[q].informative THEN ClaimLists ELSE {<<>>} :
         IF claims = <<>> THEN Put(q, Ended(task[q], "ok"))
         ELSE Put(q, [task[q] EXCEPT !.stage = "verify", !.claims = claims])
    /\ UNCHANGED <<mode, answered>>

(***************************************************************************)
(* The loop over the claims, whatever came of the one before.              *)
(***************************************************************************)
AppendVerification(q, item) ==
    LET t == [task[q] EXCEPT !.stage = "verify", !.retrieved = None,
                             !.claims = Tail(@), !.verified = Append(@, item)]
    IN  Put(q, IF t.claims = <<>> THEN Ended(t, "ok") ELSE t)

RetrieveEvidence(q) ==
    /\ task[q].stage = "verify"
    /\ \/ \E r \in ForClaim : Put(q, [task[q] EXCEPT !.stage = "judge", !.retrieved = r])
       \/ AppendVerification(q, Verified(Head(task[q].claims), {}, <<>>))
    /\ UNCHANGED <<mode, answered>>

(***************************************************************************)
(* A claim without evidence is not put to the model; it has no sources     *)
(* either.                                                                 *)
(***************************************************************************)
JudgeClaim(q) ==
    /\ task[q].stage = "judge"
    /\ LET evidence == task[q].retrieved.chunks
       IN  \E sources \in Citations(evidence) :
             AppendVerification(q, Verified(Head(task[q].claims), ToSet(evidence), sources))
    /\ UNCHANGED <<mode, answered>>

(***************************************************************************)
(* asyncio.gather: the response has an answer to every question.           *)
(***************************************************************************)
Respond ==
    /\ ~ answered
    /\ \A q \in Question : task[q].stage = "finished"
    /\ answered' = TRUE
    /\ UNCHANGED <<task, mode>>

Step(q) ==
    \/ Enter(q) \/ Retrieve(q) \/ Generate(q)
    \/ ExtractClaims(q) \/ RetrieveEvidence(q) \/ JudgeClaim(q)

Next == Respond \/ \E q \in Question : Step(q)

(***************************************************************************)
(* Every call out of the process has a timeout, the executor runs what it  *)
(* is given, and the semaphore wakes its waiters in turn.                  *)
(***************************************************************************)
Fairness == WF_vars(Respond) /\ \A q \in Question : WF_vars(Step(q))

Spec == Init /\ [][Next]_vars /\ Fairness

-----------------------------------------------------------------------------
QuestionLimit == ByMode(KFinal, HybridKFinal)
ClaimLimit == ByMode(Smaller(KFinal, ClaimKFinal), HybridKFinal)

Item == [claim: Claim, evidence: SUBSET Chunk, sources: Seq(Chunk)]

(***************************************************************************)
(* The types, and the bound on the questions of a request at work at once. *)
(***************************************************************************)
AnsweringTypeOK ==
    /\ task \in [Question ->
          [stage: Stage, retrieved: ForQuestion \cup ForClaim \cup {None},
           context: SUBSET Chunk, sources: Seq(Chunk), informative: BOOLEAN,
           claims: Seq(Claim), verified: Seq(Item),
           status: {"ok", "no_context", "error", None}]]
    /\ Cardinality(Held) <= Limit
    /\ mode \in Mode
    /\ answered \in BOOLEAN

(***************************************************************************)
(* Whatever the model says, an answer cites each chunk that was put before *)
(* the model for it, and a verified claim cites, each once, only chunks    *)
(* that were retrieved as evidence for this very claim, within their       *)
(* limit.  Only an answer has citations, and no claim is verified twice.   *)
(***************************************************************************)
GroundedCitations ==
    \A q \in Question :
        task[q].stage = "finished" =>
            /\ (task[q].status = "ok") = (task[q].sources # <<>>)
            /\ task[q].verified # <<>> => task[q].status = "ok"
            /\ IsInjective(task[q].sources) /\ ToSet(task[q].sources) = task[q].context
            /\ IsInjective([i \in DOMAIN task[q].verified |->
                              Fold(task[q].verified[i].claim)])
            /\ \A item \in ToSet(task[q].verified) :
                 /\ IsInjective(item.sources)
                 /\ ToSet(item.sources) \subseteq item.evidence
                 /\ Cardinality(item.evidence) <= ClaimLimit

(***************************************************************************)
(* Which of two chunks was found first: the vector search comes before the *)
(* lexical search.                                                         *)
(***************************************************************************)
Earlier(s, c, d) == \E i, j \in DOMAIN s : s[i] = c /\ s[j] = d /\ i < j

FoundFirst(r, c, d) ==
    IF c \in ToSet(r.e5) THEN d \notin ToSet(r.e5) \/ Earlier(r.e5, c, d)
    ELSE d \notin ToSet(r.e5) /\ Earlier(r.bm25, c, d)

Better(r, c, d) ==
    r.score[c] > r.score[d] \/ (r.score[c] = r.score[d] /\ FoundFirst(r, c, d))

KeepsBest(r, k) ==
    LET found == ToSet(r.e5) \cup ToSet(r.bm25)
    IN  /\ Len(r.chunks) = Smaller(Cardinality(found), k)
        /\ \A i \in DOMAIN r.chunks :
             /\ r.chunks[i] \in found
             /\ {c \in found : Better(r, c, r.chunks[i])} = {r.chunks[j] : j \in 1..(i - 1)}

(***************************************************************************)
(* Whenever the model is about to be asked, it has before it the best of   *)
(* everything either search found, as many as the limit of the mode and    *)
(* the kind of question allows or all there are: every chunk once, ahead   *)
(* of it exactly those that score higher, or as high and were found first. *)
(***************************************************************************)
RetrievalKeepsBest ==
    \A q \in Question :
        /\ task[q].stage = "generate" => KeepsBest(task[q].retrieved, QuestionLimit)
        /\ task[q].stage = "judge" => KeepsBest(task[q].retrieved, ClaimLimit)

(***************************************************************************)
(* Every request is answered, however many of its questions fail and at    *)
(* whatever step: the semaphore is given back on every path.               *)
(***************************************************************************)
BatchAnswered == <>answered
=============================================================================
