SPECIFICATION Spec
CONSTANTS
    Question <- MCQuestion
    Chunk <- MCChunk
    Limit = 1
    Mode = {"faiss_reranker", "e5_bm25_reranker"}
    KInitial = 2
    KFinal = 2
    ClaimKFinal = 1
    HybridE5K = 1
    HybridBm25K = 1
    HybridKFinal = 2
    Score = {0, 1}
    MaxClaims = 2
    Claim <- MCClaim
    Fold <- MCFold
    ClaimList <- MCClaimList
    ChunkIds <- MCChunkIds
    None = None
    q1 = q1
    q2 = q2
    x = x
    xUpper = xUpper
    y = y
    blank = blank
    unknown = unknown
CHECK_DEADLOCK FALSE
INVARIANTS
    AnsweringTypeOK
    GroundedCitations
    RetrievalKeepsBest
PROPERTY
    BatchAnswered
