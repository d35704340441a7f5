------------------------ MODULE CachedQueriesProofs ------------------------
(***************************************************************************)
(* Proofs about CachedQueries, for any keys, requests, addresses, sizes,   *)
(* capacity and lifetime.                                                  *)
(*                                                                         *)
(* The invariant says of every chunk list, where it is kept, since when    *)
(* its content may have been out of date: in the cache since the entry's   *)
(* stamp, in a request that loaded it since the request came in, and in a  *)
(* request that found it in the cache since TTL before that.               *)
(***************************************************************************)
EXTENDS CachedQueries, FiniteSetTheorems, TLAPS

Working(f) == f.pc \notin {"idle", "load", "done"}

FrameTyped(f) ==
    /\ f \in Frame
    /\ f.stamp <= clock
    /\ f.pc = "load" => f.key \in Key
    /\ f.pc \in {"find", "insert"} => f.key \in Url
    /\ Working(f) => f.key \in Key /\ f.chunks \in ChunkList /\ f.chunks.key = f.key
    /\ ~ Working(f) => f.chunks = None
    /\ f.pc # "history" => f.ranked = None

(***************************************************************************)
(* The content of a document that is not a URL never changes.              *)
(***************************************************************************)
Unchanging(k, v) == k \notin Url => v = version[k]

FrameCurrent(f) ==
    Working(f) =>
        /\ Unchanging(f.key, f.chunks.version)
        /\ CurrentSince(f.key, f.chunks.version, f.stamp - TTL)
        /\ f.pc = "build" => CurrentSince(f.key, f.chunks.version, f.stamp)

FrameRanked(f) == f.ranked # None /\ f.chunks # None => SizeOf(f.ranked) = SizeOf(f.chunks)

FrameRow(f) ==
    /\ f.key \in Url /\ f.row # 0 => f.row \in DOMAIN rows[f.key]
    /\ f.pc = "history" =>
         /\ f.status \in Status
         /\ IF f.key \in Url THEN f.row \in DOMAIN rows[f.key] ELSE f.status = "answered"

FrameInv(f) == FrameTyped(f) /\ FrameCurrent(f) /\ FrameRanked(f) /\ FrameRow(f)

EntryInv(k, e) ==
    /\ e \in Entry
    /\ e.list \in ChunkList
    /\ e.list.key = k
    /\ e.created <= clock
    /\ Unchanging(k, e.list.version)
    /\ CurrentSince(k, e.list.version, e.created)

CacheInv ==
    /\ DOMAIN cache \subseteq Key
    /\ cache \in [DOMAIN cache -> Entry]
    /\ Cardinality(DOMAIN cache) <= MaxItems
    /\ \A k \in DOMAIN cache : EntryInv(k, cache[k])

FramesInv ==
    /\ frame \in [Request -> Frame]
    /\ \A r \in Request : FrameInv(frame[r])

RestTyped ==
    /\ clock \in Time
    /\ version \in [Key -> Version]
    /\ replaced \in [Key -> [Version -> Time]]
    /\ rows \in [Url -> Seq(Version)]

IndexInv ==
    /\ bm25 \in [DOMAIN bm25 -> ChunkList]
    /\ DOMAIN bm25 \subseteq Address \X Nat
    /\ \A i \in DOMAIN bm25 : SizeOf(bm25[i]) = i[2]

HistoryInv ==
    /\ history \subseteq [key: Key, row: Nat, status: Status]
    /\ HistoryWasAnswered

IInv == RestTyped /\ CacheInv /\ FramesInv /\ IndexInv /\ HistoryInv

LEMMA IInvImplies ==
    IInv => QueriesTypeOK /\ BoundedStaleness /\ RankFits /\ HistoryWasAnswered
<1> SUFFICES ASSUME IInv PROVE QueriesTypeOK /\ BoundedStaleness /\ RankFits /\ HistoryWasAnswered
  OBVIOUS
<1>1. QueriesTypeOK
  BY DEF IInv, RestTyped, CacheInv, EntryInv, FramesInv, IndexInv, HistoryInv, QueriesTypeOK,
         CacheTypeOK
<1>2. BoundedStaleness
  BY DEF IInv, FramesInv, FrameInv, FrameTyped, FrameCurrent, Working, BoundedStaleness
<1>3. RankFits
  BY DEF IInv, FramesInv, FrameInv, FrameRanked, RankFits
<1>4. HistoryWasAnswered
  BY DEF IInv, HistoryInv
<1>5. QED
  BY <1>1, <1>2, <1>3, <1>4

LEMMA IdleFrameInv ==
    ASSUME RestTyped, NEW pc \in {"idle", "done"}
    PROVE  FrameInv([IdleFrame EXCEPT !.pc = pc])
<1> DEFINE f == [IdleFrame EXCEPT !.pc = pc]
<1>1. f = [pc |-> pc, key |-> None, stamp |-> 0, chunks |-> None,
           row |-> 0, ranked |-> None, status |-> None]
  BY DEF IdleFrame
<1>2. 0 \in Time /\ 0 <= clock
  BY CacheAssumption DEF RestTyped, Time
<1>3. f \in Frame
  BY <1>1, <1>2 DEF Frame, Pc
<1>4. FrameTyped(f) /\ FrameCurrent(f) /\ FrameRow(f)
  BY <1>1, <1>2, <1>3 DEF FrameTyped, FrameCurrent, FrameRow, Working
<1>5. FrameRanked(f)
  BY <1>1 DEF FrameRanked
<1>6. QED
  BY <1>4, <1>5 DEF FrameInv

LEMMA IdleFrameTyped ==
    ASSUME RestTyped
    PROVE  IdleFrame \in Frame
BY CacheAssumption DEF IdleFrame, Frame, Pc, RestTyped, Time

LEMMA InitInv == Init => IInv
<1> SUFFICES ASSUME Init PROVE IInv
  OBVIOUS
<1>1. RestTyped
  BY CacheAssumption, QueryAssumption DEF Init, CacheInit, RestTyped, Time, Version
<1>2. CacheInv
  <2>1. cache = [k \in {} |-> {}] /\ DOMAIN cache = {}
    BY DEF Init, CacheInit
  <2>2. Cardinality(DOMAIN cache) = 0
    BY <2>1, FS_EmptySet
  <2>3. QED
    BY <2>1, <2>2, CacheAssumption DEF CacheInv
<1>3. FramesInv
  <2>1. IdleFrame = [IdleFrame EXCEPT !.pc = "idle"]
    BY DEF IdleFrame
  <2>2. FrameInv(IdleFrame)
    BY <1>1, <2>1, IdleFrameInv
  <2>3. IdleFrame \in Frame
    BY <2>2 DEF FrameInv, FrameTyped
  <2>4. \A r \in Request : frame[r] = IdleFrame
    BY DEF Init
  <2>5. frame \in [Request -> Frame]
    BY <2>3 DEF Init
  <2>6. QED
    BY <2>2, <2>4, <2>5 DEF FramesInv
<1>4. IndexInv
  BY DEF Init, IndexInv
<1>5. HistoryInv
  BY DEF Init, HistoryInv, HistoryWasAnswered
<1>6. QED
  BY <1>1, <1>2, <1>3, <1>4, <1>5 DEF IInv

-----------------------------------------------------------------------------
(***************************************************************************)
(* What the operations of the cache keep.                                  *)
(***************************************************************************)
LEMMA CacheBecomes ==
    ASSUME NEW D \in SUBSET Key, NEW g \in [D -> Entry], cache' = g,
           Cardinality(D) <= MaxItems,
           \A k \in D : EntryInv(k, g[k]),
           UNCHANGED <<clock, version, replaced>>
    PROVE  CacheInv'
<1>1. DOMAIN cache' = D
  OBVIOUS
<1>2. \A k \in D : EntryInv(k, cache[k])'
  BY DEF EntryInv, Unchanging, CurrentSince
<1>3. QED
  BY <1>1, <1>2 DEF CacheInv

LEMMA FewKeys ==
    ASSUME CacheInv, NEW S \in SUBSET DOMAIN cache
    PROVE  /\ S \in SUBSET Key
           /\ IsFiniteSet(S)
           /\ Cardinality(S) \in Nat
           /\ Cardinality(S) <= MaxItems
<1>1. IsFiniteSet(DOMAIN cache)
  BY FS_Subset, CacheAssumption DEF CacheInv
<1>2. IsFiniteSet(S) /\ Cardinality(S) <= Cardinality(DOMAIN cache)
  BY <1>1, FS_Subset
<1>3. Cardinality(S) \in Nat /\ Cardinality(DOMAIN cache) \in Nat
  BY <1>1, <1>2, FS_CardinalityType
<1>4. QED
  BY <1>2, <1>3, CacheAssumption DEF CacheInv

LEMMA SweptCache ==
    ASSUME CacheInv, NEW now, Sweep(now), UNCHANGED <<clock, version, replaced>>
    PROVE  CacheInv'
<1>1. Live(now) \in SUBSET DOMAIN cache
  BY DEF Live
<1>2. Live(now) \in SUBSET Key /\ Cardinality(Live(now)) <= MaxItems
  BY <1>1, FewKeys
<1> DEFINE g == [k \in Live(now) |-> cache[k]]
<1>3. g \in [Live(now) -> Entry] /\ \A k \in Live(now) : EntryInv(k, g[k])
  BY <1>1 DEF CacheInv
<1>4. cache' = g
  BY DEF Sweep
<1>5. QED
  BY <1>2, <1>3, <1>4, CacheBecomes

LEMMA TouchedCache ==
    ASSUME RestTyped, CacheInv, NEW k, Touch(k, clock),
           UNCHANGED <<clock, version, replaced>>
    PROVE  CacheInv'
<1>1. Live(clock) \in SUBSET DOMAIN cache
  BY DEF Live
<1>2. Live(clock) \in SUBSET Key /\ Cardinality(Live(clock)) <= MaxItems
  BY <1>1, FewKeys
<1> DEFINE g == [j \in Live(clock) |->
                   IF j = k THEN [cache[j] EXCEPT !.accessed = clock] ELSE cache[j]]
<1>3. ASSUME NEW j \in Live(clock)
      PROVE  g[j] \in Entry /\ EntryInv(j, g[j])
  <2>1. cache[j] \in Entry /\ EntryInv(j, cache[j])
    BY <1>1, <1>3 DEF CacheInv
  <2> DEFINE e == [cache[j] EXCEPT !.accessed = clock]
  <2>2. e \in Entry /\ e.list = cache[j].list /\ e.created = cache[j].created
    BY <2>1 DEF Entry, RestTyped
  <2>3. EntryInv(j, e)
    BY <2>1, <2>2 DEF EntryInv
  <2>4. g[j] = e \/ g[j] = cache[j]
    OBVIOUS
  <2>5. QED
    BY <2>1, <2>2, <2>3, <2>4
<1>4. g \in [Live(clock) -> Entry] /\ \A j \in Live(clock) : EntryInv(j, g[j])
  BY <1>3
<1>5. cache' = g
  BY DEF Touch
<1>6. QED
  BY <1>2, <1>4, <1>5, CacheBecomes

LEMMA StoredCache ==
    ASSUME RestTyped, CacheInv,
           NEW k \in Key, NEW list \in ChunkList, NEW now \in Time,
           list.key = k, now <= clock,
           Unchanging(k, list.version), CurrentSince(k, list.version, now),
           Store(k, list, now),
           UNCHANGED <<clock, version, replaced>>
    PROVE  CacheInv'
<1> DEFINE e == [list |-> list, created |-> now, accessed |-> now]
<1>1. PICK S \in Staying(k, now) :
        cache' = [j \in S \cup {k} |-> IF j = k THEN e ELSE cache[j]]
  BY DEF Store
<1>2. S \in SUBSET Live(now) /\ Live(now) \in SUBSET DOMAIN cache
  BY DEF Staying, Live
<1>3. /\ S \in SUBSET Key /\ IsFiniteSet(S) /\ Cardinality(S) \in Nat
      /\ Cardinality(S) <= MaxItems
  BY <1>2, FewKeys
<1>4. Cardinality(S \cup {k}) <= MaxItems
  <2>1. CASE k \in Live(now)
    <3>1. S \cup {k} = S
      BY <2>1 DEF Staying
    <3>2. QED
      BY <3>1, <1>3
  <2>2. CASE k \notin Live(now)
    <3>1. Cardinality(S) <= MaxItems - 1
      BY <2>2 DEF Staying, Room
    <3>2. Cardinality(S \cup {k}) = Cardinality(S) + 1
      <4>1. k \notin S
        BY <2>2, <1>2
      <4>2. QED
        BY <4>1, <1>3, FS_AddElement
    <3>3. IsFiniteSet(S \cup {k}) /\ Cardinality(S \cup {k}) \in Nat
      BY <1>3, FS_AddElement, FS_CardinalityType
    <3>4. QED
      BY <3>1, <3>2, <3>3, <1>3, CacheAssumption
  <2>3. QED
    BY <2>1, <2>2
<1> DEFINE g == [j \in S \cup {k} |-> IF j = k THEN e ELSE cache[j]]
<1>5. e \in Entry
  BY QueryAssumption DEF Entry, ChunkList, Version
<1>6. EntryInv(k, e)
  BY <1>5 DEF EntryInv
<1>7. \A j \in S : cache[j] \in Entry /\ EntryInv(j, cache[j])
  BY <1>2 DEF CacheInv
<1>8. g \in [S \cup {k} -> Entry] /\ \A j \in S \cup {k} : EntryInv(j, g[j])
  BY <1>5, <1>6, <1>7
<1>9. S \cup {k} \in SUBSET Key /\ cache' = g
  BY <1>1, <1>3
<1>10. QED
  BY <1>4, <1>8, <1>9, CacheBecomes

-----------------------------------------------------------------------------
(***************************************************************************)
(* What each step makes of the frame of its request.                       *)
(***************************************************************************)
LEMMA HeldFrames ==
    ASSUME FramesInv, NEW r \in Request, NEW f, Hold(r, f), FrameInv(f),
           UNCHANGED <<clock, version, replaced, rows>>
    PROVE  FramesInv'
<1>1. frame' = [frame EXCEPT ![r] = f] /\ f \in Frame
  BY DEF Hold, FrameInv, FrameTyped
<1>2. frame' \in [Request -> Frame]
  BY <1>1 DEF FramesInv
<1>3. ASSUME NEW s \in Request
      PROVE  FrameInv(frame[s])'
  <2>1. FrameInv(frame'[s])
    BY <1>1 DEF FramesInv
  <2>2. QED
    BY <2>1 DEF FrameInv, FrameTyped, FrameCurrent, FrameRanked, FrameRow, Unchanging, CurrentSince
<1>4. QED
  BY <1>2, <1>3 DEF FramesInv

LEMMA EndFrames ==
    ASSUME RestTyped, FramesInv, NEW r \in Request, End(r),
           UNCHANGED <<clock, version, replaced, rows>>
    PROVE  FramesInv'
BY IdleFrameInv, HeldFrames DEF End

LEMMA OwnFrame ==
    ASSUME FramesInv, NEW r \in Request
    PROVE  /\ FrameInv(frame[r]) /\ frame[r] \in Frame
           /\ frame[r].stamp \in Time /\ frame[r].row \in Nat
BY DEF FramesInv, Frame

LEMMA AskFrames ==
    ASSUME RestTyped, CacheInv, FramesInv, NEW r \in Request, Ask(r)
    PROVE  FramesInv'
<1>1. PICK k \in Key :
        IF k \in Live(clock)
        THEN Hold(r, [IdleFrame EXCEPT !.pc = WithChunks(k), !.key = k,
                        !.stamp = clock, !.chunks = cache[k].list])
        ELSE Hold(r, [IdleFrame EXCEPT !.pc = "load", !.key = k, !.stamp = clock])
  BY DEF Ask
<1>2. UNCHANGED <<clock, version, replaced, rows>> /\ clock \in Time /\ clock \in Int
  BY CacheAssumption DEF Ask, RestTyped, Time
<1>3. CASE k \in Live(clock)
  <2> DEFINE f == [IdleFrame EXCEPT !.pc = WithChunks(k), !.key = k,
                     !.stamp = clock, !.chunks = cache[k].list]
  <2>1. /\ f.pc = WithChunks(k) /\ f.key = k /\ f.stamp = clock
        /\ f.chunks = cache[k].list /\ f.row = 0 /\ f.ranked = None
    BY DEF IdleFrame
  <2>2. k \in DOMAIN cache /\ clock <= cache[k].created + TTL
    BY <1>3 DEF Live
  <2>3. /\ cache[k].list \in ChunkList /\ cache[k].list.key = k
        /\ cache[k].created \in Time
        /\ Unchanging(k, cache[k].list.version)
        /\ CurrentSince(k, cache[k].list.version, cache[k].created)
    BY <2>2 DEF CacheInv, EntryInv, Entry
  <2>4. WithChunks(k) \in {"find", "ask"} /\ (WithChunks(k) = "find" => k \in Url)
    BY DEF WithChunks
  <2>5. CurrentSince(k, cache[k].list.version, clock - TTL)
    <3>1. cache[k].list.version \in Version
      BY <2>3 DEF ChunkList
    <3>2. replaced[k][cache[k].list.version] \in Time
      BY <3>1 DEF RestTyped
    <3>3. QED
      BY <2>2, <2>3, <3>2, <1>2, CacheAssumption DEF CurrentSince, Time
  <2>6. f \in Frame
    BY <2>3, <2>4, <1>2, IdleFrameTyped DEF Frame, Pc
  <2>7. FrameTyped(f)
    BY <2>1, <2>3, <2>4, <2>6, <1>2 DEF FrameTyped, Working
  <2>8. FrameCurrent(f)
    BY <2>1, <2>3, <2>4, <2>5 DEF FrameCurrent
  <2>9. FrameRanked(f) /\ FrameRow(f)
    BY <2>1, <2>4 DEF FrameRanked, FrameRow
  <2>10. QED
    BY <2>7, <2>8, <2>9, <1>1, <1>2, <1>3, HeldFrames DEF FrameInv
<1>4. CASE k \notin Live(clock)
  <2> DEFINE f == [IdleFrame EXCEPT !.pc = "load", !.key = k, !.stamp = clock]
  <2>1. /\ f.pc = "load" /\ f.key = k /\ f.stamp = clock
        /\ f.chunks = None /\ f.row = 0 /\ f.ranked = None
    BY DEF IdleFrame
  <2>2. f \in Frame
    BY <1>2, IdleFrameTyped DEF Frame, Pc
  <2>3. FrameInv(f)
    BY <2>1, <2>2, <1>2 DEF FrameInv, FrameTyped, FrameCurrent, FrameRanked, FrameRow, Working
  <2>4. QED
    BY <2>3, <1>1, <1>2, <1>4, HeldFrames
<1>5. QED
  BY <1>3, <1>4

LEMMA LoadFrames ==
    ASSUME RestTyped, FramesInv, NEW r \in Request, Load(r)
    PROVE  FramesInv'
<1>1. UNCHANGED <<clock, version, replaced, rows>> /\ frame[r].pc = "load"
  BY DEF Load, cacheVars, At
<1> DEFINE k == frame[r].key
<1>2. CASE End(r)
  BY <1>1, <1>2, EndFrames
<1>3. ASSUME NEW a \in FreeAddresses,
             Hold(r, [frame[r] EXCEPT !.pc = "build",
                        !.chunks = [at |-> a, key |-> k, version |-> version[k]]])
      PROVE  FramesInv'
  <2> DEFINE list == [at |-> a, key |-> k, version |-> version[k]]
             f == [frame[r] EXCEPT !.pc = "build", !.chunks = list]
  <2>1. /\ f.pc = "build" /\ f.key = k /\ f.stamp = frame[r].stamp
        /\ f.chunks = list /\ f.row = frame[r].row /\ f.ranked = frame[r].ranked
    BY OwnFrame DEF Frame
  <2>2. k \in Key /\ frame[r].ranked = None
    BY <1>1, OwnFrame DEF FrameInv, FrameTyped
  <2>3. list \in ChunkList
    BY <2>2 DEF FreeAddresses, ChunkList, RestTyped
  <2>4. f \in Frame
    BY <2>3, OwnFrame DEF Frame, Pc
  <2>5. FrameTyped(f)
    BY <2>1, <2>2, <2>3, <2>4, OwnFrame DEF FrameInv, FrameTyped, Working
  <2>6. FrameCurrent(f)
    BY <2>1 DEF FrameCurrent, Unchanging, CurrentSince
  <2>7. FrameRanked(f) /\ FrameRow(f)
    BY <2>1, <2>2, OwnFrame DEF FrameInv, FrameRanked, FrameRow
  <2>8. QED
    BY <2>5, <2>6, <2>7, <1>1, <1>3, HeldFrames DEF FrameInv
<1>4. QED
  BY <1>2, <1>3 DEF Load, LoadUrl, LoadDocument, Loaded

(***************************************************************************)
(* A request that keeps its chunks and moves on.                           *)
(***************************************************************************)
LEMMA NextFrame ==
    ASSUME RestTyped, FramesInv, NEW r \in Request, Working(frame[r]),
           frame[r].pc # "history",
           NEW pc \in {"find", "insert", "ask"}, NEW f \in Frame,
           f.pc = pc, f.key = frame[r].key, f.stamp = frame[r].stamp,
           f.chunks = frame[r].chunks, f.ranked = frame[r].ranked,
           f.row = frame[r].row
             \/ (f.key \in Url /\ f.row # 0 => f.row \in DOMAIN rows[f.key]),
           pc \in {"find", "insert"} => f.key \in Url
    PROVE  FrameInv(f)
<1>1. FrameTyped(f)
  BY OwnFrame DEF FrameInv, FrameTyped, Working
<1>2. FrameCurrent(f)
  BY OwnFrame DEF FrameInv, FrameCurrent
<1>3. FrameRanked(f) /\ FrameRow(f)
  BY OwnFrame DEF FrameInv, FrameRanked, FrameRow
<1>4. QED
  BY <1>1, <1>2, <1>3 DEF FrameInv

LEMMA GotoFrames ==
    ASSUME RestTyped, FramesInv, NEW r \in Request, Working(frame[r]),
           frame[r].pc # "history",
           NEW pc \in {"find", "insert", "ask"},
           pc \in {"find", "insert"} => frame[r].key \in Url,
           Goto(r, pc), UNCHANGED <<clock, version, replaced, rows>>
    PROVE  FramesInv'
<1> DEFINE f == [frame[r] EXCEPT !.pc = pc]
<1>1. /\ f.pc = pc /\ f.key = frame[r].key /\ f.stamp = frame[r].stamp
      /\ f.chunks = frame[r].chunks /\ f.ranked = frame[r].ranked /\ f.row = frame[r].row
  BY OwnFrame DEF Frame
<1>2. f \in Frame
  BY OwnFrame DEF Frame, Pc
<1>3. FrameInv(f)
  BY <1>1, <1>2, NextFrame
<1>4. Hold(r, f)
  BY DEF Goto
<1>5. QED
  BY <1>3, <1>4, HeldFrames

LEMMA BuildKeeps ==
    ASSUME RestTyped, CacheInv, FramesInv, NEW r \in Request, Build(r)
    PROVE  CacheInv' /\ FramesInv'
<1>1. /\ frame[r].pc = "build" /\ Working(frame[r])
      /\ UNCHANGED <<clock, version, replaced, rows>>
  BY DEF Build, At, Working
<1>2. /\ frame[r].key \in Key /\ frame[r].chunks \in ChunkList
      /\ frame[r].chunks.key = frame[r].key
      /\ frame[r].stamp \in Time /\ frame[r].stamp <= clock
      /\ Unchanging(frame[r].key, frame[r].chunks.version)
      /\ CurrentSince(frame[r].key, frame[r].chunks.version, frame[r].stamp)
  BY <1>1, OwnFrame DEF FrameInv, FrameTyped, FrameCurrent
<1>3. ASSUME Store(frame[r].key, frame[r].chunks, Stamp(r)),
             Goto(r, WithChunks(frame[r].key))
      PROVE  CacheInv' /\ FramesInv'
  <2>1. Stamp(r) \in Time /\ Stamp(r) <= clock
    BY <1>2 DEF Stamp, RestTyped, Time
  <2>2. CurrentSince(frame[r].key, frame[r].chunks.version, Stamp(r))
    BY <1>2 DEF Stamp, CurrentSince, Unchanging
  <2>3. CacheInv'
    BY <1>1, <1>2, <1>3, <2>1, <2>2, StoredCache
  <2>4. /\ WithChunks(frame[r].key) \in {"find", "insert", "ask"}
        /\ WithChunks(frame[r].key) \in {"find", "insert"} => frame[r].key \in Url
    BY DEF WithChunks
  <2>5. FramesInv'
    BY <1>1, <1>3, <2>4, GotoFrames
  <2>6. QED
    BY <2>3, <2>5
<1>4. ASSUME End(r), UNCHANGED cache
      PROVE  CacheInv' /\ FramesInv'
  <2>1. FramesInv'
    BY <1>1, <1>4, EndFrames
  <2>2. CacheInv'
    BY <1>1, <1>4 DEF CacheInv, EntryInv, Unchanging, CurrentSince
  <2>3. QED
    BY <2>1, <2>2
<1>5. QED
  BY <1>3, <1>4 DEF Build

LEMMA FindRowFrames ==
    ASSUME RestTyped, FramesInv, NEW r \in Request, FindRow(r)
    PROVE  FramesInv'
<1>1. /\ frame[r].pc = "find" /\ Working(frame[r])
      /\ UNCHANGED <<clock, version, replaced, rows>>
  BY DEF FindRow, At, Working, cacheVars
<1>2. frame[r].key \in Url
  BY <1>1, OwnFrame DEF FrameInv, FrameTyped
<1>3. ASSUME NEW pc \in {"insert", "ask"}, Goto(r, pc)
      PROVE  FramesInv'
  BY <1>1, <1>2, <1>3, GotoFrames
<1>4. ASSUME rows[frame[r].key] # <<>>,
             Hold(r, [frame[r] EXCEPT !.pc = "ask", !.row = Len(rows[frame[r].key])])
      PROVE  FramesInv'
  <2> DEFINE n == Len(rows[frame[r].key])
             f == [frame[r] EXCEPT !.pc = "ask", !.row = n]
  <2>1. n \in Nat /\ n \in DOMAIN rows[frame[r].key]
    BY <1>2, <1>4 DEF RestTyped
  <2>2. /\ f.pc = "ask" /\ f.key = frame[r].key /\ f.stamp = frame[r].stamp
        /\ f.chunks = frame[r].chunks /\ f.ranked = frame[r].ranked /\ f.row = n
    BY OwnFrame DEF Frame
  <2>3. f \in Frame
    BY <2>1, OwnFrame DEF Frame, Pc
  <2>4. FrameInv(f)
    BY <1>1, <2>1, <2>2, <2>3, NextFrame
  <2>5. QED
    BY <1>1, <1>4, <2>4, HeldFrames
<1>5. QED
  BY <1>3, <1>4 DEF FindRow

LEMMA AnswerKeeps ==
    ASSUME RestTyped, FramesInv, IndexInv, NEW r \in Request, Answer(r)
    PROVE  FramesInv' /\ IndexInv'
<1> DEFINE list == frame[r].chunks
           i == Bm25Key(list)
           index == IF i \in DOMAIN bm25 THEN bm25[i] ELSE list
<1>1. /\ frame[r].pc = "ask" /\ Working(frame[r])
      /\ UNCHANGED <<clock, version, replaced, rows>>
  BY DEF Answer, At, Working, cacheVars
<1>2. list \in ChunkList /\ frame[r].key \in Key
  BY <1>1, OwnFrame DEF FrameInv, FrameTyped
<1>3. i \in Address \X Nat /\ i[2] = SizeOf(list)
  <2>1. list.at \in Address /\ list.key \in Key /\ list.version \in 0..MaxVersion
    BY <1>2 DEF ChunkList, Version
  <2>2. SizeOf(list) \in Nat
    BY <2>1, QueryAssumption DEF SizeOf
  <2>3. QED
    BY <2>1, <2>2 DEF Bm25Key
<1>4. index \in ChunkList /\ SizeOf(index) = SizeOf(list)
  BY <1>2, <1>3 DEF IndexInv
<1>5. AnswerWith(r, index)
  BY DEF Answer
<1>6. IndexInv'
  <2>1. bm25' = [j \in DOMAIN bm25 \cup {i} |-> IF j = i THEN index ELSE bm25[j]]
    BY <1>5 DEF AnswerWith
  <2>2. DOMAIN bm25' = DOMAIN bm25 \cup {i}
    BY <2>1
  <2>3. \A j \in DOMAIN bm25' : bm25'[j] \in ChunkList /\ SizeOf(bm25'[j]) = j[2]
    BY <2>1, <2>2, <1>3, <1>4 DEF IndexInv
  <2>4. bm25' \in [DOMAIN bm25' -> ChunkList]
    BY <2>1, <2>2, <2>3
  <2>5. QED
    BY <1>3, <2>2, <2>3, <2>4 DEF IndexInv, SizeOf
<1>7. FramesInv'
  <2>1. CASE ~ HasDocument(r)
    BY <1>1, <1>5, <2>1, EndFrames DEF AnswerWith, Respond
  <2>2. CASE HasDocument(r)
    <3> DEFINE f == [frame[r] EXCEPT !.pc = "history", !.status = "answered", !.ranked = index]
    <3>1. /\ f.pc = "history" /\ f.key = frame[r].key /\ f.stamp = frame[r].stamp
          /\ f.chunks = list /\ f.ranked = index /\ f.row = frame[r].row
          /\ f.status = "answered"
      BY OwnFrame DEF Frame
    <3>2. f \in Frame
      BY <1>4, OwnFrame DEF Frame, Pc, Status
    <3>3. FrameTyped(f)
      BY <1>1, <3>1, <3>2, OwnFrame DEF FrameInv, FrameTyped, Working
    <3>4. FrameCurrent(f)
      BY <1>1, <3>1, OwnFrame DEF FrameInv, FrameCurrent
    <3>5. FrameRanked(f) /\ FrameRow(f)
      BY <2>2, <3>1, <1>4, OwnFrame DEF FrameInv, FrameRanked, FrameRow, HasDocument, Status
    <3>6. Hold(r, f)
      BY <1>5, <2>2 DEF AnswerWith, Respond
    <3>7. QED
      BY <1>1, <3>3, <3>4, <3>5, <3>6, HeldFrames DEF FrameInv
  <2>3. QED
    BY <2>1, <2>2
<1>8. QED
  BY <1>6, <1>7

LEMMA AskFailsFrames ==
    ASSUME RestTyped, FramesInv, NEW r \in Request, AskFails(r)
    PROVE  FramesInv'
<1>1. /\ frame[r].pc = "ask" /\ Working(frame[r]) /\ RespondToError(r)
      /\ UNCHANGED <<clock, version, replaced, rows>>
  BY DEF AskFails, At, Working, cacheVars
<1>2. CASE End(r)
  BY <1>1, <1>2, EndFrames
<1>3. CASE frame[r].key \in Url /\ HasDocument(r)
  <2> DEFINE f == [frame[r] EXCEPT !.pc = "history", !.status = "error", !.ranked = None]
  <2>1. /\ f.pc = "history" /\ f.key = frame[r].key /\ f.stamp = frame[r].stamp
        /\ f.chunks = frame[r].chunks /\ f.ranked = None /\ f.row = frame[r].row
        /\ f.status = "error"
    BY OwnFrame DEF Frame
  <2>2. f \in Frame
    BY OwnFrame DEF Frame, Pc, Status
  <2>3. FrameTyped(f)
    BY <1>1, <2>1, <2>2, OwnFrame DEF FrameInv, FrameTyped, Working
  <2>4. FrameCurrent(f)
    BY <1>1, <2>1, OwnFrame DEF FrameInv, FrameCurrent
  <2>5. FrameRanked(f) /\ FrameRow(f)
    BY <1>3, <2>1, OwnFrame DEF FrameInv, FrameRanked, FrameRow, HasDocument, Status
  <2>6. Hold(r, f)
    BY <1>1, <1>3 DEF RespondToError, Respond
  <2>7. QED
    BY <1>1, <2>3, <2>4, <2>5, <2>6, HeldFrames DEF FrameInv
<1>4. QED
  BY <1>1, <1>2, <1>3 DEF RespondToError, Respond

-----------------------------------------------------------------------------
(***************************************************************************)
(* What a step may do to a frame, an entry or a record it does not touch:  *)
(* time goes on, contents are replaced now, and rows only come in.         *)
(***************************************************************************)
Onward ==
    /\ clock' \in Time /\ clock <= clock'
    /\ \A k \in Key, v \in Version : Unchanging(k, v) => Unchanging(k, v)'
    /\ \A k \in Key, v \in Version, t \in Int :
         t <= clock /\ CurrentSince(k, v, t) => CurrentSince(k, v, t)'
    /\ \A k \in Url : DOMAIN rows[k] \subseteq DOMAIN rows'[k]

LEMMA LaterFrame ==
    ASSUME RestTyped, Onward, NEW f, FrameInv(f)
    PROVE  FrameInv(f)'
<1>1. f \in Frame /\ f.stamp \in Time /\ f.stamp <= clock
  BY DEF FrameInv, FrameTyped, Frame
<1>2. f.stamp <= clock'
  BY <1>1 DEF Onward, RestTyped, Time
<1>3. FrameTyped(f)'
  BY <1>1, <1>2 DEF FrameInv, FrameTyped, Working
<1>4. ASSUME Working(f)
      PROVE  FrameCurrent(f)'
  <2>1. f.key \in Key /\ f.chunks.version \in Version
    BY <1>4 DEF FrameInv, FrameTyped, ChunkList
  <2>2. f.stamp \in Int /\ f.stamp - TTL \in Int /\ f.stamp - TTL <= clock
    BY <1>1, CacheAssumption DEF Time, RestTyped
  <2>3. Unchanging(f.key, f.chunks.version)'
    BY <1>4, <2>1 DEF FrameInv, FrameCurrent, Onward
  <2>4. CurrentSince(f.key, f.chunks.version, f.stamp - TTL)'
    BY <1>4, <2>1, <2>2 DEF FrameInv, FrameCurrent, Onward
  <2>5. f.pc = "build" => CurrentSince(f.key, f.chunks.version, f.stamp)'
    BY <1>1, <1>4, <2>1, <2>2 DEF FrameInv, FrameCurrent, Onward
  <2>6. QED
    BY <2>3, <2>4, <2>5 DEF FrameCurrent
<1>5. FrameCurrent(f)'
  BY <1>4 DEF FrameCurrent, Working
<1>6. FrameRanked(f)'
  BY DEF FrameInv, FrameRanked, SizeOf
<1>7. FrameRow(f)'
  BY DEF FrameInv, FrameRow, Onward
<1>8. QED
  BY <1>3, <1>5, <1>6, <1>7 DEF FrameInv

LEMMA LaterFrames ==
    ASSUME RestTyped, Onward, FramesInv, UNCHANGED frame
    PROVE  FramesInv'
<1>1. ASSUME NEW s \in Request
      PROVE  FrameInv(frame[s])'
  <2>1. PICK f : f = frame[s] /\ f = frame'[s]
    OBVIOUS
  <2>2. FrameInv(f)
    BY <2>1 DEF FramesInv
  <2>3. FrameInv(f)'
    BY <2>2, LaterFrame
  <2>4. QED
    BY <2>1, <2>3 DEF FrameInv, FrameTyped, FrameCurrent, FrameRanked, FrameRow, Working,
                      Unchanging, CurrentSince, SizeOf
<1>2. QED
  BY <1>1 DEF FramesInv

LEMMA LaterCache ==
    ASSUME RestTyped, Onward, CacheInv, UNCHANGED cache
    PROVE  CacheInv'
<1>1. ASSUME NEW k \in DOMAIN cache
      PROVE  EntryInv(k, cache[k])'
  <2>1. PICK e : e = cache[k] /\ e = cache'[k]
    OBVIOUS
  <2>2. EntryInv(k, e) /\ k \in Key
    BY <2>1 DEF CacheInv
  <2>3. e.created \in Int /\ e.created <= clock /\ e.created <= clock' /\ e.list.version \in Version
    BY <2>2 DEF EntryInv, Entry, ChunkList, Onward, RestTyped, Time
  <2>4. EntryInv(k, e)'
    BY <2>2, <2>3 DEF EntryInv, Onward
  <2>5. QED
    BY <2>1, <2>4 DEF EntryInv, Unchanging, CurrentSince
<1>2. QED
  BY <1>1 DEF CacheInv

LEMMA StillOnward ==
    ASSUME RestTyped, UNCHANGED <<clock, version, replaced, rows>>
    PROVE  Onward
BY CacheAssumption DEF Onward, RestTyped, Time, Unchanging, CurrentSince

LEMMA TickOnward ==
    ASSUME RestTyped, Tick
    PROVE  RestTyped' /\ Onward
<1>1. clock \in Nat /\ clock' = clock + 1 /\ clock' \in Time
  BY CacheAssumption DEF Tick, RestTyped, Time
<1>2. UNCHANGED <<version, replaced, rows>>
  BY DEF Tick, queryVars
<1>3. RestTyped'
  BY <1>1, <1>2 DEF RestTyped
<1>4. Onward
  BY <1>1, <1>2 DEF Onward, Unchanging, CurrentSince
<1>5. QED
  BY <1>3, <1>4

LEMMA PublishOnward ==
    ASSUME RestTyped, Publish
    PROVE  RestTyped' /\ Onward
<1>1. PICK u \in Url :
        /\ version[u] < MaxVersion
        /\ version' = [version EXCEPT ![u] = @ + 1]
        /\ replaced' = [replaced EXCEPT ![u][version[u]] = clock]
  BY DEF Publish
<1>2. u \in Key /\ version[u] \in Version /\ UNCHANGED <<clock, rows>>
  BY <1>1, QueryAssumption DEF Publish, cacheVars, RestTyped
<1>3. version[u] + 1 \in Version
  BY <1>1, <1>2, QueryAssumption DEF Version
<1>4. version' \in [Key -> Version]
  BY <1>1, <1>3 DEF RestTyped
<1>5. replaced' \in [Key -> [Version -> Time]]
  BY <1>1, <1>2 DEF RestTyped
<1>6. RestTyped'
  BY <1>2, <1>4, <1>5 DEF RestTyped
<1>7. ASSUME NEW k \in Key, NEW v \in Version, Unchanging(k, v)
      PROVE  Unchanging(k, v)'
  BY <1>1, <1>2, <1>7 DEF Unchanging, RestTyped
<1>8. ASSUME NEW k \in Key, NEW v \in Version, NEW t \in Int, t <= clock, CurrentSince(k, v, t)
      PROVE  CurrentSince(k, v, t)'
  <2>1. replaced'[k][v] = IF k = u /\ v = version[u] THEN clock ELSE replaced[k][v]
    BY <1>1, <1>2 DEF RestTyped
  <2>2. k # u => version'[k] = version[k]
    BY <1>1 DEF RestTyped
  <2>3. clock \in Int
    BY CacheAssumption DEF RestTyped, Time
  <2>4. QED
    BY <1>8, <2>1, <2>2, <2>3 DEF CurrentSince
<1>9. Onward
  BY <1>2, <1>7, <1>8, CacheAssumption DEF Onward, RestTyped, Time
<1>10. QED
  BY <1>6, <1>9

LEMMA InsertRowKeeps ==
    ASSUME RestTyped, FramesInv, NEW r \in Request, InsertRow(r)
    PROVE  RestTyped' /\ Onward /\ FramesInv'
<1>1. /\ frame[r].pc = "insert" /\ Working(frame[r])
      /\ UNCHANGED <<cache, clock, version, replaced>>
  BY DEF InsertRow, At, Working, cacheVars
<1>2. frame[r].key \in Url /\ frame[r].chunks.version \in Version
  BY <1>1, OwnFrame DEF FrameInv, FrameTyped, ChunkList
<1>3. ASSUME Goto(r, "ask"), UNCHANGED rows
      PROVE  RestTyped' /\ Onward /\ FramesInv'
  <2>1. FramesInv'
    BY <1>1, <1>3, GotoFrames
  <2>2. RestTyped'
    BY <1>1, <1>3 DEF RestTyped
  <2>3. QED
    BY <1>1, <1>3, <2>1, <2>2, StillOnward
<1>4. ASSUME rows' = [rows EXCEPT ![frame[r].key] = Append(@, frame[r].chunks.version)],
             Hold(r, [frame[r] EXCEPT !.pc = "ask", !.row = Len(rows[frame[r].key]) + 1])
      PROVE  RestTyped' /\ Onward /\ FramesInv'
  <2> DEFINE n == Len(rows[frame[r].key]) + 1
  <2>1. rows[frame[r].key] \in Seq(Version) /\ n \in Nat
    BY <1>2 DEF RestTyped
  <2>2. rows'[frame[r].key] = Append(rows[frame[r].key], frame[r].chunks.version)
    BY <1>2, <1>4 DEF RestTyped
  <2>3. /\ rows'[frame[r].key] \in Seq(Version)
        /\ DOMAIN rows'[frame[r].key] = 1..n
        /\ DOMAIN rows[frame[r].key] = 1..(n - 1)
    BY <1>2, <2>1, <2>2
  <2>4. \A k \in Url : k # frame[r].key => rows'[k] = rows[k]
    BY <1>4 DEF RestTyped
  <2>5. RestTyped'
    <3>1. rows' \in [Url -> Seq(Version)]
      BY <1>2, <1>4, <2>2, <2>3 DEF RestTyped
    <3>2. QED
      BY <1>1, <3>1 DEF RestTyped
  <2>6. Onward
    <3>1. \A k \in Url : DOMAIN rows[k] \subseteq DOMAIN rows'[k]
      BY <2>1, <2>3, <2>4
    <3>2. QED
      BY <1>1, <3>1, CacheAssumption DEF Onward, RestTyped, Time, Unchanging, CurrentSince
  <2>7. PICK f : f = [frame[r] EXCEPT !.pc = "ask", !.row = n]
    OBVIOUS
  <2>8. /\ f.pc = "ask" /\ f.key = frame[r].key /\ f.stamp = frame[r].stamp
        /\ f.chunks = frame[r].chunks /\ f.ranked = frame[r].ranked /\ f.row = n
    BY <2>7, OwnFrame DEF Frame
  <2>9. f \in Frame
    BY <2>1, <2>7, OwnFrame DEF Frame, Pc
  <2>10. FrameTyped(f)'
    BY <1>1, <2>8, <2>9, OwnFrame DEF FrameInv, FrameTyped, Working
  <2>11. FrameCurrent(f)'
    <3>1. FrameCurrent(f)
      BY <1>1, <2>8, OwnFrame DEF FrameInv, FrameCurrent, Working
    <3>2. QED
      BY <1>1, <3>1 DEF FrameCurrent, Unchanging, CurrentSince
  <2>12. FrameRanked(f)' /\ FrameRow(f)'
    BY <2>1, <2>3, <2>8, OwnFrame DEF FrameInv, FrameRanked, FrameRow, SizeOf
  <2>13. FrameInv(f)'
    BY <2>10, <2>11, <2>12 DEF FrameInv
  <2>14. frame' = [frame EXCEPT ![r] = f]
    BY <1>4, <2>7 DEF Hold
  <2>15. frame' \in [Request -> Frame]
    BY <2>9, <2>14 DEF FramesInv
  <2>16. ASSUME NEW s \in Request
         PROVE  FrameInv(frame[s])'
    <3>1. PICK g : g = frame'[s]
      OBVIOUS
    <3>2. FrameInv(g)'
      <4>1. CASE s = r
        BY <2>13, <2>14, <3>1, <4>1 DEF FramesInv
      <4>2. CASE s # r
        <5>1. g = frame[s] /\ FrameInv(g)
          BY <2>14, <3>1, <4>2 DEF FramesInv
        <5>2. QED
          BY <2>6, <5>1, LaterFrame
      <4>3. QED
        BY <4>1, <4>2
    <3>3. QED
      BY <3>1, <3>2 DEF FrameInv, FrameTyped, FrameCurrent, FrameRanked, FrameRow, Working,
                        Unchanging, CurrentSince, SizeOf
  <2>17. FramesInv'
    BY <2>15, <2>16 DEF FramesInv
  <2>18. QED
    BY <2>5, <2>6, <2>17
<1>5. QED
  BY <1>3, <1>4 DEF InsertRow

LEMMA RestartFrames ==
    ASSUME RestTyped, FramesInv, Restart
    PROVE  FramesInv'
<1>1. UNCHANGED <<clock, version, replaced, rows>>
  BY DEF Restart
<1>2. PICK done : done = [IdleFrame EXCEPT !.pc = "done"]
  OBVIOUS
<1>3. FrameInv(done)
  BY <1>2, IdleFrameInv
<1>4. frame' = [r \in Request |-> IF frame[r].pc = "idle" THEN frame[r] ELSE done]
  BY <1>2 DEF Restart
<1>5. ASSUME NEW s \in Request
      PROVE  FrameInv(frame'[s])
  BY <1>3, <1>4 DEF FramesInv
<1>6. frame' \in [Request -> Frame]
  BY <1>4, <1>5 DEF FrameInv, FrameTyped
<1>7. ASSUME NEW s \in Request
      PROVE  FrameInv(frame[s])'
  BY <1>1, <1>5 DEF FrameInv, FrameTyped, FrameCurrent, FrameRanked, FrameRow, Working,
                    Unchanging, CurrentSince, SizeOf
<1>8. QED
  BY <1>6, <1>7 DEF FramesInv

-----------------------------------------------------------------------------
LEMMA WriteHistoryKeeps ==
    ASSUME RestTyped, FramesInv, HistoryInv, NEW r \in Request, WriteHistory(r)
    PROVE  FramesInv' /\ HistoryInv'
<1>1. /\ frame[r].pc = "history" /\ Working(frame[r]) /\ End(r)
      /\ UNCHANGED <<clock, version, replaced, rows>>
  BY DEF WriteHistory, At, Working, cacheVars
<1>2. FramesInv'
  BY <1>1, EndFrames
<1> DEFINE h == [key |-> frame[r].key, row |-> frame[r].row, status |-> frame[r].status]
<1>3. h \in [key: Key, row: Nat, status: Status]
  BY <1>1, OwnFrame DEF FrameInv, FrameTyped, FrameRow
<1>4. IF h.key \in Url THEN h.row \in DOMAIN rows[h.key] ELSE h.status = "answered"
  BY <1>1, OwnFrame DEF FrameInv, FrameRow
<1>5. history' = history \cup {h} \/ history' = history
  BY DEF WriteHistory
<1>6. HistoryInv'
  BY <1>1, <1>3, <1>4, <1>5 DEF HistoryInv, HistoryWasAnswered
<1>7. QED
  BY <1>2, <1>6

LEMMA LaterHistory ==
    ASSUME Onward, HistoryInv, UNCHANGED history
    PROVE  HistoryInv'
BY DEF Onward, HistoryInv, HistoryWasAnswered

LEMMA SameIndex ==
    ASSUME IndexInv, UNCHANGED bm25
    PROVE  IndexInv'
BY DEF IndexInv, SizeOf

LEMMA StillTyped ==
    ASSUME RestTyped, UNCHANGED <<clock, version, replaced, rows>>
    PROVE  RestTyped'
BY DEF RestTyped

LEMMA RequestStepKeeps ==
    ASSUME IInv, NEW r \in Request, RequestStep(r)
    PROVE  IInv'
<1> USE DEF IInv
<1>1. ASSUME Ask(r)
      PROVE  IInv'
  <2>1. UNCHANGED <<clock, version, replaced, rows, bm25, history>> /\ FramesInv'
    BY <1>1, AskFrames DEF Ask
  <2>2. PICK k \in Key : Touch(k, clock)
    BY <1>1 DEF Ask
  <2>3. CacheInv'
    BY <2>1, <2>2, TouchedCache
  <2>4. QED
    BY <2>1, <2>3, StillTyped, StillOnward, SameIndex, LaterHistory
<1>2. ASSUME Load(r)
      PROVE  IInv'
  <2>1. UNCHANGED <<cache, clock, version, replaced, rows, bm25, history>> /\ FramesInv'
    BY <1>2, LoadFrames DEF Load, cacheVars
  <2>2. QED
    BY <2>1, StillTyped, StillOnward, LaterCache, SameIndex, LaterHistory
<1>3. ASSUME Build(r)
      PROVE  IInv'
  <2>1. UNCHANGED <<clock, version, replaced, rows, bm25, history>> /\ CacheInv' /\ FramesInv'
    BY <1>3, BuildKeeps DEF Build
  <2>2. QED
    BY <2>1, StillTyped, StillOnward, SameIndex, LaterHistory
<1>4. ASSUME FindRow(r)
      PROVE  IInv'
  <2>1. UNCHANGED <<cache, clock, version, replaced, rows, bm25, history>> /\ FramesInv'
    BY <1>4, FindRowFrames DEF FindRow, cacheVars
  <2>2. QED
    BY <2>1, StillTyped, StillOnward, LaterCache, SameIndex, LaterHistory
<1>5. ASSUME InsertRow(r)
      PROVE  IInv'
  <2>1. RestTyped' /\ Onward /\ FramesInv'
    BY <1>5, InsertRowKeeps
  <2>2. UNCHANGED <<cache, bm25, history>>
    BY <1>5 DEF InsertRow, cacheVars
  <2>3. QED
    BY <2>1, <2>2, LaterCache, SameIndex, LaterHistory
<1>6. ASSUME Answer(r)
      PROVE  IInv'
  <2>1. UNCHANGED <<cache, clock, version, replaced, rows, history>> /\ FramesInv' /\ IndexInv'
    BY <1>6, AnswerKeeps DEF Answer, cacheVars
  <2>2. QED
    BY <2>1, StillTyped, StillOnward, LaterCache, LaterHistory
<1>7. ASSUME AskFails(r)
      PROVE  IInv'
  <2>1. UNCHANGED <<cache, clock, version, replaced, rows, bm25, history>> /\ FramesInv'
    BY <1>7, AskFailsFrames DEF AskFails, cacheVars
  <2>2. QED
    BY <2>1, StillTyped, StillOnward, LaterCache, SameIndex, LaterHistory
<1>8. ASSUME WriteHistory(r)
      PROVE  IInv'
  <2>1. UNCHANGED <<cache, clock, version, replaced, rows, bm25>> /\ FramesInv' /\ HistoryInv'
    BY <1>8, WriteHistoryKeeps DEF WriteHistory, cacheVars
  <2>2. QED
    BY <2>1, StillTyped, StillOnward, LaterCache, SameIndex
<1>9. QED
  BY <1>1, <1>2, <1>3, <1>4, <1>5, <1>6, <1>7, <1>8 DEF RequestStep

LEMMA NextKeeps == IInv /\ [Next]_vars => IInv'
<1> SUFFICES ASSUME IInv, [Next]_vars PROVE IInv'
  OBVIOUS
<1> USE DEF IInv
<1>1. ASSUME NEW r \in Request, RequestStep(r)
      PROVE  IInv'
  BY <1>1, RequestStepKeeps
<1>2. ASSUME Publish
      PROVE  IInv'
  <2>1. RestTyped' /\ Onward /\ UNCHANGED <<cache, frame, bm25, history>>
    BY <1>2, PublishOnward DEF Publish, cacheVars
  <2>2. QED
    BY <2>1, LaterCache, LaterFrames, SameIndex, LaterHistory
<1>3. ASSUME Tick
      PROVE  IInv'
  <2>1. RestTyped' /\ Onward /\ UNCHANGED <<cache, frame, bm25, history>>
    BY <1>3, TickOnward DEF Tick, queryVars
  <2>2. QED
    BY <2>1, LaterCache, LaterFrames, SameIndex, LaterHistory
<1>4. ASSUME HealthCheck
      PROVE  IInv'
  <2>1. UNCHANGED <<clock, frame, version, replaced, rows, bm25, history>> /\ Sweep(clock)
    BY <1>4 DEF HealthCheck, queryVars
  <2>2. CacheInv'
    BY <2>1, SweptCache
  <2>3. QED
    BY <2>1, <2>2, StillTyped, StillOnward, LaterFrames, SameIndex, LaterHistory
<1>5. ASSUME Restart
      PROVE  IInv'
  <2>1. UNCHANGED <<clock, version, replaced, rows, history>> /\ FramesInv'
    BY <1>5, RestartFrames DEF Restart
  <2>2. CacheInv'
    <3>1. cache' = [k \in {} |-> {}] /\ DOMAIN cache' = {}
      BY <1>5 DEF Restart
    <3>2. Cardinality(DOMAIN cache') = 0
      BY <3>1, FS_EmptySet
    <3>3. QED
      BY <3>1, <3>2, CacheAssumption DEF CacheInv
  <2>3. IndexInv'
    BY <1>5 DEF Restart, IndexInv
  <2>4. QED
    BY <2>1, <2>2, <2>3, StillTyped, StillOnward, LaterHistory
<1>6. ASSUME UNCHANGED vars
      PROVE  IInv'
  <2>1. UNCHANGED <<cache, clock, frame, version, replaced, rows, bm25, history>>
    BY <1>6 DEF vars, cacheVars, queryVars
  <2>2. QED
    BY <2>1, StillTyped, StillOnward, LaterCache, LaterFrames, SameIndex, LaterHistory
<1>7. QED
  BY <1>1, <1>2, <1>3, <1>4, <1>5, <1>6 DEF Next

LEMMA InvariantHolds == Spec => []IInv
BY InitInv, NextKeeps, PTL DEF Spec

(***************************************************************************)
(* Types, and the bound on the cache for any capacity: requests that miss  *)
(* at once and stores that come late never leave it over MaxItems, in      *)
(* store_cached_document of main.py.                                       *)
(***************************************************************************)
THEOREM CacheStaysBounded == Spec => []QueriesTypeOK
BY InvariantHolds, IInvImplies, PTL

(***************************************************************************)
(* No request works with content that was replaced more than TTL before it *)
(* came in, whatever the cache was given by slow requests.                 *)
(***************************************************************************)
THEOREM StalenessIsBounded == Spec => []BoundedStaleness
BY InvariantHolds, IInvImplies, PTL

(***************************************************************************)
(* A lexical index that survived its chunk list (retrieve_hybrid_context)  *)
(* is never longer or shorter than the list it is used for.                *)
(***************************************************************************)
THEOREM RankAlwaysFits == Spec => []RankFits
BY InvariantHolds, IInvImplies, PTL

(***************************************************************************)
(* The background tasks write no history for a ready document whose client *)
(* got a 503, nor under a URL's row that is not stored.                    *)
(***************************************************************************)
THEOREM HistoryFollowsAnswers == Spec => []HistoryWasAnswered
BY InvariantHolds, IInvImplies, PTL

-----------------------------------------------------------------------------
LEMMA StampIsPast ==
    ASSUME IInv, NEW r \in Request
    PROVE  Stamp(r) \in Int /\ Stamp(r) <= clock /\ clock \in Int
BY OwnFrame, CacheAssumption DEF Stamp, IInv, FrameInv, FrameTyped, RestTyped, Time

Evicts(out, stay) ==
    /\ out \in DOMAIN cache \ DOMAIN cache' /\ stay \in DOMAIN cache \cap DOMAIN cache'
    /\ clock <= cache[out].created + TTL /\ cache'[stay] = cache[stay]

LEMMA StoreEvictsColder ==
    ASSUME IInv, NEW k \in Key, NEW list, NEW now \in Int, now <= clock, Store(k, list, now),
           NEW out, NEW stay, Evicts(out, stay)
    PROVE  Colder(out, stay)
<1>1. PICK S \in Staying(k, now) :
        cache' = [j \in S \cup {k} |->
                    IF j = k THEN [list |-> list, created |-> now, accessed |-> now]
                    ELSE cache[j]]
  BY DEF Store
<1>2. DOMAIN cache' = S \cup {k} /\ out \notin S /\ stay \in S \cup {k}
  BY <1>1 DEF Evicts
<1>3. /\ cache[out].created \in Int /\ cache[stay].created \in Int
      /\ clock \in Int /\ TTL \in Nat
  <2>1. cache[out] \in Entry /\ cache[stay] \in Entry /\ clock \in Int
    BY CacheAssumption DEF Evicts, IInv, CacheInv, RestTyped, Time
  <2>2. QED
    BY <2>1, CacheAssumption DEF Entry, Time
<1>4. out \in Live(now)
  BY <1>3 DEF Evicts, Live
<1>5. k \notin Live(now)
  BY <1>2, <1>4 DEF Staying
<1>6. stay # k
  <2>1. SUFFICES ASSUME stay = k PROVE FALSE
    OBVIOUS
  <2>2. cache'[k].created = now /\ cache'[k] = cache[k] /\ k \in DOMAIN cache
    BY <1>1, <2>1 DEF Evicts
  <2>3. k \in Live(now)
    BY <1>3, <2>1, <2>2 DEF Live
  <2>4. QED
    BY <1>5, <2>3
<1>7. QED
  BY <1>2, <1>4, <1>5, <1>6 DEF Staying

LEMMA StepEvictsColder ==
    ASSUME IInv, [Next]_vars, NEW out, NEW stay, Evicts(out, stay)
    PROVE  Colder(out, stay)
<1>1. cache' # cache
  BY DEF Evicts
<1>2. out \in Live(clock) /\ out \notin DOMAIN cache' /\ DOMAIN cache' # {}
  BY DEF Evicts, Live
<1>3. ASSUME NEW r \in Request, RequestStep(r)
      PROVE  Colder(out, stay)
  <2>1. CASE Ask(r)
    BY <1>2, <2>1 DEF Ask, Touch
  <2>2. CASE Build(r)
    <3>1. frame[r].key \in Key
      BY <2>2, OwnFrame DEF Build, At, Working, IInv, FrameInv, FrameTyped
    <3>2. Store(frame[r].key, frame[r].chunks, Stamp(r))
      BY <1>1, <2>2 DEF Build
    <3>3. QED
      BY <3>1, <3>2, StampIsPast, StoreEvictsColder
  <2>3. QED
    BY <1>1, <1>3, <2>1, <2>2
       DEF RequestStep, Load, FindRow, InsertRow, Answer, AskFails, WriteHistory, cacheVars
<1>4. CASE Publish \/ Tick \/ UNCHANGED vars
  BY <1>1, <1>4 DEF Publish, Tick, vars, cacheVars
<1>5. CASE HealthCheck
  BY <1>2, <1>5 DEF HealthCheck, Sweep
<1>6. CASE Restart
  BY <1>2, <1>6 DEF Restart
<1>7. QED
  BY <1>3, <1>4, <1>5, <1>6 DEF Next

(***************************************************************************)
(* An entry that is still good leaves store_cached_document's cache only   *)
(* for entries used since, also when the clock the store was given is old. *)
(***************************************************************************)
THEOREM EvictionKeepsTheHottest == Spec => KeepsTheHottest
<1>1. ASSUME IInv, [Next]_vars
      PROVE  [\A out \in DOMAIN cache \ DOMAIN cache', stay \in DOMAIN cache \cap DOMAIN cache' :
                clock <= cache[out].created + TTL /\ cache'[stay] = cache[stay] =>
                    cache[out].accessed <= cache[stay].accessed]_vars
  BY <1>1, StepEvictsColder DEF Evicts, Colder
<1>2. QED
  BY <1>1, InvariantHolds, PTL DEF Spec, KeepsTheHottest
=============================================================================
