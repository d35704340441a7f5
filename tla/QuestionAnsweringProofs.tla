---------------------- MODULE QuestionAnsweringProofs -----------------------
(***************************************************************************)
(* Proofs about answering the questions of a request, for any questions,   *)
(* chunks, limits and claim lists: what retrieval keeps, what an answer    *)
(* and its verified claims may cite, and how many questions run at once.   *)
(***************************************************************************)
EXTENDS QuestionAnswering, FiniteSetTheorems, FunctionTheorems, SequenceTheorems, TLAPS

(***************************************************************************)
(* Arranged lists every position once, the earlier in the order first: a   *)
(* position's place is one more than the number of those before it.        *)
(***************************************************************************)
StrictOrder(I, precedes) ==
    /\ \A i \in I : <<i, i>> \notin precedes
    /\ \A i, j, k \in I :
           <<i, j>> \in precedes /\ <<j, k>> \in precedes => <<i, k>> \in precedes
    /\ \A i, j \in I : i = j \/ <<i, j>> \in precedes \/ <<j, i>> \in precedes

ListsInOrder(items, s, I, precedes) ==
    \E at \in [1..Cardinality(I) -> I] :
        /\ items = [n \in 1..Cardinality(I) |-> s[at[n]]]
        /\ \A i \in I : \E n \in 1..Cardinality(I) : at[n] = i
        /\ \A m, n \in 1..Cardinality(I) : /\ at[m] = at[n] => m = n
                                           /\ m < n => <<at[m], at[n]>> \in precedes

LEMMA Arrangement ==
    ASSUME NEW s, NEW I, IsFiniteSet(I), NEW precedes, StrictOrder(I, precedes)
    PROVE  /\ Cardinality(I) \in Nat
           /\ ListsInOrder(Arranged(s, I, precedes), s, I, precedes)
<1> DEFINE before(i) == {j \in I : <<j, i>> \in precedes}
           N == Cardinality(I)
           place == [i \in I |-> Place(I, precedes, i)]
           at == [n \in 1..N |-> CHOOSE i \in I : Place(I, precedes, i) = n]
<1> /\ \A i \in I : <<i, i>> \notin precedes
    /\ \A i, j, k \in I :
           <<i, j>> \in precedes /\ <<j, k>> \in precedes => <<i, k>> \in precedes
    /\ \A i, j \in I : i = j \/ <<i, j>> \in precedes \/ <<j, i>> \in precedes
  BY DEF StrictOrder
<1>1. N \in Nat
  BY FS_CardinalityType
<1>2. \A i \in I : Cardinality(before(i)) \in Nat /\ place[i] = 1 + Cardinality(before(i))
  <2> TAKE i \in I
  <2>1. before(i) \in SUBSET I
    OBVIOUS
  <2>2. Cardinality(before(i)) \in Nat
    BY <2>1, FS_Subset, FS_CardinalityType
  <2> QED
    BY <2>2 DEF Place
<1>3. \A i \in I : place[i] \in 1..N
  <2> TAKE i \in I
  <2>1. before(i) \in SUBSET I /\ before(i) # I
    OBVIOUS
  <2>2. Cardinality(before(i)) <= N /\ Cardinality(before(i)) # N
    BY <2>1, FS_Subset
  <2> QED
    BY <1>1, <1>2, <2>2
<1>4. \A i, j \in I : <<i, j>> \in precedes => place[i] < place[j]
  <2> SUFFICES ASSUME NEW i \in I, NEW j \in I, <<i, j>> \in precedes
               PROVE  place[i] < place[j]
    OBVIOUS
  <2>1. IsFiniteSet(before(j))
    BY FS_Subset
  <2>2. before(i) \in SUBSET before(j) /\ i \in before(j) /\ i \notin before(i)
    OBVIOUS
  <2>3. Cardinality(before(i)) <= Cardinality(before(j))
        /\ Cardinality(before(i)) # Cardinality(before(j))
    BY <2>1, <2>2, FS_Subset
  <2> QED
    BY <1>2, <2>3
<1> HIDE DEF place, N, before
<1>5. \A i, j \in I : place[i] = place[j] => i = j
  <2> TAKE i, j \in I
  <2>1. place[i] \in Int /\ place[j] \in Int
    BY <1>1, <1>3
  <2>2. <<i, j>> \in precedes \/ <<j, i>> \in precedes => place[i] # place[j]
    BY <1>4, <2>1
  <2> QED
    BY <2>2
<1>6. \A n \in 1..N : \E i \in I : place[i] = n
  <2>1. place \in [I -> 1..N]
    BY <1>3 DEF place
  <2>2. place \in Injection(I, 1..N)
    BY <1>5, <2>1, Fun_IsInj
  <2>3. IsFiniteSet(1..N) /\ Cardinality(1..N) = N
    BY <1>1, FS_Interval
  <2>4. place \in Surjection(I, 1..N)
    BY <2>2, <2>3, FS_Injection DEF N
  <2> QED
    BY <2>4, Fun_SurjectionProperties
<1>7. \A n \in 1..N : at[n] \in I /\ place[at[n]] = n
  BY <1>6 DEF place
<1>8. Arranged(s, I, precedes) = [n \in 1..N |-> s[at[n]]]
  BY DEF Arranged, N
<1> HIDE DEF at
<1>9. \A i \in I : \E n \in 1..N : at[n] = i
  BY <1>3, <1>5, <1>7
<1>10. \A m, n \in 1..N : /\ at[m] = at[n] => m = n
                          /\ m < n => <<at[m], at[n]>> \in precedes
  <2> TAKE m, n \in 1..N
  <2>1. at[m] = at[n] => m = n
    BY <1>7
  <2>2. ASSUME m < n PROVE <<at[m], at[n]>> \in precedes
    <3>1. at[m] # at[n]
      BY <1>1, <1>7, <2>2
    <3>2. <<at[n], at[m]>> \notin precedes
      BY <1>1, <1>4, <1>7, <2>2
    <3> QED
      BY <1>7, <3>1, <3>2
  <2> QED
    BY <2>1, <2>2
<1>11. at \in [1..N -> I]
  BY <1>7 DEF at
<1> QED
  BY <1>1, <1>8, <1>9, <1>10, <1>11 DEF N, ListsInOrder

(***************************************************************************)
(* Sequences in general: the first k items, and the number of items.       *)
(***************************************************************************)
LEMMA IntervalSize ==
    ASSUME NEW n \in Nat PROVE IsFiniteSet(1..n) /\ Cardinality(1..n) = n
BY FS_Interval

LEMMA FunctionIsSeq ==
    ASSUME NEW S, NEW n \in Nat, NEW f \in [1..n -> S] PROVE f \in Seq(S) /\ Len(f) = n
OBVIOUS

FirstItems(items, s, k) ==
    /\ Len(items) \in Nat /\ Len(items) <= k /\ Len(items) <= Len(s)
    /\ Len(items) = Smaller(Len(s), k)
    /\ \A n \in 1..Len(items) : n \in 1..Len(s) /\ items[n] = s[n]

LEMMA FirstOfSeq ==
    ASSUME NEW S, NEW s \in Seq(S), NEW k \in Nat
    PROVE  FirstOf(s, k) \in Seq(S) /\ FirstItems(FirstOf(s, k), s, k)
<1> DEFINE m == Smaller(Len(s), k)
<1>1. Len(s) \in Nat /\ \A n \in 1..Len(s) : s[n] \in S
  BY LenProperties, ElementOfSeq
<1>2. m \in Nat /\ m <= k /\ m <= Len(s)
  BY <1>1 DEF Smaller
<1>3. \A n \in 1..m : n \in 1..Len(s) /\ s[n] \in S
  BY <1>1, <1>2
<1>4. FirstOf(s, k) = [n \in 1..m |-> s[n]]
  BY DEF FirstOf
<1>0. m = Smaller(Len(s), k)
  OBVIOUS
<1> HIDE DEF m
<1>5. FirstOf(s, k) \in [1..m -> S]
  BY <1>3, <1>4
<1>6. FirstOf(s, k) \in Seq(S) /\ Len(FirstOf(s, k)) = m
  BY <1>2, <1>5
<1> QED
  BY <1>0, <1>2, <1>3, <1>4, <1>6 DEF FirstItems

LEMMA ItemsOfSeq ==
    ASSUME NEW S, NEW s \in Seq(S)
    PROVE  /\ Len(s) \in Nat /\ DOMAIN s = 1..Len(s) /\ s \in [1..Len(s) -> S]
           /\ \A n \in 1..Len(s) : s[n] \in S
           /\ ToSet(s) = {s[n] : n \in 1..Len(s)} /\ ToSet(s) \subseteq S
           /\ IsFiniteSet(DOMAIN s) /\ Cardinality(DOMAIN s) = Len(s)
<1>1. Len(s) \in Nat /\ DOMAIN s = 1..Len(s) /\ s \in [1..Len(s) -> S]
  BY LenProperties
<1>2. \A n \in 1..Len(s) : s[n] \in S
  BY <1>1
<1>3. IsFiniteSet(DOMAIN s) /\ Cardinality(DOMAIN s) = Len(s)
  BY <1>1, IntervalSize
<1> QED
  BY <1>1, <1>2, <1>3 DEF ToSet

(***************************************************************************)
(* A list has no more different items than items, and as many when none is *)
(* repeated.                                                               *)
(***************************************************************************)
LEMMA SetOfSeq ==
    ASSUME NEW S, NEW s \in Seq(S)
    PROVE  /\ IsFiniteSet(ToSet(s)) /\ Cardinality(ToSet(s)) \in Nat
           /\ Cardinality(ToSet(s)) <= Len(s)
           /\ IsInjective(s) => Cardinality(ToSet(s)) = Len(s)
<1>1. /\ Len(s) \in Nat /\ DOMAIN s = 1..Len(s)
      /\ ToSet(s) = {s[n] : n \in 1..Len(s)}
  BY ItemsOfSeq
<1>2. s \in [1..Len(s) -> ToSet(s)]
  BY <1>1
<1>3. s \in Surjection(1..Len(s), ToSet(s))
  BY <1>1, <1>2, Fun_IsSurj
<1>4. IsFiniteSet(1..Len(s)) /\ Cardinality(1..Len(s)) = Len(s)
  BY <1>1, IntervalSize
<1>5. /\ IsFiniteSet(ToSet(s)) /\ Cardinality(ToSet(s)) <= Len(s)
      /\ Cardinality(ToSet(s)) = Len(s) <=> s \in Injection(1..Len(s), ToSet(s))
  BY <1>3, <1>4, FS_Surjection
<1>6. IsInjective(s) => s \in Injection(1..Len(s), ToSet(s))
  BY <1>1, <1>2, Fun_IsInj DEF IsInjective
<1> QED
  BY <1>5, <1>6, FS_CardinalityType

(***************************************************************************)
(* Picked takes the items at the positions I, all of them, in their order. *)
(***************************************************************************)
PickedFrom(items, s, I) ==
    \E at \in [1..Len(items) -> I] :
        /\ \A i \in I : \E n \in 1..Len(items) : at[n] = i
        /\ \A m, n \in 1..Len(items) : /\ items[n] = s[at[n]]
                                       /\ at[m] = at[n] => m = n
                                       /\ m < n => at[m] < at[n]

LEMMA PickedSeq ==
    ASSUME NEW S, NEW s \in Seq(S), NEW I \in SUBSET (DOMAIN s)
    PROVE  Picked(s, I) \in Seq(S) /\ PickedFrom(Picked(s, I), s, I)
<1> DEFINE precedes == {p \in I \X I : p[1] < p[2]}
           N == Cardinality(I)
<1>1. IsFiniteSet(I) /\ I \subseteq Int /\ \A i \in I : s[i] \in S
  BY ItemsOfSeq, FS_Subset
<1>2. \A i, j \in I : <<i, j>> \in precedes <=> i < j
  OBVIOUS
<1>3. StrictOrder(I, precedes)
  BY <1>1, <1>2 DEF StrictOrder
<1>4. Picked(s, I) = Arranged(s, I, precedes)
  BY DEF Picked
<1> HIDE DEF precedes, N
<1>5. N \in Nat /\ ListsInOrder(Arranged(s, I, precedes), s, I, precedes)
  BY <1>1, <1>3, Arrangement DEF N
<1>6. PICK at \in [1..N -> I] :
        /\ Picked(s, I) = [n \in 1..N |-> s[at[n]]]
        /\ \A i \in I : \E n \in 1..N : at[n] = i
        /\ \A m, n \in 1..N : /\ at[m] = at[n] => m = n
                              /\ m < n => <<at[m], at[n]>> \in precedes
  BY <1>4, <1>5 DEF ListsInOrder, N
<1>7. Picked(s, I) \in [1..N -> S]
  BY <1>1, <1>6
<1>8. Picked(s, I) \in Seq(S) /\ Len(Picked(s, I)) = N
  BY <1>5, <1>7, FunctionIsSeq
<1>9. \A m, n \in 1..N : m < n => at[m] < at[n]
  BY <1>2, <1>6
<1> QED
  BY <1>6, <1>8, <1>9 DEF PickedFrom

-----------------------------------------------------------------------------
(***************************************************************************)
(* The rankings, the merge of two, and the best of one.                    *)
(***************************************************************************)
Distinct(chunks) == chunks \in Seq(Chunk) /\ IsInjective(chunks)

LEMMA RankingDistinct ==
    ASSUME NEW k \in Nat, NEW s \in Rankings(k)
    PROVE  Distinct(s)
<1>1. PICK m \in 0..k : s \in [1..m -> Chunk]
  BY DEF Rankings, SeqOf
<1>2. s \in Seq(Chunk)
  BY <1>1, FunctionIsSeq
<1> QED
  BY <1>2 DEF Distinct, Rankings

(***************************************************************************)
(* A merge is the one ranking, and after it what only the other has, in    *)
(* the order of the other.                                                 *)
(***************************************************************************)
MergeOf(s, e5, bm25) ==
    LET n == Len(e5)
    IN  /\ s \in Seq(Chunk) /\ n <= Len(s)
        /\ \A p \in 1..n : s[p] = e5[p]
        /\ \E at \in [(n + 1)..Len(s) -> DOMAIN bm25] :
             /\ \A i \in DOMAIN bm25 :
                  bm25[i] \in ToSet(e5) \/ \E p \in (n + 1)..Len(s) : at[p] = i
             /\ \A p \in (n + 1)..Len(s) : s[p] = bm25[at[p]] /\ s[p] \notin ToSet(e5)
             /\ \A p, q \in (n + 1)..Len(s) : p < q => at[p] < at[q]

LEMMA MergedShape ==
    ASSUME NEW e5 \in Seq(Chunk), NEW bm25 \in Seq(Chunk)
    PROVE  MergeOf(Merged(e5, bm25), e5, bm25)
<1> DEFINE I == {i \in DOMAIN bm25 : bm25[i] \notin ToSet(e5)}
           rest == Picked(bm25, I)
           merged == e5 \o rest
           n == Len(e5)
<1>1. n \in Nat
  BY ItemsOfSeq
<1>2. rest \in Seq(Chunk) /\ PickedFrom(rest, bm25, I)
  <2>1. I \in SUBSET (DOMAIN bm25)
    OBVIOUS
  <2> HIDE DEF I
  <2> QED
    BY <2>1, PickedSeq
<1>3. PICK place \in [1..Len(rest) -> I] :
        /\ \A i \in I : \E m \in 1..Len(rest) : place[m] = i
        /\ \A l, m \in 1..Len(rest) : rest[m] = bm25[place[m]] /\ (l < m => place[l] < place[m])
  BY <1>2 DEF PickedFrom
<1>4. Merged(e5, bm25) = merged
  BY DEF Merged
<1> HIDE DEF rest
<1>5. Len(rest) \in Nat
  BY <1>2, ItemsOfSeq
<1>6. /\ merged \in Seq(Chunk) /\ Len(merged) = n + Len(rest)
      /\ \A p \in 1..n : merged[p] = e5[p]
      /\ \A p \in (n + 1)..(n + Len(rest)) : merged[p] = rest[p - n]
  BY <1>1, <1>2, <1>5, ConcatProperties
<1> HIDE DEF merged, n
<1> DEFINE at == [p \in (n + 1)..Len(merged) |-> place[p - n]]
<1>7. \A p \in (n + 1)..Len(merged) : p - n \in 1..Len(rest) /\ at[p] = place[p - n]
  BY <1>1, <1>5, <1>6
<1>8. \A m \in 1..Len(rest) : m + n \in (n + 1)..Len(merged) /\ at[m + n] = place[m]
  BY <1>1, <1>5, <1>6
<1> HIDE DEF at
<1>9. at \in [(n + 1)..Len(merged) -> DOMAIN bm25]
  BY <1>3, <1>7 DEF at
<1>10. ASSUME NEW i \in DOMAIN bm25, bm25[i] \notin ToSet(e5)
       PROVE  \E p \in (n + 1)..Len(merged) : at[p] = i
  <2>1. PICK m \in 1..Len(rest) : place[m] = i
    BY <1>3, <1>10
  <2> QED
    BY <1>8, <2>1
<1>11. ASSUME NEW p \in (n + 1)..Len(merged)
       PROVE  merged[p] = bm25[at[p]] /\ merged[p] \notin ToSet(e5)
  <2>1. p \in (n + 1)..(n + Len(rest)) /\ p - n \in 1..Len(rest)
    BY <1>6, <1>7
  <2>2. merged[p] = rest[p - n] /\ rest[p - n] = bm25[place[p - n]] /\ place[p - n] \in I
    BY <1>3, <1>6, <2>1
  <2> QED
    BY <1>7, <2>2
<1>12. ASSUME NEW p \in (n + 1)..Len(merged), NEW q \in (n + 1)..Len(merged), p < q
       PROVE  at[p] < at[q]
  <2>1. p - n \in 1..Len(rest) /\ q - n \in 1..Len(rest) /\ p - n < q - n
    BY <1>1, <1>7, <1>12
  <2> QED
    BY <1>3, <1>7, <2>1
<1>13. n <= Len(merged)
  BY <1>1, <1>5, <1>6
<1> HIDE DEF I
<1> QED
  BY <1>4, <1>6, <1>9, <1>10, <1>11, <1>12, <1>13 DEF MergeOf, n

(***************************************************************************)
(* Of two chunks at most one was found first.                              *)
(***************************************************************************)
LEMMA EarlierAsymmetric ==
    ASSUME NEW s, Distinct(s), NEW c, NEW d, Earlier(s, c, d)
    PROVE  ~ Earlier(s, d, c)
<1>1. DOMAIN s \subseteq Int /\ \A i, j \in DOMAIN s : s[i] = s[j] => i = j
  BY ItemsOfSeq DEF Distinct, IsInjective
<1> QED
  BY <1>1 DEF Earlier

LEMMA FoundFirstAsymmetric ==
    ASSUME NEW r, Distinct(r.e5), Distinct(r.bm25), NEW c, NEW d, FoundFirst(r, c, d)
    PROVE  ~ FoundFirst(r, d, c)
BY EarlierAsymmetric DEF FoundFirst

Found(r) == ToSet(r.e5) \cup ToSet(r.bm25)

LEMMA MergedOrder ==
    ASSUME NEW r, Distinct(r.e5), Distinct(r.bm25), NEW s, s = Merged(r.e5, r.bm25)
    PROVE  /\ Distinct(s) /\ ToSet(s) = Found(r)
           /\ \A i, j \in DOMAIN s : FoundFirst(r, s[i], s[j]) <=> i < j
<1> DEFINE n == Len(r.e5)
<1>1. /\ r.e5 \in Seq(Chunk) /\ r.bm25 \in Seq(Chunk) /\ n \in Nat /\ DOMAIN r.e5 = 1..n
      /\ ToSet(r.e5) = {r.e5[p] : p \in 1..n}
      /\ ToSet(r.bm25) = {r.bm25[i] : i \in DOMAIN r.bm25}
  BY ItemsOfSeq DEF Distinct
<1>2. MergeOf(s, r.e5, r.bm25)
  BY <1>1, MergedShape
<1>3. s \in Seq(Chunk) /\ n <= Len(s) /\ \A p \in 1..n : s[p] = r.e5[p]
  BY <1>2 DEF MergeOf
<1>4. PICK at \in [(n + 1)..Len(s) -> DOMAIN r.bm25] :
        /\ \A i \in DOMAIN r.bm25 :
             r.bm25[i] \in ToSet(r.e5) \/ \E p \in (n + 1)..Len(s) : at[p] = i
        /\ \A p \in (n + 1)..Len(s) : s[p] = r.bm25[at[p]] /\ s[p] \notin ToSet(r.e5)
        /\ \A p, q \in (n + 1)..Len(s) : p < q => at[p] < at[q]
  BY <1>2 DEF MergeOf
<1>5. /\ Len(s) \in Nat /\ DOMAIN s = 1..Len(s) /\ ToSet(s) = {s[p] : p \in 1..Len(s)}
      /\ \A p \in DOMAIN s : p \in 1..n \/ p \in (n + 1)..Len(s)
      /\ \A p \in 1..n : p \in DOMAIN s
      /\ \A p \in (n + 1)..Len(s) : p \in DOMAIN s
  <2>1. Len(s) \in Nat /\ DOMAIN s = 1..Len(s) /\ ToSet(s) = {s[p] : p \in 1..Len(s)}
    BY <1>3, ItemsOfSeq
  <2>2. n \in Nat /\ n <= Len(s)
    BY <1>1, <1>3
  <2> HIDE DEF n
  <2>3. /\ \A p \in 1..Len(s) : p \in 1..n \/ p \in (n + 1)..Len(s)
        /\ \A p \in 1..n : p \in 1..Len(s)
        /\ \A p \in (n + 1)..Len(s) : p \in 1..Len(s)
    BY <2>1, <2>2
  <2> QED
    BY <2>1, <2>3
<1>6. \A p \in 1..n : s[p] \in ToSet(r.e5) /\ p \in DOMAIN r.e5
  BY <1>1, <1>3
<1>7. ASSUME NEW i \in DOMAIN s, NEW j \in DOMAIN s, i < j
      PROVE  FoundFirst(r, s[i], s[j])
  <2>1. CASE j \in 1..n
    <3>1. i \in 1..n
      BY <1>1, <1>5, <1>7, <2>1
    <3>2. Earlier(r.e5, s[i], s[j])
      BY <1>3, <1>6, <1>7, <2>1, <3>1 DEF Earlier
    <3> QED
      BY <1>6, <3>1, <3>2 DEF FoundFirst
  <2>2. CASE i \in 1..n /\ j \in (n + 1)..Len(s)
    BY <1>4, <1>6, <2>2 DEF FoundFirst
  <2>3. CASE i \in (n + 1)..Len(s) /\ j \in (n + 1)..Len(s)
    <3>1. at[i] \in DOMAIN r.bm25 /\ at[j] \in DOMAIN r.bm25 /\ at[i] < at[j]
      BY <1>4, <1>7, <2>3
    <3>2. Earlier(r.bm25, s[i], s[j])
      BY <1>4, <2>3, <3>1 DEF Earlier
    <3> QED
      BY <1>4, <2>3, <3>2 DEF FoundFirst
  <2> QED
    BY <1>5, <2>1, <2>2, <2>3
<1>8. \A c, d : FoundFirst(r, c, d) => ~ FoundFirst(r, d, c)
  BY FoundFirstAsymmetric
<1>9. \A i, j \in DOMAIN s : FoundFirst(r, s[i], s[j]) <=> i < j
  <2> TAKE i, j \in DOMAIN s
  <2>1. i = j \/ i < j \/ j < i
    BY <1>5
  <2> QED
    BY <1>5, <1>7, <1>8, <2>1
<1>10. Distinct(s)
  <2>1. ASSUME NEW i \in DOMAIN s, NEW j \in DOMAIN s, s[i] = s[j]
        PROVE  i = j
    <3>1. ~ i < j /\ ~ j < i
      BY <1>7, <1>8, <2>1
    <3> QED
      BY <1>5, <3>1
  <2> QED
    BY <1>3, <2>1 DEF Distinct, IsInjective
<1>11. ToSet(s) = Found(r)
  <2>1. ASSUME NEW p \in DOMAIN s PROVE s[p] \in Found(r)
    <3>1. CASE p \in 1..n
      BY <1>6, <3>1 DEF Found
    <3>2. CASE p \in (n + 1)..Len(s)
      <4>1. s[p] = r.bm25[at[p]] /\ at[p] \in DOMAIN r.bm25
        BY <1>4, <3>2
      <4> QED
        BY <1>1, <4>1 DEF Found
    <3> QED
      BY <1>5, <3>1, <3>2
  <2>2. ToSet(r.e5) \subseteq ToSet(s)
    BY <1>1, <1>3, <1>5
  <2>3. ASSUME NEW i \in DOMAIN r.bm25, r.bm25[i] \notin ToSet(r.e5)
        PROVE  r.bm25[i] \in ToSet(s)
    <3>1. PICK p \in (n + 1)..Len(s) : at[p] = i
      BY <1>4, <2>3
    <3>2. s[p] = r.bm25[i] /\ p \in 1..Len(s)
      BY <1>4, <1>5, <3>1
    <3> QED
      BY <1>5, <3>2
  <2>4. ToSet(s) \subseteq Found(r)
    BY <1>5, <2>1
  <2>5. ToSet(r.bm25) \subseteq ToSet(s)
    BY <1>1, <2>2, <2>3
  <2> QED
    BY <2>2, <2>4, <2>5 DEF Found
<1> QED
  BY <1>9, <1>10, <1>11

(***************************************************************************)
(* A retrieval keeps the best of what was found.                           *)
(***************************************************************************)
RetrievalOK(r, k) == Distinct(r.chunks) /\ Len(r.chunks) <= k /\ KeepsBest(r, k)

LEMMA BestKeepsBest ==
    ASSUME NEW r, Distinct(r.e5), Distinct(r.bm25), NEW k \in Nat, NEW s,
           s = Merged(r.e5, r.bm25),
           r.score \in [ToSet(s) -> Score],
           r.chunks = Best(s, r.score, k)
    PROVE  RetrievalOK(r, k)
<1> DEFINE I == DOMAIN s
           score == r.score
           precedes == {p \in I \X I : Before(s, score, p[1], p[2])}
           sorted == Arranged(s, I, precedes)
           best == r.chunks
<1>0. /\ Distinct(s) /\ ToSet(s) = Found(r)
      /\ \A i, j \in I : FoundFirst(r, s[i], s[j]) <=> i < j
  BY MergedOrder
<1>1. /\ s \in Seq(Chunk) /\ IsInjective(s)
      /\ Len(s) \in Nat /\ I = 1..Len(s) /\ IsFiniteSet(I) /\ Cardinality(I) = Len(s)
      /\ \A i \in I : s[i] \in Chunk /\ score[s[i]] \in Int
      /\ ToSet(s) = {s[i] : i \in I} /\ Cardinality(ToSet(s)) = Len(s)
  <2>1. s \in Seq(Chunk) /\ IsInjective(s)
    BY <1>0 DEF Distinct
  <2>2. /\ Len(s) \in Nat /\ I = 1..Len(s) /\ IsFiniteSet(I) /\ Cardinality(I) = Len(s)
        /\ \A i \in I : s[i] \in Chunk
        /\ ToSet(s) = {s[i] : i \in I} /\ Cardinality(ToSet(s)) = Len(s)
    BY <2>1, ItemsOfSeq, SetOfSeq
  <2>3. \A c \in ToSet(s) : score[c] \in Int
    BY AnsweringAssumption
  <2> QED
    BY <2>1, <2>2, <2>3
<1>2. \A i, j \in I : /\ <<i, j>> \in precedes <=> Before(s, score, i, j)
                      /\ Better(r, s[i], s[j]) <=> Before(s, score, i, j)
  BY <1>0 DEF Better, Before
<1>3. StrictOrder(I, precedes)
  <2> DEFINE rank == [i \in I |-> score[s[i]]]
  <2>0. /\ rank \in [I -> Int] /\ I \subseteq Int
        /\ \A i, j \in I : Before(s, score, i, j)
                           <=> rank[i] > rank[j] \/ (rank[i] = rank[j] /\ i < j)
    BY <1>1 DEF Before
  <2> HIDE DEF rank, I, precedes
  <2>1. ASSUME NEW i \in I, NEW j \in I, NEW l \in I,
               Before(s, score, i, j), Before(s, score, j, l)
        PROVE  Before(s, score, i, l)
    <3>1. /\ rank[i] \in Int /\ rank[j] \in Int /\ rank[l] \in Int
          /\ i \in Int /\ j \in Int /\ l \in Int
      BY <2>0
    <3>2. /\ rank[i] > rank[j] \/ (rank[i] = rank[j] /\ i < j)
          /\ rank[j] > rank[l] \/ (rank[j] = rank[l] /\ j < l)
      BY <2>0, <2>1
    <3>3. rank[i] > rank[l] \/ (rank[i] = rank[l] /\ i < l)
      BY <3>1, <3>2
    <3> QED
      BY <2>0, <3>3
  <2>2. \A i, j \in I : i = j \/ Before(s, score, i, j) \/ Before(s, score, j, i)
    BY <2>0
  <2>3. \A i \in I : ~ Before(s, score, i, i)
    BY <2>0
  <2> QED
    BY <1>2, <2>1, <2>2, <2>3 DEF StrictOrder
<1>4. best = FirstOf(sorted, k)
  BY DEF Best
<1> HIDE DEF precedes
<1>5. ListsInOrder(sorted, s, I, precedes)
  BY <1>1, <1>3, Arrangement
<1> HIDE DEF sorted
<1>6. PICK at \in [1..Len(s) -> I] :
        /\ sorted = [n \in 1..Len(s) |-> s[at[n]]]
        /\ \A i \in I : \E n \in 1..Len(s) : at[n] = i
        /\ \A m, n \in 1..Len(s) : /\ at[m] = at[n] => m = n
                                   /\ m < n => <<at[m], at[n]>> \in precedes
  <2>1. Cardinality(I) = Len(s)
    BY <1>1
  <2> HIDE DEF I
  <2> QED
    BY <1>5, <2>1 DEF ListsInOrder
<1>7. \A m, n \in 1..Len(s) : <<at[m], at[n]>> \in precedes <=> m < n
  <2> TAKE m, n \in 1..Len(s)
  <2>1. at[m] \in I /\ at[n] \in I
    BY <1>6
  <2>2. m = n \/ n < m => <<at[m], at[n]>> \notin precedes
    BY <1>3, <1>6, <2>1 DEF StrictOrder
  <2>3. m = n \/ n < m \/ m < n
    BY <1>1
  <2> QED
    BY <1>6, <2>2, <2>3
<1> HIDE DEF I
<1>8. /\ sorted \in Seq(Chunk) /\ Len(sorted) = Len(s)
      /\ \A n \in 1..Len(s) : sorted[n] = s[at[n]] /\ at[n] \in I
  <2>1. sorted \in [1..Len(s) -> Chunk]
    BY <1>1, <1>6
  <2>2. Len(s) \in Nat
    BY <1>1
  <2>3. sorted \in Seq(Chunk) /\ Len(sorted) = Len(s)
    BY <2>1, <2>2, FunctionIsSeq
  <2> QED
    BY <1>6, <2>3
<1>9. /\ best \in Seq(Chunk) /\ Len(best) \in Nat /\ Len(best) <= k
      /\ Len(best) = Smaller(Cardinality(Found(r)), k)
      /\ \A n \in 1..Len(best) : n \in 1..Len(s) /\ best[n] = s[at[n]]
  <2>1. best \in Seq(Chunk) /\ FirstItems(best, sorted, k)
    BY <1>4, <1>8, FirstOfSeq
  <2> QED
    BY <1>0, <1>1, <1>8, <2>1 DEF FirstItems
<1>10. DOMAIN best = 1..Len(best) /\ \A n \in 1..Len(best) : at[n] \in I /\ best[n] \in Found(r)
  <2>1. DOMAIN best = 1..Len(best)
    BY <1>9, ItemsOfSeq
  <2>2. \A n \in 1..Len(best) : at[n] \in I /\ best[n] = s[at[n]]
    BY <1>6, <1>9
  <2> QED
    BY <1>0, <1>1, <2>1, <2>2
<1>11. IsInjective(best)
  <2> SUFFICES ASSUME NEW m \in 1..Len(best), NEW n \in 1..Len(best), best[m] = best[n]
               PROVE  m = n
    BY <1>10 DEF IsInjective
  <2>1. at[m] = at[n]
    <3>1. at[m] \in DOMAIN s /\ at[n] \in DOMAIN s /\ s[at[m]] = s[at[n]]
      BY <1>9, <1>10 DEF I
    <3> QED
      BY <1>1, <3>1 DEF IsInjective
  <2> QED
    BY <1>6, <1>9, <2>1
<1>12. ASSUME NEW n \in 1..Len(best)
       PROVE  {c \in Found(r) : Better(r, c, best[n])} = {best[j] : j \in 1..(n - 1)}
  <2>1. ASSUME NEW c \in Found(r), Better(r, c, best[n])
        PROVE  \E j \in 1..(n - 1) : c = best[j]
    <3>1. PICK i \in I : c = s[i]
      BY <1>0, <1>1
    <3>2. PICK m \in 1..Len(s) : at[m] = i
      BY <1>6
    <3>3. m < n
      BY <1>2, <1>7, <1>9, <1>10, <2>1, <3>1, <3>2
    <3>4. m \in 1..(n - 1) /\ m \in 1..Len(best)
      BY <1>1, <1>9, <3>2, <3>3
    <3> QED
      BY <1>9, <3>1, <3>2, <3>4
  <2>2. ASSUME NEW j \in 1..(n - 1)
        PROVE  best[j] \in Found(r) /\ Better(r, best[j], best[n])
    <3>1. j \in 1..Len(best) /\ j < n
      BY <1>9
    <3> QED
      BY <1>2, <1>7, <1>9, <1>10, <3>1
  <2> QED
    BY <2>1, <2>2
<1>13. KeepsBest(r, k)
  BY <1>9, <1>10, <1>12 DEF KeepsBest, Found
<1> QED
  BY <1>9, <1>11, <1>13 DEF RetrievalOK, Distinct

LEMMA RetrievalBest ==
    ASSUME NEW e5, NEW bm25, Distinct(e5), Distinct(bm25), NEW k \in Nat,
           NEW r \in Retrieval(e5, bm25, k)
    PROVE  RetrievalOK(r, k)
<1>1. PICK score \in [ToSet(Merged(e5, bm25)) -> Score] :
        r = [e5 |-> e5, bm25 |-> bm25, score |-> score,
             chunks |-> Best(Merged(e5, bm25), score, k)]
  BY DEF Retrieval
<1>2. /\ r.e5 = e5 /\ r.bm25 = bm25 /\ r.score = score
      /\ r.chunks = Best(Merged(e5, bm25), score, k)
  BY <1>1
<1> QED
  BY <1>2, BestKeepsBest

LEMMA NothingFound == Distinct(<<>>) /\ ToSet(<<>>) = {}
<1>1. <<>> \in Seq(Chunk) /\ DOMAIN <<>> = {}
  BY EmptySeq
<1> QED
  BY <1>1 DEF Distinct, IsInjective, ToSet

LEMMA DenseBest ==
    ASSUME NEW k \in Nat, NEW r \in Dense(k)
    PROVE  RetrievalOK(r, k)
<1>1. KInitial \in Nat
  BY AnsweringAssumption
<1>2. PICK e5 \in Rankings(KInitial) : r \in Retrieval(e5, <<>>, k)
  BY DEF Dense
<1> QED
  BY <1>1, <1>2, NothingFound, RankingDistinct, RetrievalBest

LEMMA HybridBest ==
    ASSUME NEW r \in Hybrid
    PROVE  RetrievalOK(r, HybridKFinal)
<1>1. HybridE5K \in Nat /\ HybridBm25K \in Nat /\ HybridKFinal \in Nat
  BY AnsweringAssumption
<1>2. PICK e5 \in Rankings(HybridE5K), bm25 \in Rankings(HybridBm25K) :
        r \in Retrieval(e5, bm25, HybridKFinal)
  BY DEF Hybrid
<1> QED
  BY <1>1, <1>2, RankingDistinct, RetrievalBest

(***************************************************************************)
(* The chunks a verification cites are distinct and among its evidence.    *)
(***************************************************************************)
LEMMA NamedDistinct ==
    ASSUME NEW ids \in ChunkIds, NEW evidence, Distinct(evidence)
    PROVE  /\ Distinct(NamedChunks(ids, evidence))
           /\ ToSet(NamedChunks(ids, evidence)) \subseteq ToSet(evidence)
<1> DEFINE I == {i \in DOMAIN ids : /\ ids[i] \in ToSet(evidence)
                                    /\ \A j \in 1..(i - 1) : ids[j] # ids[i]}
           named == Picked(ids, I)
<1>1. ids \in Seq(ToSet(ids)) /\ evidence \in Seq(Chunk) /\ ToSet(evidence) \subseteq Chunk
  BY AnsweringAssumption, ItemsOfSeq DEF Distinct
<1>2. DOMAIN ids = 1..Len(ids) /\ Len(ids) \in Nat
  BY <1>1, ItemsOfSeq
<1>3. I \in SUBSET (DOMAIN ids)
  OBVIOUS
<1>4. \A i, j \in I : ids[i] \in ToSet(evidence) /\ (ids[i] = ids[j] => i = j)
  <2> SUFFICES ASSUME NEW i \in I, NEW j \in I, ids[i] = ids[j] PROVE i = j
    OBVIOUS
  <2>1. i \in 1..Len(ids) /\ j \in 1..Len(ids)
    BY <1>2
  <2>2. ~ i < j /\ ~ j < i
    BY <1>2, <2>1
  <2> QED
    BY <1>2, <2>1, <2>2
<1>5. NamedChunks(ids, evidence) = named
  BY DEF NamedChunks
<1> HIDE DEF I
<1>6. named \in Seq(ToSet(ids)) /\ PickedFrom(named, ids, I)
  BY <1>1, <1>3, PickedSeq
<1> HIDE DEF named
<1>7. PICK at \in [1..Len(named) -> I] :
        \A m, n \in 1..Len(named) : named[n] = ids[at[n]] /\ (at[m] = at[n] => m = n)
  BY <1>6 DEF PickedFrom
<1>8. Len(named) \in Nat /\ DOMAIN named = 1..Len(named) /\ named \in [1..Len(named) -> ToSet(ids)]
  BY <1>6, ItemsOfSeq
<1>9. \A n \in 1..Len(named) : named[n] \in ToSet(evidence)
  BY <1>4, <1>7
<1>10. named \in [1..Len(named) -> Chunk]
  BY <1>1, <1>8, <1>9
<1>11. named \in Seq(Chunk)
  BY <1>8, <1>10, FunctionIsSeq
<1>12. IsInjective(named)
  BY <1>4, <1>7, <1>8 DEF IsInjective
<1>13. ToSet(named) \subseteq ToSet(evidence)
  <2>1. ToSet(named) = {named[n] : n \in 1..Len(named)}
    BY <1>11, ItemsOfSeq
  <2> QED
    BY <1>9, <2>1
<1> QED
  BY <1>5, <1>11, <1>12, <1>13 DEF Distinct

LEMMA CitationsInEvidence ==
    ASSUME NEW evidence, Distinct(evidence), NEW sources \in Citations(evidence)
    PROVE  Distinct(sources) /\ ToSet(sources) \subseteq ToSet(evidence)
<1>1. CASE sources = <<>>
  BY <1>1, NothingFound
<1>2. ASSUME NEW ids \in ChunkIds, sources = NamedChunks(ids, evidence)
      PROVE  Distinct(sources) /\ ToSet(sources) \subseteq ToSet(evidence)
  BY <1>2, NamedDistinct
<1> QED
  BY <1>1, <1>2 DEF Citations

(***************************************************************************)
(* The claims of an answer: each is a claim, and no two fold to the same.  *)
(***************************************************************************)
FoldsOnce(claims) ==
    \A i, j \in 1..Len(claims) : Fold(claims[i]) = Fold(claims[j]) => i = j

LEMMA ClaimListsFold == \A claims \in ClaimLists : claims \in Seq(Claim) /\ FoldsOnce(claims)
<1> SUFFICES ASSUME NEW items \in ClaimList
             PROVE  Deduplicated(items) \in Seq(Claim) /\ FoldsOnce(Deduplicated(items))
  BY DEF ClaimLists
<1> DEFINE I == {i \in DOMAIN items : Kept(items, i)}
           kept == Picked(items, I)
           claims == FirstOf(kept, MaxClaims)
<1>1. items \in Seq(ToSet(items)) /\ MaxClaims \in Nat
  BY AnsweringAssumption
<1>2. DOMAIN items = 1..Len(items) /\ Len(items) \in Nat
  BY <1>1, ItemsOfSeq
<1>3. I \in SUBSET (DOMAIN items)
  OBVIOUS
<1>4. \A i, j \in I : items[i] \in Claim /\ (Fold(items[i]) = Fold(items[j]) => i = j)
  <2>1. \A i \in I : items[i] \in Claim /\ i \in 1..Len(items)
    BY <1>2 DEF Kept
  <2> SUFFICES ASSUME NEW i \in I, NEW j \in I, Fold(items[i]) = Fold(items[j]) PROVE i = j
    BY <2>1
  <2>2. ~ i < j
    BY <1>2, <2>1 DEF Kept
  <2>3. ~ j < i
    BY <1>2, <2>1 DEF Kept
  <2> QED
    BY <1>2, <2>1, <2>2, <2>3
<1>5. Deduplicated(items) = claims
  BY DEF Deduplicated
<1> HIDE DEF I
<1>6. kept \in Seq(ToSet(items)) /\ PickedFrom(kept, items, I)
  BY <1>1, <1>3, PickedSeq
<1> HIDE DEF kept
<1>7. PICK at \in [1..Len(kept) -> I] :
        \A m, n \in 1..Len(kept) : kept[n] = items[at[n]] /\ (at[m] = at[n] => m = n)
  BY <1>6 DEF PickedFrom
<1>8. /\ \A n \in 1..Len(kept) : kept[n] \in Claim
      /\ \A m, n \in 1..Len(kept) : Fold(kept[m]) = Fold(kept[n]) => m = n
  BY <1>4, <1>7
<1>9. claims \in Seq(ToSet(items)) /\ FirstItems(claims, kept, MaxClaims)
  BY <1>1, <1>6, FirstOfSeq
<1> HIDE DEF claims
<1>10. /\ Len(claims) \in Nat
       /\ \A n \in 1..Len(claims) : n \in 1..Len(kept) /\ claims[n] = kept[n]
  BY <1>9 DEF FirstItems
<1>11. claims \in [1..Len(claims) -> ToSet(items)]
  BY <1>9, ItemsOfSeq
<1>12. claims \in [1..Len(claims) -> Claim]
  BY <1>8, <1>10, <1>11
<1>13. claims \in Seq(Claim)
  BY <1>10, <1>12, FunctionIsSeq
<1> QED
  BY <1>5, <1>8, <1>10, <1>13 DEF FoldsOnce

-----------------------------------------------------------------------------
(***************************************************************************)
(* The inductive invariant, a question at a time, in mode m: what the      *)
(* model is about to be asked with is a retrieval of the mode; an answer   *)
(* has the sources it was generated from; the claims still to be verified  *)
(* and those verified are claims of one list; what each cites is among its *)
(* evidence.                                                               *)
(***************************************************************************)
QuestionsIn(m) == IF m = "e5_bm25_reranker" THEN Hybrid ELSE DenseForQuestion
ClaimsIn(m) == IF m = "e5_bm25_reranker" THEN Hybrid ELSE DenseForClaim
QuestionLimitIn(m) == IF m = "e5_bm25_reranker" THEN HybridKFinal ELSE KFinal
ClaimLimitIn(m) ==
    IF m = "e5_bm25_reranker" THEN HybridKFinal ELSE Smaller(KFinal, ClaimKFinal)

LEMMA ModeChooses ==
    /\ ForQuestion = QuestionsIn(mode) /\ ForClaim = ClaimsIn(mode)
    /\ QuestionLimit = QuestionLimitIn(mode) /\ ClaimLimit = ClaimLimitIn(mode)
BY DEF ForQuestion, ForClaim, QuestionLimit, ClaimLimit, ByMode,
       QuestionsIn, ClaimsIn, QuestionLimitIn, ClaimLimitIn

LEMMA RetrievalsKeepBest ==
    ASSUME NEW m
    PROVE  /\ \A r \in QuestionsIn(m) : RetrievalOK(r, QuestionLimitIn(m))
           /\ \A r \in ClaimsIn(m) : RetrievalOK(r, ClaimLimitIn(m))
<1>1. KFinal \in Nat /\ Smaller(KFinal, ClaimKFinal) \in Nat
  BY AnsweringAssumption DEF Smaller
<1>2. \A r \in DenseForQuestion : RetrievalOK(r, KFinal)
  BY <1>1, DenseBest DEF DenseForQuestion
<1>3. \A r \in DenseForClaim : RetrievalOK(r, Smaller(KFinal, ClaimKFinal))
  BY <1>1, DenseBest DEF DenseForClaim
<1> QED
  BY <1>2, <1>3, HybridBest DEF QuestionsIn, ClaimsIn, QuestionLimitIn, ClaimLimitIn

LEMMA LimitsAreNumbers == \A m : QuestionLimitIn(m) \in Nat /\ ClaimLimitIn(m) \in Nat
BY AnsweringAssumption DEF QuestionLimitIn, ClaimLimitIn, Smaller

Task(m) ==
    [stage: Stage, retrieved: QuestionsIn(m) \cup ClaimsIn(m) \cup {None},
     context: SUBSET Chunk, sources: Seq(Chunk), informative: BOOLEAN,
     claims: Seq(Claim), verified: Seq(Item), status: {"ok", "no_context", "error", None}]

RetrievedOK(t, m) ==
    /\ t.stage = "generate" => t.retrieved \in QuestionsIn(m) /\ t.sources = t.retrieved.chunks
    /\ t.stage = "judge" => t.retrieved \in ClaimsIn(m)

SourcesMatch(t) ==
    /\ t.stage \in {"extract", "verify", "judge"} =>
         t.sources # <<>> /\ ToSet(t.sources) = t.context
    /\ t.stage = "finished" =>
         /\ (t.status = "ok") = (t.sources # <<>>)
         /\ ToSet(t.sources) = t.context
         /\ t.verified # <<>> => t.status = "ok"

CitesEvidence(item, m) ==
    /\ Distinct(item.sources) /\ ToSet(item.sources) \subseteq item.evidence
    /\ Cardinality(item.evidence) <= ClaimLimitIn(m)

VerifiedOnce(verified, claims) ==
    /\ \A i, j \in 1..Len(verified) :
           Fold(verified[i].claim) = Fold(verified[j].claim) => i = j
    /\ \A i \in 1..Len(verified), j \in 1..Len(claims) :
           Fold(verified[i].claim) # Fold(claims[j])

TaskOK(t, m) ==
    /\ t \in Task(m)
    /\ Distinct(t.sources)
    /\ RetrievedOK(t, m) /\ SourcesMatch(t)
    /\ (t.stage \in {"verify", "judge"}) = (t.claims # <<>>)
    /\ t.stage \notin {"verify", "judge", "finished"} => t.verified = <<>>
    /\ FoldsOnce(t.claims) /\ VerifiedOnce(t.verified, t.claims)
    /\ \A i \in 1..Len(t.verified) : CitesEvidence(t.verified[i], m)

AnsweringInv ==
    /\ task = [q \in Question |-> task[q]]
    /\ \A q \in Question : TaskOK(task[q], mode)
    /\ Cardinality(Held) <= Limit
    /\ mode \in Mode
    /\ answered \in BOOLEAN

LEMMA EmptyTask ==
    /\ <<>> \in Seq(Chunk) /\ <<>> \in Seq(Claim) /\ <<>> \in Seq(Item)
    /\ Len(<<>>) = 0 /\ Distinct(<<>>) /\ ToSet(<<>>) = {}
    /\ FoldsOnce(<<>>) /\ VerifiedOnce(<<>>, <<>>)
<1>1. <<>> \in Seq(Chunk) /\ <<>> \in Seq(Claim) /\ <<>> \in Seq(Item) /\ Len(<<>>) = 0
  BY EmptySeq
<1>2. 1..0 = {}
  OBVIOUS
<1> QED
  BY <1>1, <1>2, NothingFound DEF FoldsOnce, VerifiedOnce

LEMMA WaitingOK == \A m : TaskOK(Waiting, m)
<1> TAKE m
<1>0. /\ Waiting.stage = "waiting" /\ Waiting.retrieved = None /\ Waiting.context = {}
      /\ Waiting.sources = <<>> /\ Waiting.claims = <<>> /\ Waiting.verified = <<>>
  BY DEF Waiting
<1>1. Waiting \in Task(m)
  BY EmptyTask DEF Waiting, Task, Stage
<1>2. SourcesMatch(Waiting) /\ RetrievedOK(Waiting, m)
  BY <1>0 DEF SourcesMatch, RetrievedOK
<1>3. 1..0 = {}
  OBVIOUS
<1> QED
  BY <1>0, <1>1, <1>2, <1>3, EmptyTask DEF TaskOK

(***************************************************************************)
(* A question that is finished, with the answer it got or without one.     *)
(***************************************************************************)
LEMMA EndedOK ==
    ASSUME NEW m, NEW t \in Task(m), NEW status \in {"ok", "no_context", "error"},
           Distinct(t.sources), (status = "ok") = (t.sources # <<>>),
           ToSet(t.sources) = t.context, t.verified # <<>> => status = "ok",
           VerifiedOnce(t.verified, <<>>),
           \A i \in 1..Len(t.verified) : CitesEvidence(t.verified[i], m)
    PROVE  TaskOK(Ended(t, status), m)
<1> DEFINE u == Ended(t, status)
<1>1. /\ u.stage = "finished" /\ u.retrieved = None /\ u.context = t.context
      /\ u.sources = t.sources /\ u.claims = <<>> /\ u.verified = t.verified
      /\ u.status = status
  BY DEF Ended, Task
<1>2. u \in Task(m)
  BY EmptyTask DEF Ended, Task, Stage
<1> HIDE DEF u
<1>3. SourcesMatch(u) /\ RetrievedOK(u, m)
  BY <1>1 DEF SourcesMatch, RetrievedOK
<1>4. TaskOK(u, m)
  BY <1>1, <1>2, <1>3, EmptyTask DEF TaskOK
<1> QED
  BY <1>4 DEF u

LEMMA EndedWithout ==
    ASSUME NEW m, NEW status \in {"no_context", "error"}
    PROVE  TaskOK(Ended(Waiting, status), m)
<1>1. /\ Waiting.context = {} /\ Waiting.sources = <<>> /\ Waiting.verified = <<>>
  BY DEF Waiting
<1>2. Waiting \in Task(m)
  BY WaitingOK DEF TaskOK
<1>3. \A i \in 1..Len(<<>>) : CitesEvidence(<<>>[i], m)
  BY EmptyTask
<1> QED
  BY <1>1, <1>2, <1>3, EmptyTask, EndedOK

(***************************************************************************)
(* A step of one question keeps the invariant when its new task is as it   *)
(* should be and it takes no new slot.                                     *)
(***************************************************************************)
LEMMA PutKeeps ==
    ASSUME AnsweringInv, NEW q \in Question, NEW t, TaskOK(t, mode), Put(q, t)
    PROVE  /\ task' = [r \in Question |-> task'[r]]
           /\ \A r \in Question : TaskOK(task'[r], mode)
<1>1. \A r \in Question : task'[r] = IF r = q THEN t ELSE task[r]
  BY DEF AnsweringInv, Put
<1>2. task' = [r \in Question |-> task'[r]]
  BY DEF AnsweringInv, Put
<1> QED
  BY <1>1, <1>2 DEF AnsweringInv

LEMMA NoNewSlot ==
    ASSUME AnsweringInv, NEW q \in Question, NEW t, Put(q, t), task[q].stage \in Running
    PROVE  Cardinality(Held') <= Limit
<1>1. Held' \subseteq Held
  BY DEF AnsweringInv, Put, Held
<1>2. IsFiniteSet(Held)
  BY AnsweringAssumption, FS_Subset DEF Held
<1>3. Cardinality(Held') <= Cardinality(Held) /\ Cardinality(Held') \in Nat
      /\ Cardinality(Held) \in Nat /\ Limit \in Nat
  BY <1>1, <1>2, FS_Subset, FS_CardinalityType, AnsweringAssumption
<1> QED
  BY <1>3 DEF AnsweringInv

LEMMA WorkingStep ==
    ASSUME AnsweringInv, NEW q \in Question, NEW t, TaskOK(t, mode), Put(q, t),
           task[q].stage \in Running, UNCHANGED <<mode, answered>>
    PROVE  AnsweringInv'
<1>1. /\ task' = [r \in Question |-> task'[r]]
      /\ \A r \in Question : TaskOK(task'[r], mode)
  BY PutKeeps
<1>2. Cardinality(Held') <= Limit
  BY NoNewSlot
<1>3. mode' = mode /\ answered' = answered
  OBVIOUS
<1> QED
  BY <1>1, <1>2, <1>3 DEF AnsweringInv

LEMMA WithoutKeeps ==
    ASSUME AnsweringInv, NEW q \in Question, task[q].stage \in Running,
           NEW status \in {"no_context", "error"}, FinishWithout(q, status),
           UNCHANGED <<mode, answered>>
    PROVE  AnsweringInv'
<1>1. TaskOK(Ended(Waiting, status), mode)
  BY EndedWithout
<1>2. Put(q, Ended(Waiting, status))
  BY DEF FinishWithout
<1> QED
  BY <1>1, <1>2, WorkingStep

-----------------------------------------------------------------------------
LEMMA EnterKeeps ==
    ASSUME AnsweringInv, NEW q \in Question, Enter(q) PROVE AnsweringInv'
<1> DEFINE t == [task[q] EXCEPT !.stage = "retrieve"]
<1>0. /\ task[q].stage = "waiting" /\ Cardinality(Held) < Limit /\ Put(q, t)
      /\ mode' = mode /\ answered' = answered
  BY DEF Enter, Slots
<1>1. TaskOK(task[q], mode) /\ task[q] \in Task(mode)
  BY DEF AnsweringInv, TaskOK
<1>2. /\ t.stage = "retrieve" /\ t.sources = task[q].sources /\ t.claims = task[q].claims
      /\ t.verified = task[q].verified /\ t \in Task(mode)
  BY <1>1 DEF Task, Stage
<1>3. TaskOK(t, mode)
  <2> HIDE DEF t
  <2>1. SourcesMatch(t) /\ RetrievedOK(t, mode)
    BY <1>2 DEF SourcesMatch, RetrievedOK
  <2> QED
    BY <1>0, <1>1, <1>2, <2>1 DEF TaskOK
<1> HIDE DEF t
<1>4. /\ task' = [r \in Question |-> task'[r]]
      /\ \A r \in Question : TaskOK(task'[r], mode)
  BY <1>0, <1>3, PutKeeps
<1>5. Cardinality(Held') <= Limit
  <2>1. Held' \subseteq Held \cup {q}
    BY <1>0 DEF AnsweringInv, Put, Held
  <2>2. IsFiniteSet(Held) /\ q \notin Held
    BY <1>0, AnsweringAssumption, FS_Subset DEF Held, Running
  <2>3. IsFiniteSet(Held \cup {q}) /\ Cardinality(Held \cup {q}) = Cardinality(Held) + 1
    BY <2>2, FS_AddElement
  <2>4. Cardinality(Held') <= Cardinality(Held \cup {q}) /\ Cardinality(Held') \in Nat
        /\ Cardinality(Held) \in Nat /\ Limit \in Nat
    BY <2>1, <2>2, <2>3, FS_Subset, FS_CardinalityType, AnsweringAssumption
  <2> QED
    BY <1>0, <2>3, <2>4
<1> QED
  BY <1>0, <1>4, <1>5 DEF AnsweringInv

LEMMA RetrieveKeeps ==
    ASSUME AnsweringInv, NEW q \in Question, Retrieve(q) PROVE AnsweringInv'
<1>0. task[q].stage = "retrieve" /\ task[q].stage \in Running /\ UNCHANGED <<mode, answered>>
  BY DEF Retrieve, Running, Stage
<1>1. TaskOK(task[q], mode) /\ task[q] \in Task(mode)
  BY DEF AnsweringInv, TaskOK
<1>2. CASE FinishWithout(q, "error")
  BY <1>0, <1>2, WithoutKeeps
<1>3. ASSUME NEW r \in ForQuestion,
             Put(q, [task[q] EXCEPT !.stage = "generate", !.retrieved = r, !.sources = r.chunks])
      PROVE  AnsweringInv'
  <2> DEFINE t == [task[q] EXCEPT !.stage = "generate", !.retrieved = r, !.sources = r.chunks]
  <2>1. r \in QuestionsIn(mode) /\ Distinct(r.chunks)
    BY <1>3, ModeChooses, RetrievalsKeepBest DEF RetrievalOK
  <2>2. /\ t.stage = "generate" /\ t.retrieved = r /\ t.sources = r.chunks
        /\ t.claims = task[q].claims /\ t.verified = task[q].verified /\ t \in Task(mode)
    BY <1>1, <2>1 DEF Task, Stage, Distinct
  <2>3. Put(q, t)
    BY <1>3
  <2> HIDE DEF t
  <2>4. SourcesMatch(t) /\ RetrievedOK(t, mode)
    BY <2>1, <2>2 DEF SourcesMatch, RetrievedOK
  <2>5. TaskOK(t, mode)
    BY <1>0, <1>1, <2>1, <2>2, <2>4 DEF TaskOK
  <2> QED
    BY <1>0, <2>3, <2>5, WorkingStep
<1> QED
  BY <1>2, <1>3 DEF Retrieve

(***************************************************************************)
(* The answer is generated from the chunks that were retrieved, which are  *)
(* its sources; without any it is not asked for.                           *)
(***************************************************************************)
LEMMA GenerateKeeps ==
    ASSUME AnsweringInv, NEW q \in Question, Generate(q) PROVE AnsweringInv'
<1>0. task[q].stage = "generate" /\ task[q].stage \in Running /\ UNCHANGED <<mode, answered>>
  BY DEF Generate, Running, Stage
<1>1. TaskOK(task[q], mode) /\ task[q] \in Task(mode)
  BY DEF AnsweringInv, TaskOK
<1>2. task[q].sources = task[q].retrieved.chunks
  BY <1>0, <1>1 DEF TaskOK, RetrievedOK
<1>3. CASE FinishWithout(q, "no_context") \/ FinishWithout(q, "error")
  BY <1>0, <1>3, WithoutKeeps
<1>4. ASSUME NEW informative \in BOOLEAN, task[q].retrieved.chunks # <<>>,
             Put(q, [task[q] EXCEPT !.stage = "extract", !.retrieved = None,
                                    !.context = ToSet(task[q].retrieved.chunks),
                                    !.informative = informative])
      PROVE  AnsweringInv'
  <2> DEFINE shown == ToSet(task[q].retrieved.chunks)
             t == [task[q] EXCEPT !.stage = "extract", !.retrieved = None, !.context = shown,
                                  !.informative = informative]
  <2>1. shown \in SUBSET Chunk /\ shown = ToSet(task[q].sources)
    BY <1>1, <1>2, ItemsOfSeq DEF TaskOK, Distinct
  <2>2. Put(q, t)
    BY <1>4
  <2> HIDE DEF shown
  <2>3. /\ t.stage = "extract" /\ t.context = shown /\ t.sources = task[q].sources
        /\ t.claims = task[q].claims /\ t.verified = task[q].verified /\ t \in Task(mode)
    BY <1>1, <2>1 DEF Task, Stage
  <2> HIDE DEF t
  <2>4. SourcesMatch(t) /\ RetrievedOK(t, mode)
    BY <1>2, <1>4, <2>1, <2>3 DEF SourcesMatch, RetrievedOK
  <2>5. TaskOK(t, mode)
    BY <1>0, <1>1, <2>3, <2>4 DEF TaskOK
  <2> QED
    BY <1>0, <2>2, <2>5, WorkingStep
<1> QED
  BY <1>3, <1>4 DEF Generate, GenerateAnswer

(***************************************************************************)
(* The answer has its claims: verification starts on them, or there are    *)
(* none and the question is finished.                                      *)
(***************************************************************************)
LEMMA ExtractKeeps ==
    ASSUME AnsweringInv, NEW q \in Question, ExtractClaims(q) PROVE AnsweringInv'
<1>0. task[q].stage = "extract" /\ task[q].stage \in Running /\ UNCHANGED <<mode, answered>>
  BY DEF ExtractClaims, Running, Stage
<1>1. TaskOK(task[q], mode) /\ task[q] \in Task(mode)
  BY DEF AnsweringInv, TaskOK
<1>2. /\ task[q].sources # <<>> /\ ToSet(task[q].sources) = task[q].context
      /\ task[q].verified = <<>> /\ Distinct(task[q].sources)
  BY <1>0, <1>1 DEF TaskOK, SourcesMatch
<1>3. PICK claims \in IF task[q].informative THEN ClaimLists ELSE {<<>>} :
        IF claims = <<>> THEN Put(q, Ended(task[q], "ok"))
        ELSE Put(q, [task[q] EXCEPT !.stage = "verify", !.claims = claims])
  BY DEF ExtractClaims
<1>4. claims \in Seq(Claim) /\ FoldsOnce(claims)
  BY EmptyTask, ClaimListsFold
<1>5. \A i \in 1..Len(<<>>) : CitesEvidence(<<>>[i], mode)
  BY EmptyTask
<1>6. CASE claims = <<>>
  <2>1. TaskOK(Ended(task[q], "ok"), mode)
    BY <1>1, <1>2, <1>5, EmptyTask, EndedOK
  <2> QED
    BY <1>0, <1>3, <1>6, <2>1, WorkingStep
<1>7. CASE claims # <<>>
  <2> DEFINE t == [task[q] EXCEPT !.stage = "verify", !.claims = claims]
  <2>1. Put(q, t)
    BY <1>3, <1>7
  <2>2. /\ t.stage = "verify" /\ t.sources = task[q].sources /\ t.context = task[q].context
        /\ t.claims = claims /\ t.verified = <<>> /\ t \in Task(mode)
    BY <1>1, <1>2, <1>4 DEF Task, Stage
  <2> HIDE DEF t
  <2>3. SourcesMatch(t) /\ RetrievedOK(t, mode)
    BY <1>2, <2>2 DEF SourcesMatch, RetrievedOK
  <2>4. VerifiedOnce(<<>>, claims)
    BY EmptyTask DEF VerifiedOnce
  <2>5. TaskOK(t, mode)
    BY <1>2, <1>4, <1>5, <1>7, <2>2, <2>3, <2>4 DEF TaskOK
  <2> QED
    BY <1>0, <2>1, <2>5, WorkingStep
<1> QED
  BY <1>6, <1>7

(***************************************************************************)
(* The verification of the next claim is done, whatever came of it.        *)
(***************************************************************************)
LEMMA NextClaim ==
    ASSUME NEW claims \in Seq(Claim), claims # <<>>, FoldsOnce(claims)
    PROVE  /\ Head(claims) \in Claim /\ Tail(claims) \in Seq(Claim)
           /\ FoldsOnce(Tail(claims))
           /\ \A j \in 1..Len(Tail(claims)) : Fold(Tail(claims)[j]) # Fold(Head(claims))
           /\ \A j \in 1..Len(Tail(claims)) :
                \E i \in 1..Len(claims) : Tail(claims)[j] = claims[i]
           /\ \E i \in 1..Len(claims) : Head(claims) = claims[i]
<1>1. /\ Head(claims) \in Claim /\ Tail(claims) \in Seq(Claim)
      /\ Len(claims) \in Nat /\ Len(claims) # 0 /\ Len(Tail(claims)) = Len(claims) - 1
      /\ Head(claims) = claims[1]
  BY HeadTailProperties, ItemsOfSeq, EmptySeq
<1>2. \A j \in 1..Len(Tail(claims)) : j + 1 \in 1..Len(claims) /\ Tail(claims)[j] = claims[j + 1]
  BY <1>1, HeadTailProperties
<1>3. 1 \in 1..Len(claims)
  BY <1>1
<1>4. \A i, j \in 1..Len(Tail(claims)) : Fold(Tail(claims)[i]) = Fold(Tail(claims)[j]) => i = j
  <2> TAKE i, j \in 1..Len(Tail(claims))
  <2>1. Fold(claims[i + 1]) = Fold(claims[j + 1]) => i + 1 = j + 1
    BY <1>2 DEF FoldsOnce
  <2> QED
    BY <1>1, <1>2, <2>1
<1>5. ASSUME NEW j \in 1..Len(Tail(claims))
      PROVE  Fold(Tail(claims)[j]) # Fold(Head(claims))
  <2>1. j + 1 # 1
    BY <1>1
  <2> QED
    BY <1>1, <1>2, <1>3, <2>1 DEF FoldsOnce
<1> QED
  BY <1>1, <1>2, <1>3, <1>4, <1>5 DEF FoldsOnce

LEMMA VerifiedGrows ==
    ASSUME NEW claims \in Seq(Claim), claims # <<>>, FoldsOnce(claims), NEW m,
           NEW verified \in Seq(Item), VerifiedOnce(verified, claims),
           \A i \in 1..Len(verified) : CitesEvidence(verified[i], m),
           NEW item \in Item, item.claim = Head(claims), CitesEvidence(item, m)
    PROVE  /\ Append(verified, item) \in Seq(Item) /\ Append(verified, item) # <<>>
           /\ VerifiedOnce(Append(verified, item), Tail(claims))
           /\ \A i \in 1..Len(Append(verified, item)) : CitesEvidence(Append(verified, item)[i], m)
<1> DEFINE grown == Append(verified, item)
           n == Len(verified)
<1>1. /\ grown \in Seq(Item) /\ n \in Nat /\ Len(grown) = n + 1 /\ grown[n + 1] = item
      /\ \A i \in 1..n : grown[i] = verified[i]
  BY ItemsOfSeq
<1>2. \A i \in 1..Len(grown) : i = n + 1 \/ i \in 1..n
  BY <1>1
<1> HIDE DEF grown, n
<1>3. grown # <<>>
  BY <1>1, EmptyTask
<1>4. \A i \in 1..Len(grown) : CitesEvidence(grown[i], m)
  BY <1>1, <1>2 DEF n
<1>5. \A i \in 1..n : Fold(grown[i].claim) # Fold(item.claim)
  BY <1>1, NextClaim DEF VerifiedOnce, n
<1>6. \A i, j \in 1..Len(grown) : Fold(grown[i].claim) = Fold(grown[j].claim) => i = j
  <2> TAKE i, j \in 1..Len(grown)
  <2>1. CASE i \in 1..n /\ j \in 1..n
    BY <1>1, <2>1 DEF VerifiedOnce, n
  <2>2. CASE i = n + 1 \/ j = n + 1
    BY <1>1, <1>2, <1>5, <2>2
  <2> QED
    BY <1>2, <2>1, <2>2
<1>7. \A i \in 1..Len(grown), j \in 1..Len(Tail(claims)) :
        Fold(grown[i].claim) # Fold(Tail(claims)[j])
  <2> TAKE i \in 1..Len(grown), j \in 1..Len(Tail(claims))
  <2>1. CASE i = n + 1
    BY <1>1, <2>1, NextClaim
  <2>2. CASE i \in 1..n
    <3>1. PICK l \in 1..Len(claims) : Tail(claims)[j] = claims[l]
      BY NextClaim
    <3> QED
      BY <1>1, <2>2, <3>1 DEF VerifiedOnce, n
  <2> QED
    BY <1>2, <2>1, <2>2
<1>8. VerifiedOnce(grown, Tail(claims))
  BY <1>6, <1>7 DEF VerifiedOnce
<1> QED
  BY <1>1, <1>3, <1>4, <1>8 DEF grown

LEMMA AppendKeeps ==
    ASSUME AnsweringInv, NEW q \in Question, task[q].stage \in {"verify", "judge"},
           NEW item \in Item, item.claim = Head(task[q].claims), CitesEvidence(item, mode),
           AppendVerification(q, item), UNCHANGED <<mode, answered>>
    PROVE  AnsweringInv'
<1>1. /\ TaskOK(task[q], mode) /\ task[q] \in Task(mode) /\ task[q].stage \in Running
  BY DEF AnsweringInv, TaskOK, Running, Stage
<1>2. /\ task[q].claims \in Seq(Claim) /\ task[q].claims # <<>>
      /\ task[q].verified \in Seq(Item)
  BY <1>1 DEF TaskOK, Task
<1>3. /\ task[q].sources # <<>> /\ ToSet(task[q].sources) = task[q].context
      /\ Distinct(task[q].sources)
      /\ FoldsOnce(task[q].claims) /\ VerifiedOnce(task[q].verified, task[q].claims)
      /\ \A i \in 1..Len(task[q].verified) : CitesEvidence(task[q].verified[i], mode)
  BY <1>1 DEF TaskOK, SourcesMatch
<1>4. Tail(task[q].claims) \in Seq(Claim) /\ FoldsOnce(Tail(task[q].claims))
  BY <1>2, <1>3, NextClaim
<1>5. PICK grown, rest : grown = Append(task[q].verified, item) /\ rest = Tail(task[q].claims)
  OBVIOUS
<1>6. /\ grown \in Seq(Item) /\ grown # <<>> /\ VerifiedOnce(grown, rest)
      /\ \A i \in 1..Len(grown) : CitesEvidence(grown[i], mode)
  BY <1>2, <1>3, <1>5, VerifiedGrows
<1> DEFINE t == [task[q] EXCEPT !.stage = "verify", !.retrieved = None, !.claims = rest,
                                !.verified = grown]
<1>7. /\ t.stage = "verify" /\ t.sources = task[q].sources /\ t.context = task[q].context
      /\ t.claims = rest /\ t.verified = grown /\ t \in Task(mode)
  BY <1>1, <1>4, <1>5, <1>6 DEF Task, Stage
<1>8. Put(q, IF rest = <<>> THEN Ended(t, "ok") ELSE t)
  BY <1>1, <1>5, <1>7 DEF AppendVerification, Task
<1> HIDE DEF t
<1>9. CASE rest = <<>>
  <2>1. TaskOK(Ended(t, "ok"), mode)
    BY <1>3, <1>6, <1>7, <1>9, EndedOK
  <2> QED
    BY <1>1, <1>8, <1>9, <2>1, WorkingStep
<1>10. CASE rest # <<>>
  <2>1. SourcesMatch(t) /\ RetrievedOK(t, mode)
    BY <1>3, <1>7 DEF SourcesMatch, RetrievedOK
  <2>2. TaskOK(t, mode)
    BY <1>3, <1>4, <1>5, <1>6, <1>7, <1>10, <2>1 DEF TaskOK
  <2> QED
    BY <1>1, <1>8, <1>10, <2>2, WorkingStep
<1> QED
  BY <1>9, <1>10

LEMMA ClaimAtHand ==
    ASSUME AnsweringInv, NEW q \in Question, task[q].stage \in {"verify", "judge"}
    PROVE  Head(task[q].claims) \in Claim
<1>1. TaskOK(task[q], mode) /\ task[q].claims \in Seq(Claim) /\ task[q].claims # <<>>
  BY DEF AnsweringInv, TaskOK, Task
<1> QED
  BY <1>1, NextClaim DEF TaskOK

(***************************************************************************)
(* A claim gets its evidence, or its verification fails here already.      *)
(***************************************************************************)
LEMMA EvidenceKeeps ==
    ASSUME AnsweringInv, NEW q \in Question, RetrieveEvidence(q) PROVE AnsweringInv'
<1>0. task[q].stage = "verify" /\ task[q].stage \in Running /\ UNCHANGED <<mode, answered>>
  BY DEF RetrieveEvidence, Running, Stage
<1>1. TaskOK(task[q], mode) /\ task[q] \in Task(mode)
  BY DEF AnsweringInv, TaskOK
<1>2. ASSUME NEW r \in ForClaim,
             Put(q, [task[q] EXCEPT !.stage = "judge", !.retrieved = r])
      PROVE  AnsweringInv'
  <2> DEFINE t == [task[q] EXCEPT !.stage = "judge", !.retrieved = r]
  <2>1. r \in ClaimsIn(mode)
    BY <1>2, ModeChooses
  <2>2. /\ t.stage = "judge" /\ t.retrieved = r /\ t.sources = task[q].sources
        /\ t.context = task[q].context /\ t.claims = task[q].claims
        /\ t.verified = task[q].verified /\ t \in Task(mode)
    BY <1>1, <2>1 DEF Task, Stage
  <2>3. Put(q, t)
    BY <1>2
  <2> HIDE DEF t
  <2>4. SourcesMatch(t) /\ RetrievedOK(t, mode)
    BY <1>0, <1>1, <2>1, <2>2 DEF SourcesMatch, RetrievedOK, TaskOK
  <2>5. TaskOK(t, mode)
    BY <1>0, <1>1, <2>2, <2>4 DEF TaskOK
  <2> QED
    BY <1>0, <2>3, <2>5, WorkingStep
<1>3. CASE AppendVerification(q, Verified(Head(task[q].claims), {}, <<>>))
  <2> DEFINE item == Verified(Head(task[q].claims), {}, <<>>)
  <2>1. /\ item.claim = Head(task[q].claims) /\ item.evidence = {} /\ item.sources = <<>>
        /\ item \in Item
    BY <1>0, ClaimAtHand, EmptyTask DEF Verified, Item
  <2>2. AppendVerification(q, item)
    BY <1>3
  <2> HIDE DEF item
  <2>3. ClaimLimitIn(mode) \in Nat
    BY LimitsAreNumbers
  <2>4. CitesEvidence(item, mode)
    BY <2>1, <2>3, EmptyTask, FS_EmptySet DEF CitesEvidence
  <2> QED
    BY <1>0, <2>1, <2>2, <2>4, AppendKeeps
<1> QED
  BY <1>2, <1>3 DEF RetrieveEvidence

LEMMA JudgeKeeps ==
    ASSUME AnsweringInv, NEW q \in Question, JudgeClaim(q) PROVE AnsweringInv'
<1> DEFINE evidence == task[q].retrieved.chunks
           shown == ToSet(evidence)
<1>0. task[q].stage = "judge" /\ UNCHANGED <<mode, answered>>
  BY DEF JudgeClaim
<1>1. RetrievalOK(task[q].retrieved, ClaimLimitIn(mode))
  <2>1. task[q].retrieved \in ClaimsIn(mode)
    BY <1>0 DEF AnsweringInv, TaskOK, RetrievedOK
  <2> QED
    BY <2>1, RetrievalsKeepBest
<1>2. Distinct(evidence) /\ evidence \in Seq(Chunk) /\ Len(evidence) <= ClaimLimitIn(mode)
  BY <1>1 DEF RetrievalOK, Distinct
<1>3. /\ shown \in SUBSET Chunk /\ Len(evidence) \in Nat /\ Cardinality(shown) \in Nat
      /\ Cardinality(shown) <= Len(evidence)
  BY <1>2, ItemsOfSeq, SetOfSeq
<1>4. PICK sources \in Citations(evidence) :
        AppendVerification(q, Verified(Head(task[q].claims), shown, sources))
  BY DEF JudgeClaim
<1>5. Distinct(sources) /\ sources \in Seq(Chunk) /\ ToSet(sources) \subseteq shown
  BY <1>2, CitationsInEvidence DEF Distinct
<1>6. Cardinality(shown) <= ClaimLimitIn(mode)
  BY <1>2, <1>3, LimitsAreNumbers
<1> HIDE DEF evidence, shown
<1> DEFINE item == Verified(Head(task[q].claims), shown, sources)
<1>7. /\ item.claim = Head(task[q].claims) /\ item.evidence = shown /\ item.sources = sources
      /\ item \in Item
  BY <1>0, <1>3, <1>5, ClaimAtHand DEF Verified, Item
<1>8. AppendVerification(q, item)
  BY <1>4
<1> HIDE DEF item
<1>9. CitesEvidence(item, mode)
  BY <1>5, <1>6, <1>7 DEF CitesEvidence
<1> QED
  BY <1>0, <1>7, <1>8, <1>9, AppendKeeps

-----------------------------------------------------------------------------
LEMMA AnsweringInit == Init => AnsweringInv
<1> SUFFICES ASSUME Init PROVE AnsweringInv
  OBVIOUS
<1>1. /\ task = [q \in Question |-> Waiting] /\ mode \in Mode /\ answered = FALSE
  BY DEF Init
<1>2. Held = {}
  BY <1>1 DEF Held, Waiting, Running, Stage
<1>3. Cardinality(Held) <= Limit
  BY <1>2, FS_EmptySet, AnsweringAssumption
<1> QED
  BY <1>1, <1>3, WaitingOK DEF AnsweringInv

LEMMA AnsweringNext == AnsweringInv /\ [Next]_vars => AnsweringInv'
<1> SUFFICES ASSUME AnsweringInv, [Next]_vars PROVE AnsweringInv'
  OBVIOUS
<1>1. CASE UNCHANGED vars
  BY <1>1 DEF vars, AnsweringInv, Held
<1>2. CASE Respond
  BY <1>2 DEF Respond, AnsweringInv, Held
<1>3. ASSUME NEW q \in Question, Step(q) PROVE AnsweringInv'
  BY <1>3, EnterKeeps, RetrieveKeeps, GenerateKeeps, ExtractKeeps, EvidenceKeeps, JudgeKeeps
     DEF Step
<1> QED
  BY <1>1, <1>2, <1>3 DEF Next

LEMMA AnsweringInvariant == Spec => []AnsweringInv
BY AnsweringInit, AnsweringNext, PTL DEF Spec

(***************************************************************************)
(* AnsweringTypeOK, for any questions: at no time are more of them at work *)
(* than the semaphore admits.                                              *)
(***************************************************************************)
THEOREM QuestionsWithinLimit == Spec => []AnsweringTypeOK
<1>1. AnsweringInv => AnsweringTypeOK
  <2> SUFFICES ASSUME AnsweringInv PROVE AnsweringTypeOK
    OBVIOUS
  <2>1. task \in [Question -> Task(mode)]
    BY DEF AnsweringInv, TaskOK
  <2> QED
    BY <2>1, ModeChooses DEF AnsweringInv, AnsweringTypeOK, Task
<1> QED
  BY <1>1, AnsweringInvariant, PTL

(***************************************************************************)
(* GroundedCitations, for any document, limits, model and claim list: an   *)
(* answer cites exactly the chunks it was generated from, a verified claim *)
(* only chunks that were retrieved as its own evidence, and no claim is    *)
(* verified twice.                                                         *)
(***************************************************************************)
THEOREM CitationsAreGrounded == Spec => []GroundedCitations
<1>1. AnsweringInv => GroundedCitations
  <2> SUFFICES ASSUME AnsweringInv, NEW q \in Question, task[q].stage = "finished"
               PROVE  /\ (task[q].status = "ok") = (task[q].sources # <<>>)
                      /\ task[q].verified # <<>> => task[q].status = "ok"
                      /\ IsInjective(task[q].sources)
                      /\ ToSet(task[q].sources) = task[q].context
                      /\ IsInjective([i \in DOMAIN task[q].verified |->
                                        Fold(task[q].verified[i].claim)])
                      /\ \A item \in ToSet(task[q].verified) :
                           /\ IsInjective(item.sources)
                           /\ ToSet(item.sources) \subseteq item.evidence
                           /\ Cardinality(item.evidence) <= ClaimLimit
    BY DEF GroundedCitations
  <2>1. TaskOK(task[q], mode) /\ task[q].verified \in Seq(Item)
    BY DEF AnsweringInv, TaskOK, Task
  <2>2. /\ DOMAIN task[q].verified = 1..Len(task[q].verified)
        /\ ToSet(task[q].verified) = {task[q].verified[i] : i \in 1..Len(task[q].verified)}
    BY <2>1, ItemsOfSeq
  <2>3. /\ (task[q].status = "ok") = (task[q].sources # <<>>)
        /\ task[q].verified # <<>> => task[q].status = "ok"
        /\ IsInjective(task[q].sources) /\ ToSet(task[q].sources) = task[q].context
    BY <2>1 DEF TaskOK, SourcesMatch, Distinct
  <2>4. IsInjective([i \in DOMAIN task[q].verified |-> Fold(task[q].verified[i].claim)])
    BY <2>1, <2>2 DEF TaskOK, VerifiedOnce, IsInjective
  <2>5. ASSUME NEW item \in ToSet(task[q].verified)
        PROVE  /\ IsInjective(item.sources)
               /\ ToSet(item.sources) \subseteq item.evidence
               /\ Cardinality(item.evidence) <= ClaimLimit
    <3>1. CitesEvidence(item, mode)
      BY <2>1, <2>2 DEF TaskOK
    <3> QED
      BY <3>1, ModeChooses DEF CitesEvidence, Distinct
  <2> QED
    BY <2>3, <2>4, <2>5
<1> QED
  BY <1>1, AnsweringInvariant, PTL

(***************************************************************************)
(* RetrievalKeepsBest, for any document, rankings, scores and limits:      *)
(* whenever the model is about to be asked, for an answer or about a       *)
(* claim, it has before it as many of the chunks either search found as    *)
(* the limit of the mode allows, or all of them, each once, in the order   *)
(* of their scores and, with equal scores, of where they were found.       *)
(***************************************************************************)
THEOREM BestChunksAreKept == Spec => []RetrievalKeepsBest
<1>1. AnsweringInv => RetrievalKeepsBest
  <2> SUFFICES ASSUME AnsweringInv, NEW q \in Question
               PROVE  /\ task[q].stage = "generate" =>
                            KeepsBest(task[q].retrieved, QuestionLimit)
                      /\ task[q].stage = "judge" => KeepsBest(task[q].retrieved, ClaimLimit)
    BY DEF RetrievalKeepsBest
  <2>1. RetrievedOK(task[q], mode)
    BY DEF AnsweringInv, TaskOK
  <2> QED
    BY <2>1, ModeChooses, RetrievalsKeepBest DEF RetrievedOK, RetrievalOK
<1> QED
  BY <1>1, AnsweringInvariant, PTL
=============================================================================
