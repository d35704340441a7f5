----------------------- MODULE SynchronousRunProofs ------------------------
(***************************************************************************)
(* Proofs about SynchronousRun, for any number of requests, documents,     *)
(* contents, connections, request ids, batches and redeployments.          *)
(***************************************************************************)
EXTENDS SynchronousRun, FiniteSetTheorems, SequenceTheorems, TLAPS

-----------------------------------------------------------------------------
(***************************************************************************)
(* The lock.  The session in the body holds the connection that owns the   *)
(* lock; any other session has another one, so what it releases, or closes *)
(* with its connection, is never that grant.                               *)
(***************************************************************************)
HasConnection(s) ==
    /\ phase[s] \in {"waiting", "body"} => conn[s] # Nobody
    /\ phase[s] = "outside" => conn[s] = Nobody

OwnsInBody(s) == phase[s] = "body" => owner = conn[s]

ConnectionsApart ==
    /\ \A s, t \in Session : conn[s] = conn[t] /\ conn[s] # Nobody => s = t
    /\ \A i \in DOMAIN idle, s \in Session : idle[i] # conn[s]
    /\ \A i, j \in DOMAIN idle : idle[i] = idle[j] => i = j

GrantCounted == owner = Nobody <=> depth = 0

LockInv ==
    /\ LockTypeOK
    /\ \A s \in Session : HasConnection(s) /\ OwnsInBody(s)
    /\ ConnectionsApart
    /\ GrantCounted

LEMMA LockInvExcludes == LockInv => BodyExclusive
BY DEF LockInv, HasConnection, OwnsInBody, ConnectionsApart, BodyExclusive

LEMMA LockInitInv == LockInit => LockInv
BY DEF LockInit, LockInv, LockTypeOK, Phase, HasConnection, OwnsInBody, ConnectionsApart,
       GrantCounted

LEMMA Returns ==
    ASSUME LockInv, NEW s \in Session, conn[s] # Nobody,
           NEW next \in {"outside", "unlock", "close"}, Return(s, next)
    PROVE  LockInv'
<1>1. /\ phase' = [phase EXCEPT ![s] = next] /\ conn' = [conn EXCEPT ![s] = Nobody]
      /\ conn[s] \in Connection /\ Nobody \notin Connection
  BY LockAssumption DEF Return, LockInv, LockTypeOK
<1>2. CASE Len(idle) < PoolSize
  <2>1. idle' = Append(idle, conn[s]) /\ UNCHANGED <<owner, depth>>
    BY <1>2 DEF Return
  <2>2. LockTypeOK'
    BY <1>1, <2>1 DEF LockInv, LockTypeOK, Phase
  <2>3. ConnectionsApart'
    BY <1>1, <2>1 DEF LockInv, LockTypeOK, ConnectionsApart
  <2>4. GrantCounted' /\ \A t \in Session : HasConnection(t)' /\ OwnsInBody(t)'
    BY <1>1, <2>1 DEF LockInv, LockTypeOK, GrantCounted, HasConnection, OwnsInBody
  <2>5. QED
    BY <2>2, <2>3, <2>4 DEF LockInv
<1>3. CASE ~ (Len(idle) < PoolSize)
  <2>1. UNCHANGED idle /\ GrantDies(conn[s])
    BY <1>3 DEF Return
  <2>2. LockTypeOK'
    BY <1>1, <2>1 DEF LockInv, LockTypeOK, Phase, GrantDies
  <2>3. ConnectionsApart'
    BY <1>1, <2>1 DEF LockInv, LockTypeOK, ConnectionsApart
  <2>4. GrantCounted' /\ \A t \in Session : HasConnection(t)' /\ OwnsInBody(t)'
    BY <1>1, <2>1
       DEF LockInv, LockTypeOK, GrantCounted, HasConnection, OwnsInBody, GrantDies, ConnectionsApart
  <2>5. QED
    BY <2>2, <2>3, <2>4 DEF LockInv
<1>4. QED
  BY <1>2, <1>3

LEMMA Discards ==
    ASSUME LockInv, NEW s \in Session, conn[s] # Nobody, Discard(s, "close")
    PROVE  LockInv'
<1>1. /\ phase' = [phase EXCEPT ![s] = "close"] /\ conn' = [conn EXCEPT ![s] = Nobody]
      /\ conn[s] \in Connection /\ Nobody \notin Connection
      /\ UNCHANGED idle /\ GrantDies(conn[s])
  BY LockAssumption DEF Discard, LockInv, LockTypeOK
<1>2. LockTypeOK'
  BY <1>1 DEF LockInv, LockTypeOK, Phase, GrantDies
<1>3. ConnectionsApart'
  BY <1>1 DEF LockInv, LockTypeOK, ConnectionsApart
<1>4. GrantCounted' /\ \A t \in Session : HasConnection(t)' /\ OwnsInBody(t)'
  BY <1>1 DEF LockInv, LockTypeOK, GrantCounted, HasConnection, OwnsInBody, GrantDies,
              ConnectionsApart
<1>5. QED
  BY <1>2, <1>3, <1>4 DEF LockInv

(***************************************************************************)
(* The connection checked out is nobody else's.                            *)
(***************************************************************************)
LEMMA ChecksOut ==
    ASSUME LockInv, NEW s \in Session, conn[s] = Nobody, NEW next, Checkout(s, next)
    PROVE  /\ phase' = [phase EXCEPT ![s] = next]
           /\ conn' = [conn EXCEPT ![s] = conn'[s]]
           /\ conn'[s] \in Connection
           /\ \A t \in Session : conn[t] # conn'[s]
           /\ idle' \in Seq(Connection)
           /\ ConnectionsApart'
<1>0. Nobody \notin Connection
  BY LockAssumption
<1>1. PICK c \in Connection :
        /\ IF idle = <<>>
           THEN c \notin Borrowed /\ UNCHANGED idle
           ELSE c = Head(idle) /\ idle' = Tail(idle)
        /\ conn' = [conn EXCEPT ![s] = c]
  BY DEF Checkout
<1>2. conn'[s] = c /\ Nobody \notin Connection
  BY <1>1, LockAssumption DEF LockInv, LockTypeOK
<1>3. CASE idle = <<>>
  <2>1. /\ \A t \in Session : conn[t] # c
        /\ idle' = <<>> /\ idle' \in Seq(Connection) /\ DOMAIN idle' = {}
    BY <1>0, <1>1, <1>3 DEF Borrowed
  <2>2. \A t \in Session : conn'[t] = IF t = s THEN c ELSE conn[t]
    BY <1>1 DEF LockInv, LockTypeOK
  <2>3. ConnectionsApart'
    BY <2>1, <2>2 DEF LockInv, ConnectionsApart
  <2>4. QED
    BY <1>1, <1>2, <2>1, <2>3 DEF Checkout
<1>4. CASE idle # <<>>
  <2>1. c = idle[1] /\ 1 \in DOMAIN idle /\ idle' \in Seq(Connection)
    <3>1. idle \in Seq(Connection) /\ c = Head(idle) /\ idle' = Tail(idle)
      BY <1>1, <1>4 DEF LockInv, LockTypeOK
    <3>2. Len(idle) \in Nat \ {0} /\ DOMAIN idle = 1..Len(idle)
      BY <1>4, <3>1
    <3>3. QED
      BY <3>1, <3>2
  <2>2. \A t \in Session : conn[t] # c
    BY <2>1 DEF LockInv, ConnectionsApart
  <2>3. \A i \in DOMAIN idle' : i + 1 \in DOMAIN idle /\ idle'[i] = idle[i + 1] /\ i \in Nat \ {0}
    BY <1>1, <1>4 DEF LockInv, LockTypeOK
  <2>4. \A i \in DOMAIN idle' : idle'[i] # c
    BY <2>1, <2>3 DEF LockInv, ConnectionsApart
  <2>5. \A i, j \in DOMAIN idle' : idle'[i] = idle'[j] => i = j
    BY <2>3 DEF LockInv, ConnectionsApart
  <2>6. ConnectionsApart'
    <3>1. \A t \in Session : conn'[t] = IF t = s THEN c ELSE conn[t]
      BY <1>1 DEF LockInv, LockTypeOK
    <3>2. \A t, u \in Session : conn'[t] = conn'[u] /\ conn'[t] # Nobody => t = u
      BY <2>2, <3>1 DEF LockInv, ConnectionsApart
    <3>3. \A i \in DOMAIN idle', t \in Session : idle'[i] # conn'[t]
      BY <2>3, <2>4, <3>1 DEF LockInv, ConnectionsApart
    <3>4. QED
      BY <2>5, <3>2, <3>3 DEF ConnectionsApart
  <2>7. QED
    BY <1>1, <1>2, <2>1, <2>2, <2>6 DEF Checkout
<1>5. QED
  BY <1>3, <1>4

LEMMA Releases ==
    ASSUME LockInv, NEW c \in Connection, ReleaseOn(c)
    PROVE  /\ owner' \in Connection \cup {Nobody} /\ depth' \in Nat
           /\ GrantCounted'
           /\ owner # c => owner' = owner
<1>1. Nobody \notin Connection
  BY LockAssumption
<1>2. QED
  BY <1>1 DEF ReleaseOn, LockInv, LockTypeOK, GrantCounted

LEMMA LockStepInv ==
    ASSUME LockInv, NEW s \in Session, LockStep(s)
    PROVE  LockInv'
<1>0. Nobody \notin Connection /\ PoolSize \in Nat \ {0}
  BY LockAssumption
<1>1. ASSUME Enter(s)
      PROVE  LockInv'
  <2>1. Checkout(s, "waiting") /\ UNCHANGED <<owner, depth>> /\ conn[s] = Nobody
    BY <1>1 DEF Enter, LockInv, HasConnection
  <2>2. /\ phase' = [phase EXCEPT ![s] = "waiting"]
        /\ conn' = [conn EXCEPT ![s] = conn'[s]]
        /\ conn'[s] \in Connection
        /\ idle' \in Seq(Connection)
        /\ ConnectionsApart'
    BY <1>1, <2>1, ChecksOut
  <2>3. QED
    BY <1>0, <2>1, <2>2 DEF LockInv, LockTypeOK, Phase, GrantCounted, HasConnection, OwnsInBody
<1>2. ASSUME Acquire(s)
      PROVE  LockInv'
  <2>1. /\ phase[s] = "waiting" /\ conn[s] \in Connection /\ owner \in {Nobody, conn[s]}
        /\ phase' = [phase EXCEPT ![s] = "body"] /\ owner' = conn[s] /\ depth' = depth + 1
        /\ UNCHANGED <<conn, idle>>
    BY <1>2 DEF Acquire, Grantable, LockInv, LockTypeOK, HasConnection
  <2>2. LockTypeOK' /\ ConnectionsApart' /\ GrantCounted'
    BY <1>0, <2>1 DEF LockInv, LockTypeOK, Phase, ConnectionsApart, GrantCounted
  <2>3. \A t \in Session : HasConnection(t)' /\ OwnsInBody(t)'
    BY <1>0, <2>1 DEF LockInv, LockTypeOK, HasConnection, OwnsInBody, ConnectionsApart
  <2>4. QED
    BY <2>2, <2>3 DEF LockInv
<1>3. ASSUME TimeOut(s) \/ CommitBody(s)
      PROVE  LockInv'
  <2>1. conn[s] # Nobody
    BY <1>3 DEF TimeOut, CommitBody, LockInv, HasConnection
  <2>2. Return(s, "outside") \/ Return(s, "unlock")
    BY <1>3 DEF TimeOut, CommitBody
  <2>3. QED
    BY <2>1, <2>2, Returns
<1>4. ASSUME LeaveBody(s)
      PROVE  LockInv'
  <2>1. phase' = [phase EXCEPT ![s] = "unlock"] /\ UNCHANGED <<conn, idle, owner, depth>>
    BY <1>4 DEF LeaveBody
  <2>2. LockTypeOK' /\ ConnectionsApart' /\ GrantCounted'
    BY <2>1 DEF LockInv, LockTypeOK, Phase, ConnectionsApart, GrantCounted
  <2>3. \A t \in Session : HasConnection(t)' /\ OwnsInBody(t)'
    BY <2>1 DEF LockInv, LockTypeOK, HasConnection, OwnsInBody
  <2>4. QED
    BY <2>2, <2>3 DEF LockInv
<1>5. ASSUME FailBody(s)
      PROVE  LockInv'
  BY <1>5, Discards DEF FailBody, LockInv, HasConnection
<1>6. ASSUME Unlock(s)
      PROVE  LockInv'
  <2>1. CASE conn[s] = Nobody
    <3>1. Checkout(s, "close") /\ ReleaseOn(conn'[s])
      BY <1>6, <2>1 DEF Unlock
    <3>2. /\ phase' = [phase EXCEPT ![s] = "close"]
          /\ conn' = [conn EXCEPT ![s] = conn'[s]]
          /\ conn'[s] \in Connection
          /\ \A t \in Session : conn[t] # conn'[s]
          /\ idle' \in Seq(Connection)
          /\ ConnectionsApart'
      BY <2>1, <3>1, ChecksOut
    <3>3. PICK c \in Connection : c = conn'[s]
      BY <3>2
    <3>4. ReleaseOn(c)
      BY <3>1, <3>3 DEF ReleaseOn
    <3>5. /\ owner' \in Connection \cup {Nobody} /\ depth' \in Nat /\ GrantCounted'
          /\ owner # c => owner' = owner
      BY <3>4, Releases
    <3>6. LockTypeOK'
      BY <3>2, <3>5 DEF LockInv, LockTypeOK, Phase
    <3>7. \A t \in Session : HasConnection(t)' /\ OwnsInBody(t)'
      BY <3>2, <3>3, <3>5 DEF LockInv, LockTypeOK, HasConnection, OwnsInBody
    <3>8. QED
      BY <3>2, <3>5, <3>6, <3>7 DEF LockInv
  <2>2. CASE conn[s] # Nobody
    <3>1. /\ phase[s] = "unlock" /\ phase' = [phase EXCEPT ![s] = "close"]
          /\ ReleaseOn(conn[s]) /\ UNCHANGED <<conn, idle>> /\ conn[s] \in Connection
      BY <1>6, <2>2 DEF Unlock, LockInv, LockTypeOK
    <3>2. /\ owner' \in Connection \cup {Nobody} /\ depth' \in Nat /\ GrantCounted'
          /\ owner # conn[s] => owner' = owner
      BY <3>1, Releases
    <3>3. LockTypeOK' /\ ConnectionsApart'
      BY <3>1, <3>2 DEF LockInv, LockTypeOK, Phase, ConnectionsApart
    <3>4. \A t \in Session : HasConnection(t)' /\ OwnsInBody(t)'
      BY <2>2, <3>1, <3>2 DEF LockInv, LockTypeOK, HasConnection, OwnsInBody, ConnectionsApart
    <3>5. QED
      BY <3>2, <3>3, <3>4 DEF LockInv
  <2>3. QED
    BY <2>1, <2>2
<1>7. ASSUME Close(s)
      PROVE  LockInv'
  <2>1. CASE conn[s] = Nobody
    <3>1. phase' = [phase EXCEPT ![s] = "outside"] /\ UNCHANGED <<conn, idle, owner, depth>>
      BY <1>7, <2>1 DEF Close
    <3>2. LockTypeOK' /\ ConnectionsApart' /\ GrantCounted'
      BY <3>1 DEF LockInv, LockTypeOK, Phase, ConnectionsApart, GrantCounted
    <3>3. \A t \in Session : HasConnection(t)' /\ OwnsInBody(t)'
      BY <2>1, <3>1 DEF LockInv, LockTypeOK, HasConnection, OwnsInBody
    <3>4. QED
      BY <3>2, <3>3 DEF LockInv
  <2>2. CASE conn[s] # Nobody
    BY <1>7, <2>2, Returns DEF Close
  <2>3. QED
    BY <2>1, <2>2
<1>8. QED
  BY <1>1, <1>2, <1>3, <1>4, <1>5, <1>6, <1>7 DEF LockStep

(***************************************************************************)
(* Moving the first element to the end keeps the elements apart.           *)
(***************************************************************************)
LEMMA Rotated ==
    ASSUME NEW S, NEW seq \in Seq(S), seq # <<>>,
           \A i, j \in DOMAIN seq : seq[i] = seq[j] => i = j
    PROVE  LET turned == Append(Tail(seq), Head(seq))
           IN  /\ turned \in Seq(S)
               /\ \A i \in DOMAIN turned : \E j \in DOMAIN seq : turned[i] = seq[j]
               /\ \A i, j \in DOMAIN turned : turned[i] = turned[j] => i = j
<1>1. Len(seq) \in Nat \ {0} /\ DOMAIN seq = 1..Len(seq)
  BY EmptySeq, LenProperties
<1>2. /\ Head(seq) \in S
      /\ Tail(seq) \in Seq(S)
      /\ Len(Tail(seq)) = Len(seq) - 1
      /\ \A i \in 1..Len(Tail(seq)) : Tail(seq)[i] = seq[i + 1]
  BY HeadTailProperties
<1>3. Head(seq) = seq[1]
  OBVIOUS
<1>4. /\ Append(Tail(seq), Head(seq)) \in Seq(S)
      /\ Len(Append(Tail(seq), Head(seq))) = Len(Tail(seq)) + 1
      /\ \A i \in 1..Len(Tail(seq)) : Append(Tail(seq), Head(seq))[i] = Tail(seq)[i]
      /\ Append(Tail(seq), Head(seq))[Len(Tail(seq)) + 1] = Head(seq)
  BY <1>2, AppendProperties
<1>5. DOMAIN Append(Tail(seq), Head(seq)) = 1..Len(Append(Tail(seq), Head(seq)))
  BY <1>4, LenProperties
<1>6. PICK n \in Nat \ {0} : n = Len(seq)
  BY <1>1
<1>7. PICK turned : turned = Append(Tail(seq), Head(seq))
  OBVIOUS
<1>8. DOMAIN turned = 1..n /\ turned \in Seq(S)
  BY <1>2, <1>4, <1>5, <1>6, <1>7
<1>9. \A i \in 1..n : turned[i] = IF i = n THEN seq[1] ELSE seq[i + 1]
  <2>1. \A i \in 1..(n - 1) : turned[i] = seq[i + 1]
    BY <1>2, <1>4, <1>6, <1>7
  <2>2. turned[n] = seq[1]
    BY <1>2, <1>3, <1>4, <1>6, <1>7
  <2>3. QED
    BY <2>1, <2>2
<1>10. DOMAIN seq = 1..n
  BY <1>1, <1>6
<1>11. \A i \in 1..n : \E j \in 1..n : turned[i] = seq[j]
  BY <1>9
<1>12. ASSUME NEW i \in 1..n, NEW j \in 1..n, turned[i] = turned[j]
       PROVE  i = j
  <2> DEFINE from(k) == IF k = n THEN 1 ELSE k + 1
  <2>1. from(i) \in 1..n /\ from(j) \in 1..n
    OBVIOUS
  <2>2. seq[from(i)] = seq[from(j)]
    BY <1>9, <1>12
  <2>3. from(i) = from(j)
    BY <1>10, <2>1, <2>2
  <2>4. QED
    BY <2>3
<1>13. QED
  BY <1>7, <1>8, <1>10, <1>11, <1>12

LEMMA LockNextInv == LockInv /\ [LockNext]_lockVars => LockInv'
<1> SUFFICES ASSUME LockInv, [LockNext]_lockVars PROVE LockInv'
  OBVIOUS
<1>1. ASSUME NEW s \in Session, LockStep(s)
      PROVE  LockInv'
  BY <1>1, LockStepInv
<1>2. ASSUME OtherSession
      PROVE  LockInv'
  <2>1. /\ idle # <<>> /\ idle' = Append(Tail(idle), Head(idle))
        /\ UNCHANGED <<phase, conn, owner, depth>> /\ idle \in Seq(Connection)
    BY <1>2 DEF OtherSession, LockInv, LockTypeOK
  <2>2. /\ idle' \in Seq(Connection)
        /\ \A i \in DOMAIN idle' : \E j \in DOMAIN idle : idle'[i] = idle[j]
        /\ \A i, j \in DOMAIN idle' : idle'[i] = idle'[j] => i = j
    BY <2>1, Rotated DEF LockInv, ConnectionsApart
  <2>3. ConnectionsApart'
    BY <2>1, <2>2 DEF LockInv, ConnectionsApart
  <2>4. QED
    BY <2>1, <2>2, <2>3 DEF LockInv, LockTypeOK, HasConnection, OwnsInBody, GrantCounted
<1>3. CASE LockReset
  BY <1>3 DEF LockReset, LockInv, LockTypeOK, Phase, HasConnection, OwnsInBody, ConnectionsApart,
              GrantCounted
<1>4. CASE UNCHANGED lockVars
  BY <1>4 DEF lockVars, LockInv, LockTypeOK, HasConnection, OwnsInBody, ConnectionsApart,
              GrantCounted
<1>5. QED
  BY <1>1, <1>2, <1>3, <1>4 DEF LockNext

(***************************************************************************)
(* A run uses the lock only through the context manager's operations.      *)
(***************************************************************************)
LEMMA RunStepLocks ==
    ASSUME NEW r \in Session, Submit(r) \/ RunStep(r)
    PROVE  LockStep(r) \/ UNCHANGED lockVars
<1>1. CASE \/ Submit(r) \/ Lookup(r) \/ LookInCache(r) \/ LoadArtifacts(r) \/ Index(r)
           \/ Abort(r) \/ FinishPersisted(r) \/ FinishFailed(r)
  BY <1>1 DEF Submit, Lookup, LookInCache, LoadArtifacts, Index, Abort, FinishPersisted,
              FinishFailed
<1>2. CASE AskLock(r) \/ GetLock(r) \/ MissLock(r) \/ Release(r) \/ LeaveLock(r)
  BY <1>2 DEF AskLock, GetLock, MissLock, Release, LeaveLock, LockStep
<1>3. CASE Backfill(r)
  BY <1>3 DEF Backfill, LockStep
<1>4. CASE PersistUploadResult(r)
  BY <1>4 DEF PersistUploadResult, LockStep
<1>5. QED
  BY <1>1, <1>2, <1>3, <1>4 DEF RunStep

LEMMA NextLocks == [Next]_vars => [LockNext]_lockVars
<1> SUFFICES ASSUME [Next]_vars PROVE LockNext \/ UNCHANGED lockVars
  OBVIOUS
<1>1. ASSUME NEW r \in Session, Submit(r) \/ RunStep(r)
      PROVE  LockNext \/ UNCHANGED lockVars
  BY <1>1, RunStepLocks DEF LockNext
<1>2. CASE Evict \/ OthersUsePool \/ Admit \/ WorkerTransaction \/ Redeploy \/ UNCHANGED vars
  BY <1>2 DEF Evict, OthersUsePool, Admit, WorkerTransaction, Redeploy, LockNext, vars
<1>3. QED
  BY <1>1, <1>2 DEF Next

LEMMA LockInvHolds == Spec => []LockInv
<1>1. Init => LockInv
  BY LockInitInv DEF Init
<1>2. QED
  BY <1>1, LockNextInv, NextLocks, PTL DEF Spec

(***************************************************************************)
(* Every use the runs make of mysql_document_lock is one of the lock's own *)
(* steps, so what holds of the lock alone holds of the runs.               *)
(***************************************************************************)
THEOREM RunsUseTheLock == Spec => LockSpec
BY NextLocks, PTL DEF Spec, LockSpec, Init

(***************************************************************************)
(* mysql_document_lock serializes the transactions on a document, for any  *)
(* number of sessions and connections, although its RELEASE_LOCK may run   *)
(* on another connection than its GET_LOCK.                                *)
(***************************************************************************)
THEOREM LockExcludes == Spec => []BodyExclusive
BY LockInvHolds, LockInvExcludes, PTL

-----------------------------------------------------------------------------
(***************************************************************************)
(* What is stored.  A row with chunks is ready, and has the chunks of its  *)
(* own content; a ready row is what every later claim rests on, as nothing *)
(* takes it back.                                                          *)
(***************************************************************************)
ReadyWith(d, c) == d \in Document /\ row[d].status = "ready" /\ row[d].content = c

RowInv(d) ==
    /\ row[d].status = "ready" => row[d].content \in Content /\ row[d].chunks = row[d].content
    /\ row[d].chunks # None => row[d].status = "ready"
    /\ object[d] # None => row[d].content = object[d] /\ Exists(d)

StoreInv ==
    /\ row \in [Document -> Row]
    /\ object \in [Document -> Content \cup {None}]
    /\ \A d \in Document : RowInv(d)

MiscTyped ==
    /\ born \in [Document -> Nat]
    /\ embedding \in [Document -> [row: Model \cup {None}, vectors: Model \cup {None}]]
    /\ model \in Model
    /\ redeploys \in 0..MaxRedeploys

CachedInv ==
    /\ cached \subseteq Content
    /\ \A c \in cached : \E d \in Document : ReadyWith(d, c)

(***************************************************************************)
(* A run is on its way to pc, perhaps through the end of the lock.         *)
(***************************************************************************)
Toward(x, pc) == x.pc = pc \/ (x.pc = "unlock" /\ x.after = pc)

Wrote(x) == x.pc = "done" \/ Toward(x, "persisted") \/ Toward(x, "failed")

RunInv(x) ==
    /\ x \in RunState
    /\ x.pc # "idle" => x.content \in Content /\ x.batch \in Batch
    /\ x.pc = "lookup" => x.request # None
    /\ x.pc = "unlock" => x.after \in {"index", "persisted", "failed"}
    /\ x.pc = "backfill" \/ Toward(x, "index") => ReadyWith(x.document, x.content)
    /\ Toward(x, "persisted") => \E d \in Document : ReadyWith(d, x.content)

StoredBatch(s) == {q \in queries : q.run = s}

RowsBy(x, s, d) ==
    {[request |-> x.request, index |-> i, question |-> x.batch[i], run |-> s, document |-> d] :
        i \in DOMAIN x.batch}

(***************************************************************************)
(* What a run has stored is its whole batch, on one ready document with    *)
(* its content, and it stores no more.                                     *)
(***************************************************************************)
BatchInv(s) ==
    StoredBatch(s) # {} =>
        /\ Wrote(run[s])
        /\ \E d \in Document : /\ ReadyWith(d, run[s].content)
                               /\ StoredBatch(s) = RowsBy(run[s], s, d)

RequestInv ==
    \A p, q \in queries : p.request = q.request /\ p.request # None => p.run = q.run

QueriesInv ==
    /\ queries \subseteq QueryRow
    /\ \A s \in Session : BatchInv(s)
    /\ RequestInv

AnswerInv(x) ==
    x.answer # None /\ x.answer.kind = "stored" =>
        LET s == x.answer.from
        IN  /\ s \in Session
            /\ run[s].content = x.content
            /\ run[s].batch = x.batch
            /\ run[s].request = x.request
            /\ StoredBatch(s) # {}

Link(p, pc) ==
    /\ p \in {"waiting", "body"} => pc \in {"backfill", "answer"}
    /\ p \in {"unlock", "close"} <=> pc = "unlock"

RunsInv ==
    /\ run \in [Session -> RunState]
    /\ \A s \in Session : RunInv(run[s]) /\ AnswerInv(run[s]) /\ Link(phase[s], run[s].pc)

DataInv == StoreInv /\ MiscTyped /\ CachedInv /\ RunsInv /\ QueriesInv

-----------------------------------------------------------------------------
(***************************************************************************)
(* What survives a step whatever it does elsewhere.                        *)
(***************************************************************************)
RowForward == \A d \in Document, c \in Content : ReadyWith(d, c) => ReadyWith(d, c)'

Moves(x, y) ==
    /\ x.pc # "idle" => /\ y.content = x.content /\ y.request = x.request
                        /\ y.batch = x.batch /\ y.pc # "idle"
    /\ Wrote(x) => Wrote(y)

LEMMA OwnRun ==
    ASSUME RunsInv, NEW r \in Session
    PROVE  /\ run[r] \in RunState /\ RunInv(run[r]) /\ AnswerInv(run[r])
           /\ Link(phase[r], run[r].pc)
BY DEF RunsInv

LEMMA WroteNotIdle ==
    ASSUME NEW x, Wrote(x)
    PROVE  x.pc # "idle"
BY DEF Wrote, Toward

LEMMA LaterRun ==
    ASSUME RunsInv, QueriesInv, RowForward, queries \subseteq queries',
           \A s \in Session : Moves(run[s], run'[s]),
           NEW x, RunInv(x), AnswerInv(x)
    PROVE  RunInv(x)' /\ AnswerInv(x)'
<1>1. RunInv(x)'
  <2>1. CASE x.pc = "idle"
    BY <2>1 DEF RunInv, Toward, RunState, Answer, RunPc, Hit
  <2>2. CASE x.pc # "idle"
    <3>1. x.content \in Content
      BY <2>2 DEF RunInv
    <3>2. \A d \in Document : ReadyWith(d, x.content) => ReadyWith(d, x.content)'
      BY <3>1 DEF RowForward
    <3>3. x.pc = "backfill" \/ Toward(x, "index") => ReadyWith(x.document, x.content)'
      BY <3>2 DEF RunInv, ReadyWith
    <3>4. Toward(x, "persisted") => \E d \in Document : ReadyWith(d, x.content)'
      BY <3>2 DEF RunInv
    <3>5. QED
      BY <3>3, <3>4 DEF RunInv, Toward
  <2>3. QED
    BY <2>1, <2>2
<1>2. AnswerInv(x)'
  <2>1. SUFFICES ASSUME x.answer # None, x.answer.kind = "stored"
                 PROVE  LET s == x.answer.from
                        IN  /\ s \in Session
                            /\ run'[s].content = x.content
                            /\ run'[s].batch = x.batch
                            /\ run'[s].request = x.request
                            /\ StoredBatch(s)' # {}
    BY DEF AnswerInv
  <2>2. PICK s \in Session : s = x.answer.from
    BY <2>1 DEF AnswerInv
  <2>3. /\ run[s].content = x.content /\ run[s].batch = x.batch
        /\ run[s].request = x.request /\ StoredBatch(s) # {}
    BY <2>1, <2>2 DEF AnswerInv
  <2>4. run[s].pc # "idle"
    BY <2>3, WroteNotIdle DEF QueriesInv, BatchInv
  <2>5. StoredBatch(s)' # {}
    BY <2>3 DEF StoredBatch
  <2>6. QED
    BY <2>2, <2>3, <2>4, <2>5 DEF Moves
<1>3. QED
  BY <1>1, <1>2

LEMMA LaterBatch ==
    ASSUME RunsInv, QueriesInv, RowForward, NEW s \in Session,
           Moves(run[s], run'[s]), StoredBatch(s)' = StoredBatch(s)
    PROVE  BatchInv(s)'
<1>1. SUFFICES ASSUME StoredBatch(s) # {}
               PROVE  /\ Wrote(run'[s])
                      /\ \E d \in Document : /\ ReadyWith(d, run[s].content)'
                                             /\ StoredBatch(s)' = RowsBy(run[s], s, d)'
  BY DEF BatchInv, Wrote, Toward
<1>2. PICK d \in Document : /\ Wrote(run[s])
                            /\ ReadyWith(d, run[s].content)
                            /\ StoredBatch(s) = RowsBy(run[s], s, d)
  BY <1>1 DEF QueriesInv, BatchInv
<1>3. /\ run'[s].content = run[s].content /\ run'[s].request = run[s].request
      /\ run'[s].batch = run[s].batch /\ Wrote(run'[s])
  BY <1>2, WroteNotIdle DEF Moves
<1>4. run[s].content \in Content
  BY <1>2, WroteNotIdle, OwnRun DEF RunInv
<1>5. PICK c \in Content : c = run[s].content /\ c = run'[s].content
  BY <1>3, <1>4
<1>6. ReadyWith(d, c)'
  BY <1>2, <1>5 DEF RowForward
<1>7. ReadyWith(d, run[s].content)'
  BY <1>5, <1>6 DEF ReadyWith
<1>8. RowsBy(run[s], s, d)' = RowsBy(run[s], s, d)
  BY <1>3 DEF RowsBy
<1>9. QED
  BY <1>2, <1>3, <1>7, <1>8

LEMMA LaterQueries ==
    ASSUME RunsInv, QueriesInv, RowForward, UNCHANGED queries,
           \A s \in Session : Moves(run[s], run'[s])
    PROVE  QueriesInv'
<1>1. \A s \in Session : BatchInv(s)'
  BY LaterBatch DEF StoredBatch
<1>2. QED
  BY <1>1 DEF QueriesInv, RequestInv

LEMMA SameRun ==
    ASSUME RunsInv, NEW s \in Session, run'[s] = run[s]
    PROVE  Moves(run[s], run'[s])
BY DEF Moves

LEMMA RowsStay == UNCHANGED row => RowForward
BY DEF RowForward, ReadyWith

(***************************************************************************)
(* The runs after a step that changes any of them in a way they may.       *)
(***************************************************************************)
LEMMA RunsAfter ==
    ASSUME RunsInv, QueriesInv, RowForward, UNCHANGED queries,
           run' \in [Session -> RunState],
           \A s \in Session : /\ Moves(run[s], run'[s])
                              /\ RunInv(run'[s]) /\ AnswerInv(run'[s])
                              /\ Link(phase'[s], run'[s].pc)
    PROVE  RunsInv' /\ QueriesInv'
<1>1. QueriesInv'
  BY LaterQueries
<1>2. ASSUME NEW s \in Session
      PROVE  RunInv(run[s])' /\ AnswerInv(run[s])' /\ Link(phase[s], run[s].pc)'
  <2>1. PICK x : x = run'[s]
    OBVIOUS
  <2>2. RunInv(x)' /\ AnswerInv(x)'
    <3>1. RunInv(x) /\ AnswerInv(x)
      BY <2>1
    <3>2. QED
      BY <3>1, LaterRun
  <2>3. RunInv(run[s])' /\ AnswerInv(run[s])'
    BY <2>1, <2>2 DEF RunInv, AnswerInv, ReadyWith, Toward, RunState, Answer, RunPc, Hit
  <2>4. QED
    BY <2>3 DEF Link
<1>3. QED
  BY <1>1, <1>2 DEF RunsInv

LEMMA RunHeld ==
    ASSUME RunsInv, QueriesInv, RowForward, UNCHANGED queries,
           NEW r \in Session, NEW x, Hold(r, x),
           RunInv(x), AnswerInv(x), Moves(run[r], x),
           \A s \in Session \ {r} : phase'[s] = phase[s],
           Link(phase'[r], x.pc)
    PROVE  RunsInv' /\ QueriesInv'
<1>1. x \in RunState /\ run' = [run EXCEPT ![r] = x]
  BY DEF RunInv, Hold
<1>2. run' \in [Session -> RunState]
  BY <1>1 DEF RunsInv
<1>3. run'[r] = x /\ \A s \in Session \ {r} : run'[s] = run[s]
  BY <1>1 DEF RunsInv
<1>4. ASSUME NEW s \in Session
      PROVE  /\ Moves(run[s], run'[s])
             /\ RunInv(run'[s]) /\ AnswerInv(run'[s])
             /\ Link(phase'[s], run'[s].pc)
  <2>1. CASE s = r
    BY <1>3, <2>1
  <2>2. CASE s # r
    BY <1>3, <2>2, SameRun, OwnRun
  <2>3. QED
    BY <2>1, <2>2
<1>5. QED
  BY <1>2, <1>4, RunsAfter

-----------------------------------------------------------------------------
(***************************************************************************)
(* The steps of a run that leave the database alone.                       *)
(***************************************************************************)
LEMMA AwayFromLock ==
    ASSUME RunsInv, LockInv, NEW r \in Session, run[r].pc \notin {"backfill", "answer", "unlock"}
    PROVE  phase[r] = "outside"
BY OwnRun DEF Link, LockInv, LockTypeOK, Phase

LEMMA SubmitRuns ==
    ASSUME RunsInv, QueriesInv, LockInv, NEW r \in Session, Submit(r)
    PROVE  RunsInv' /\ QueriesInv'
<1>1. PICK c \in Content, k \in BatchId \cup {None}, b \in Batch :
        Hold(r, [IdleRun EXCEPT !.pc = IF k = None THEN "cache" ELSE "lookup",
                                !.content = c, !.request = k, !.batch = b])
  BY DEF Submit
<1>2. run[r].pc = "idle" /\ UNCHANGED <<row, queries, phase>>
  BY DEF Submit, At, storeVars, lockVars
<1> DEFINE pc == IF k = None THEN "cache" ELSE "lookup"
           x == [IdleRun EXCEPT !.pc = pc, !.content = c, !.request = k, !.batch = b]
<1>3. /\ x.pc = pc /\ x.content = c /\ x.request = k /\ x.batch = b
      /\ x.answer = None /\ x.after = None
  BY DEF IdleRun
<1>4. x \in RunState
  BY DEF IdleRun, RunState, RunPc
<1>5. RunInv(x)
  BY <1>3, <1>4 DEF RunInv, Toward
<1>6. AnswerInv(x)
  BY <1>3 DEF AnswerInv
<1>7. phase[r] = "outside"
  BY <1>2, AwayFromLock
<1>8. Moves(run[r], x) /\ Link(phase'[r], x.pc)
  BY <1>2, <1>3, <1>7 DEF Moves, Wrote, Toward, Link
<1>9. QED
  BY <1>1, <1>2, <1>5, <1>6, <1>8, RowsStay, RunHeld

(***************************************************************************)
(* A run that goes on with what it was sent, and has not written yet.      *)
(***************************************************************************)
LEMMA GoesOn ==
    ASSUME RunsInv, QueriesInv, NEW r \in Session,
           run[r].pc # "idle", ~ Wrote(run[r]),
           NEW x \in RunState,
           x.content = run[r].content, x.request = run[r].request, x.batch = run[r].batch,
           x.answer = run[r].answer, x.after = run[r].after \/ x.pc # "unlock",
           x.pc \notin {"idle", "lookup", "unlock", "persisted"},
           x.pc \in {"backfill", "index"} => ReadyWith(x.document, x.content),
           Hold(r, x), UNCHANGED <<row, queries>>,
           \A s \in Session \ {r} : phase'[s] = phase[s],
           Link(phase'[r], x.pc)
    PROVE  RunsInv' /\ QueriesInv'
<1>1. RunInv(x)
  BY OwnRun DEF RunInv, Toward
<1>2. AnswerInv(x)
  BY OwnRun DEF AnswerInv
<1>3. Moves(run[r], x)
  BY DEF Moves
<1>4. QED
  BY <1>1, <1>2, <1>3, RowsStay, RunHeld

LEMMA GotoRuns ==
    ASSUME RunsInv, QueriesInv, NEW r \in Session,
           run[r].pc # "idle", ~ Wrote(run[r]),
           NEW pc \in {"cache", "artifacts", "index", "answer", "failed"},
           pc = "index" => ReadyWith(run[r].document, run[r].content),
           Goto(r, pc), UNCHANGED <<row, queries>>,
           \A s \in Session \ {r} : phase'[s] = phase[s],
           Link(phase'[r], pc)
    PROVE  RunsInv' /\ QueriesInv'
<1> DEFINE x == [run[r] EXCEPT !.pc = pc]
<1>1. /\ x.pc = pc /\ x.content = run[r].content /\ x.request = run[r].request
      /\ x.batch = run[r].batch /\ x.answer = run[r].answer /\ x.after = run[r].after
      /\ x.document = run[r].document
  BY OwnRun DEF RunState
<1>2. x \in RunState
  BY OwnRun DEF RunState, RunPc
<1>3. Hold(r, x)
  BY DEF Goto
<1>4. QED
  BY <1>1, <1>2, <1>3, GoesOn

(***************************************************************************)
(* An answer recovered from the rows of a request_id is what the run that  *)
(* stored them was asked.                                                  *)
(***************************************************************************)
LEMMA RecoverFaithful ==
    ASSUME RunsInv, QueriesInv, NEW r \in Session, NEW s \in Recoverable(r),
           run[r].request # None, run[r].pc # "idle"
    PROVE  /\ s \in Session
           /\ run[s].content = run[r].content
           /\ run[s].batch = run[r].batch
           /\ run[s].request = run[r].request
           /\ StoredBatch(s) # {}
           /\ \E d \in Document : ReadyWith(d, run[r].content)
<1> DEFINE k == run[r].request
<1>1. PICK q \in RowsOf(k) : q.run = s
  BY DEF Recoverable
<1>2. q \in queries /\ q.request = k /\ s \in Session
  BY <1>1 DEF RowsOf, QueriesInv, QueryRow
<1>3. q \in StoredBatch(s)
  BY <1>1, <1>2 DEF StoredBatch
<1>4. PICK d \in Document : /\ ReadyWith(d, run[s].content)
                            /\ StoredBatch(s) = RowsBy(run[s], s, d)
                            /\ Wrote(run[s])
  BY <1>2, <1>3 DEF QueriesInv, BatchInv
<1>5. run[s].request = k
  BY <1>2, <1>3, <1>4 DEF RowsBy
<1>6. RowsOf(k) = RowsBy(run[s], s, d)
  <2>1. ASSUME NEW p \in RowsOf(k)
        PROVE  p \in StoredBatch(s)
    BY <1>1, <1>2, <2>1 DEF RowsOf, StoredBatch, QueriesInv, RequestInv
  <2>2. ASSUME NEW p \in StoredBatch(s)
        PROVE  p \in RowsOf(k)
    BY <1>4, <1>5, <2>2 DEF RowsOf, StoredBatch, RowsBy
  <2>3. QED
    BY <1>4, <2>1, <2>2
<1>7. run[s].content = run[r].content
  BY <1>1, <1>4, <1>6 DEF Recoverable, RowsBy, ReadyWith
<1>8. run[s].batch \in Batch /\ run[r].batch \in Batch
  BY <1>2, <1>4, OwnRun, WroteNotIdle DEF RunInv
<1>9. run[s].batch = run[r].batch
  <2>1. {<<p.index, p.question>> : p \in RowsOf(k)}
          = {<<i, run[r].batch[i]>> : i \in DOMAIN run[r].batch}
    BY DEF Recoverable
  <2>2. ASSUME NEW i \in DOMAIN run[s].batch
        PROVE  i \in DOMAIN run[r].batch /\ run[r].batch[i] = run[s].batch[i]
    <3> DEFINE p == [request |-> run[s].request, index |-> i, question |-> run[s].batch[i],
                     run |-> s, document |-> d]
    <3>1. p \in RowsOf(k) /\ p.index = i /\ p.question = run[s].batch[i]
      BY <1>6 DEF RowsBy
    <3> HIDE DEF p
    <3>2. <<i, run[s].batch[i]>> \in {<<j, run[r].batch[j]>> : j \in DOMAIN run[r].batch}
      BY <2>1, <3>1
    <3>3. PICK j \in DOMAIN run[r].batch : <<i, run[s].batch[i]>> = <<j, run[r].batch[j]>>
      BY <3>2
    <3>4. QED
      BY <3>3
  <2>3. ASSUME NEW i \in DOMAIN run[r].batch
        PROVE  i \in DOMAIN run[s].batch
    <3>1. <<i, run[r].batch[i]>> \in {<<p.index, p.question>> : p \in RowsOf(k)}
      BY <2>1
    <3>2. PICK p \in RowsOf(k) : <<i, run[r].batch[i]>> = <<p.index, p.question>>
      BY <3>1
    <3>3. p.index \in DOMAIN run[s].batch
      BY <1>6 DEF RowsBy
    <3>4. QED
      BY <3>2, <3>3
  <2>4. DOMAIN run[s].batch = DOMAIN run[r].batch
    BY <2>2, <2>3
  <2>5. /\ run[s].batch = [i \in DOMAIN run[s].batch |-> run[s].batch[i]]
        /\ run[r].batch = [i \in DOMAIN run[r].batch |-> run[r].batch[i]]
    BY <1>8, RunAssumption
  <2>6. QED
    BY <2>2, <2>4, <2>5
<1>10. QED
  BY <1>2, <1>3, <1>4, <1>5, <1>7, <1>9

LEMMA RespondRuns ==
    ASSUME RunsInv, QueriesInv, NEW r \in Session, run[r].pc # "idle", phase[r] = "outside",
           NEW kind \in {"own", "stored", "conflict", "error", "lost"}, NEW from \in Session,
           kind = "stored" => from \in Recoverable(r) /\ run[r].request # None,
           Respond(r, kind, from), UNCHANGED <<row, queries, phase>>
    PROVE  RunsInv' /\ QueriesInv'
<1> DEFINE x == [run[r] EXCEPT !.pc = "done", !.hit = None, !.document = None,
                               !.answer = [kind |-> kind, from |-> from]]
<1>1. /\ x.pc = "done" /\ x.content = run[r].content /\ x.request = run[r].request
      /\ x.batch = run[r].batch /\ x.answer.kind = kind /\ x.answer.from = from
  BY OwnRun DEF RunState
<1>2. x \in RunState
  <2>1. run[r] \in RunState
    BY OwnRun
  <2>2. "done" \in RunPc /\ [kind |-> kind, from |-> from] \in Answer
    BY DEF RunPc, Answer
  <2>3. QED
    BY <2>1, <2>2 DEF RunState
<1>3. RunInv(x)
  BY <1>1, <1>2, OwnRun DEF RunInv, Toward
<1>4. AnswerInv(x)
  BY <1>1, RecoverFaithful DEF AnswerInv
<1>5. Moves(run[r], x) /\ Link(phase'[r], x.pc)
  BY <1>1 DEF Moves, Wrote, Link
<1>6. Hold(r, x)
  BY DEF Respond
<1>7. QED
  BY <1>3, <1>4, <1>5, <1>6, RowsStay, RunHeld

LEMMA RecoverRuns ==
    ASSUME RunsInv, QueriesInv, NEW r \in Session, run[r].pc # "idle", phase[r] = "outside",
           run[r].request # None,
           RowsOf(run[r].request) # {},
           IF Recoverable(r) = {} THEN Respond(r, "conflict", r)
           ELSE \E s \in Recoverable(r) : Respond(r, "stored", s),
           UNCHANGED <<row, queries, phase>>
    PROVE  RunsInv' /\ QueriesInv'
<1>1. CASE Respond(r, "conflict", r)
  BY <1>1, RespondRuns
<1>2. ASSUME NEW s \in Recoverable(r), Respond(r, "stored", s)
      PROVE  RunsInv' /\ QueriesInv'
  <2>1. s \in Session
    BY RecoverFaithful
  <2>2. QED
    BY <1>2, <2>1, RespondRuns
<1>3. QED
  BY <1>1, <1>2

LEMMA LaterCached ==
    ASSUME CachedInv, RowForward, cached' \subseteq cached
    PROVE  CachedInv'
BY DEF CachedInv, RowForward

LEMMA FilledCached ==
    ASSUME CachedInv, UNCHANGED row, NEW c \in Content,
           \E d \in Document : ReadyWith(d, c), cached' = cached \cup {c}
    PROVE  CachedInv'
BY DEF CachedInv, ReadyWith

LEMMA SameStore ==
    ASSUME StoreInv, UNCHANGED storeVars
    PROVE  StoreInv'
BY DEF StoreInv, RowInv, Exists, storeVars

LEMMA SameMisc ==
    ASSUME MiscTyped, UNCHANGED <<born, embedding, model, redeploys>>
    PROVE  MiscTyped'
BY DEF MiscTyped

Quiet == UNCHANGED <<row, object, born, embedding, queries, model, redeploys>>

LEMMA QuietStore ==
    ASSUME DataInv, Quiet
    PROVE  /\ StoreInv' /\ MiscTyped' /\ RowForward
           /\ cached' \subseteq cached => CachedInv'
BY SameStore, SameMisc, RowsStay, LaterCached DEF DataInv, Quiet, storeVars

LEMMA LookupKeeps ==
    ASSUME DataInv, LockInv, NEW r \in Session, Lookup(r)
    PROVE  DataInv'
<1>1. Quiet /\ UNCHANGED <<cached, phase, row, queries>> /\ run[r].pc = "lookup"
  BY DEF Lookup, At, Quiet, storeVars, lockVars
<1>2. RunsInv /\ QueriesInv /\ phase[r] = "outside" /\ run[r].request # None
  BY <1>1, AwayFromLock, OwnRun DEF DataInv, RunInv
<1>3. ASSUME Goto(r, "cache")
      PROVE  RunsInv' /\ QueriesInv'
  BY <1>1, <1>2, <1>3, GotoRuns DEF Wrote, Toward, Link
<1>4. RunsInv' /\ QueriesInv'
  BY <1>1, <1>2, <1>3, RecoverRuns DEF Lookup, Recover
<1>5. QED
  BY <1>1, <1>4, QuietStore DEF DataInv

LEMMA LookInCacheKeeps ==
    ASSUME DataInv, LockInv, NEW r \in Session, LookInCache(r)
    PROVE  DataInv'
<1>1. Quiet /\ UNCHANGED <<cached, phase, row, queries>> /\ run[r].pc = "cache"
  BY DEF LookInCache, At, Quiet, storeVars, lockVars
<1>2. RunsInv /\ QueriesInv /\ phase[r] = "outside" /\ ~ Wrote(run[r])
  BY <1>1, AwayFromLock DEF DataInv, Wrote, Toward
<1>3. ASSUME Goto(r, "artifacts")
      PROVE  RunsInv' /\ QueriesInv'
  BY <1>1, <1>2, <1>3, GotoRuns DEF Link
<1>4. ASSUME Hold(r, [run[r] EXCEPT !.pc = "answer", !.hit = "ram"])
      PROVE  RunsInv' /\ QueriesInv'
  <2> DEFINE x == [run[r] EXCEPT !.pc = "answer", !.hit = "ram"]
  <2>1. /\ x.pc = "answer" /\ x.content = run[r].content /\ x.request = run[r].request
        /\ x.batch = run[r].batch /\ x.answer = run[r].answer /\ x.after = run[r].after
    BY <1>2, OwnRun DEF RunState
  <2>2. x \in RunState
    <3>1. run[r] \in RunState
      BY <1>2, OwnRun
    <3>2. "answer" \in RunPc /\ "ram" \in Hit
      BY DEF RunPc, Hit
    <3>3. QED
      BY <3>1, <3>2 DEF RunState
  <2>3. QED
    BY <1>1, <1>2, <1>4, <2>1, <2>2, GoesOn DEF Link
<1>5. QED
  BY <1>1, <1>3, <1>4, QuietStore DEF DataInv, LookInCache

LEMMA LoadArtifactsKeeps ==
    ASSUME DataInv, LockInv, NEW r \in Session, LoadArtifacts(r)
    PROVE  DataInv'
<1>1. Quiet /\ UNCHANGED <<cached, phase, row, queries>> /\ run[r].pc = "artifacts"
  BY DEF LoadArtifacts, At, Quiet, storeVars, lockVars
<1>2. RunsInv /\ QueriesInv /\ phase[r] = "outside" /\ ~ Wrote(run[r])
  BY <1>1, AwayFromLock DEF DataInv, Wrote, Toward
<1>3. ASSUME NEW d \in NewestMatch(run[r].content), Stored(d),
             NEW pc \in {"index", "backfill"},
             Hold(r, [run[r] EXCEPT !.pc = pc, !.hit = "mysql", !.document = d])
      PROVE  RunsInv' /\ QueriesInv'
  <2> DEFINE x == [run[r] EXCEPT !.pc = pc, !.hit = "mysql", !.document = d]
  <2>1. ReadyWith(d, run[r].content)
    BY <1>3 DEF NewestMatch, Matching, Stored, DataInv, StoreInv, RowInv, ReadyWith
  <2>2. /\ x.pc = pc /\ x.content = run[r].content /\ x.request = run[r].request
        /\ x.batch = run[r].batch /\ x.answer = run[r].answer /\ x.after = run[r].after
        /\ x.document = d
    BY <1>2, OwnRun DEF RunState
  <2>3. x \in RunState
    <3>1. run[r] \in RunState
      BY <1>2, OwnRun
    <3>2. pc \in RunPc /\ "mysql" \in Hit
      BY DEF RunPc, Hit
    <3>3. QED
      BY <2>1, <3>1, <3>2 DEF RunState, ReadyWith
  <2>4. QED
    BY <1>1, <1>2, <1>3, <2>1, <2>2, <2>3, GoesOn DEF Link
<1>4. ASSUME Respond(r, "error", r)
      PROVE  RunsInv' /\ QueriesInv'
  BY <1>1, <1>2, <1>4, RespondRuns
<1>5. ASSUME Hold(r, [run[r] EXCEPT !.pc = "answer", !.hit = "miss"])
      PROVE  RunsInv' /\ QueriesInv'
  <2> DEFINE x == [run[r] EXCEPT !.pc = "answer", !.hit = "miss"]
  <2>1. /\ x.pc = "answer" /\ x.content = run[r].content /\ x.request = run[r].request
        /\ x.batch = run[r].batch /\ x.answer = run[r].answer /\ x.after = run[r].after
    BY <1>2, OwnRun DEF RunState
  <2>2. x \in RunState
    <3>1. run[r] \in RunState
      BY <1>2, OwnRun
    <3>2. "answer" \in RunPc /\ "miss" \in Hit
      BY DEF RunPc, Hit
    <3>3. QED
      BY <3>1, <3>2 DEF RunState
  <2>3. QED
    BY <1>1, <1>2, <1>5, <2>1, <2>2, GoesOn DEF Link
<1>6. RunsInv' /\ QueriesInv'
  <2>1. CASE Miss(r)
    BY <1>4, <1>5, <2>1 DEF Miss
  <2>2. ASSUME NEW d \in NewestMatch(run[r].content), Stored(d),
               Hold(r, [run[r] EXCEPT !.pc = IF Embedded(d) THEN "index" ELSE "backfill",
                                      !.hit = "mysql", !.document = d])
        PROVE  RunsInv' /\ QueriesInv'
    BY <1>3, <2>2
  <2>3. QED
    BY <2>1, <2>2 DEF LoadArtifacts
<1>7. QED
  BY <1>1, <1>6, QuietStore DEF DataInv

LEMMA IndexKeeps ==
    ASSUME DataInv, LockInv, NEW r \in Session, Index(r)
    PROVE  DataInv'
<1>1. /\ Quiet /\ UNCHANGED <<phase, row, queries>> /\ run[r].pc = "index"
      /\ cached' = cached \cup {run[r].content} /\ Goto(r, "answer")
  BY DEF Index, At, Quiet, storeVars, lockVars
<1>2. RunsInv /\ QueriesInv /\ phase[r] = "outside" /\ ~ Wrote(run[r])
  BY <1>1, AwayFromLock DEF DataInv, Wrote, Toward
<1>3. RunsInv' /\ QueriesInv'
  BY <1>1, <1>2, GotoRuns DEF Link
<1>4. run[r].content \in Content /\ \E d \in Document : ReadyWith(d, run[r].content)
  BY <1>1, <1>2, OwnRun DEF RunInv, Toward, ReadyWith
<1>5. CachedInv'
  BY <1>1, <1>4, FilledCached DEF DataInv
<1>6. QED
  BY <1>1, <1>3, <1>5, QuietStore DEF DataInv

LEMMA AbortKeeps ==
    ASSUME DataInv, LockInv, NEW r \in Session, Abort(r)
    PROVE  DataInv'
<1>1. /\ Quiet /\ UNCHANGED <<cached, phase, row, queries>> /\ run[r].pc \in {"index", "answer"}
      /\ phase[r] = "outside" /\ Respond(r, "error", r)
  BY DEF Abort, Quiet, storeVars, lockVars
<1>2. RunsInv' /\ QueriesInv'
  BY <1>1, RespondRuns DEF DataInv
<1>3. QED
  BY <1>1, <1>2, QuietStore DEF DataInv

LEMMA FinishPersistedKeeps ==
    ASSUME DataInv, LockInv, NEW r \in Session, FinishPersisted(r)
    PROVE  DataInv'
<1>1. /\ Quiet /\ UNCHANGED <<phase, row, queries>> /\ run[r].pc = "persisted"
      /\ Respond(r, "own", r)
      /\ cached' = cached \cup {run[r].content} \/ cached' = cached
  BY DEF FinishPersisted, At, Quiet, storeVars, lockVars
<1>2. RunsInv /\ QueriesInv /\ phase[r] = "outside"
  BY <1>1, AwayFromLock DEF DataInv
<1>3. RunsInv' /\ QueriesInv'
  BY <1>1, <1>2, RespondRuns
<1>4. run[r].content \in Content /\ \E d \in Document : ReadyWith(d, run[r].content)
  BY <1>1, <1>2, OwnRun DEF RunInv, Toward
<1>5. CachedInv'
  BY <1>1, <1>4, FilledCached, QuietStore DEF DataInv
<1>6. QED
  BY <1>1, <1>3, <1>5, QuietStore DEF DataInv

LEMMA FinishFailedKeeps ==
    ASSUME DataInv, LockInv, NEW r \in Session, FinishFailed(r)
    PROVE  DataInv'
<1>1. Quiet /\ UNCHANGED <<phase, row, queries>> /\ run[r].pc = "failed"
  BY DEF FinishFailed, At, Quiet, storeVars, lockVars
<1>2. RunsInv /\ QueriesInv /\ phase[r] = "outside"
  BY <1>1, AwayFromLock DEF DataInv
<1>3. ASSUME Respond(r, "own", r)
      PROVE  RunsInv' /\ QueriesInv'
  BY <1>1, <1>2, <1>3, RespondRuns
<1>4. RunsInv' /\ QueriesInv'
  BY <1>1, <1>2, <1>3, RecoverRuns DEF FinishFailed, Recover
<1>5. CASE cached' = cached
  BY <1>1, <1>4, <1>5, QuietStore DEF DataInv
<1>6. CASE cached' # cached
  <2>1. /\ run[r].request # None /\ Recoverable(r) # {}
        /\ cached' = cached \cup {run[r].content}
    BY <1>6 DEF FinishFailed, CachedAfterFailure
  <2>2. \E d \in Document : ReadyWith(d, run[r].content)
    BY <1>1, <1>2, <2>1, RecoverFaithful
  <2>3. run[r].content \in Content
    BY <1>1, <1>2, OwnRun DEF RunInv
  <2>4. CachedInv'
    BY <1>1, <2>1, <2>2, <2>3, FilledCached DEF DataInv
  <2>5. QED
    BY <1>1, <1>4, <2>4, QuietStore DEF DataInv
<1>7. QED
  BY <1>5, <1>6

-----------------------------------------------------------------------------
(***************************************************************************)
(* The steps of a run that go through the lock.                            *)
(***************************************************************************)
PhaseBecomes(r, p) ==
    /\ \A s \in Session \ {r} : phase'[s] = phase[s]
    /\ phase'[r] = p

LEMMA PhaseSet ==
    ASSUME LockInv, NEW r \in Session, NEW p, phase' = [phase EXCEPT ![r] = p]
    PROVE  PhaseBecomes(r, p)
BY DEF PhaseBecomes, LockInv, LockTypeOK

LEMMA BodyEnds ==
    ASSUME LockInv, NEW r \in Session, CommitBody(r) \/ LeaveBody(r) \/ FailBody(r)
    PROVE  PhaseBecomes(r, "unlock") \/ PhaseBecomes(r, "close")
<1>1. \/ phase' = [phase EXCEPT ![r] = "unlock"]
      \/ phase' = [phase EXCEPT ![r] = "close"]
  BY DEF CommitBody, LeaveBody, FailBody, Return, Discard
<1>2. QED
  BY <1>1, PhaseSet

LEMMA RunsUntouched ==
    ASSUME RunsInv, QueriesInv, RowForward, UNCHANGED <<run, queries>>, NEW r \in Session, NEW p,
           PhaseBecomes(r, p), Link(p, run[r].pc)
    PROVE  RunsInv' /\ QueriesInv'
<1>1. run' \in [Session -> RunState]
  BY DEF RunsInv
<1>2. ASSUME NEW s \in Session
      PROVE  /\ Moves(run[s], run'[s])
             /\ RunInv(run'[s]) /\ AnswerInv(run'[s])
             /\ Link(phase'[s], run'[s].pc)
  <2>1. run'[s] = run[s]
    OBVIOUS
  <2>2. Link(phase'[s], run[s].pc)
    BY OwnRun DEF PhaseBecomes
  <2>3. QED
    BY <2>1, <2>2, OwnRun, SameRun
<1>3. QED
  BY <1>1, <1>2, RunsAfter

LEMMA AskLockKeeps ==
    ASSUME DataInv, LockInv, NEW r \in Session, AskLock(r)
    PROVE  DataInv'
<1>1. /\ Quiet /\ UNCHANGED <<cached, run, queries>> /\ run[r].pc \in {"backfill", "answer"}
      /\ phase' = [phase EXCEPT ![r] = "waiting"]
  BY DEF AskLock, Quiet, storeVars, runVars, Enter, Checkout
<1>2. PhaseBecomes(r, "waiting") /\ Link("waiting", run[r].pc)
  BY <1>1, PhaseSet DEF Link
<1>3. RunsInv' /\ QueriesInv'
  BY <1>1, <1>2, QuietStore, RunsUntouched DEF DataInv
<1>4. QED
  BY <1>1, <1>3, QuietStore DEF DataInv

LEMMA ReleaseKeeps ==
    ASSUME DataInv, LockInv, NEW r \in Session, Release(r)
    PROVE  DataInv'
<1>1. /\ Quiet /\ UNCHANGED <<cached, run, queries>> /\ phase[r] = "unlock"
      /\ phase' = [phase EXCEPT ![r] = "close"]
  BY DEF Release, Quiet, storeVars, runVars, Unlock, Checkout
<1>2. PhaseBecomes(r, "close") /\ Link("close", run[r].pc)
  BY <1>1, PhaseSet, OwnRun DEF Link, DataInv
<1>3. RunsInv' /\ QueriesInv'
  BY <1>1, <1>2, QuietStore, RunsUntouched DEF DataInv
<1>4. QED
  BY <1>1, <1>3, QuietStore DEF DataInv

LEMMA GetLockKeeps ==
    ASSUME DataInv, LockInv, NEW r \in Session, GetLock(r)
    PROVE  DataInv'
<1>1. /\ Quiet /\ UNCHANGED <<cached, row, queries>> /\ phase[r] = "waiting"
      /\ phase' = [phase EXCEPT ![r] = "body"]
      /\ Hold(r, [run[r] EXCEPT !.seen = {d \in Document : Stored(d)}])
  BY DEF GetLock, Quiet, storeVars, Acquire
<1>2. /\ RunsInv /\ QueriesInv /\ PhaseBecomes(r, "body")
      /\ run[r].pc \in {"backfill", "answer"} /\ ~ Wrote(run[r])
  BY <1>1, PhaseSet, OwnRun DEF Link, DataInv, Wrote, Toward
<1> DEFINE x == [run[r] EXCEPT !.seen = {d \in Document : Stored(d)}]
<1>3. /\ x.pc = run[r].pc /\ x.content = run[r].content /\ x.request = run[r].request
      /\ x.batch = run[r].batch /\ x.answer = run[r].answer /\ x.after = run[r].after
      /\ x.document = run[r].document
  BY <1>2, OwnRun DEF RunState
<1>4. x \in RunState
  BY <1>2, OwnRun DEF RunState
<1>5. x.pc \in {"backfill", "index"} => ReadyWith(x.document, x.content)
  BY <1>2, <1>3, OwnRun DEF RunInv
<1>6. Link(phase'[r], x.pc) /\ \A s \in Session \ {r} : phase'[s] = phase[s]
  BY <1>2, <1>3 DEF PhaseBecomes, Link
<1>7. RunsInv' /\ QueriesInv'
  BY <1>1, <1>2, <1>3, <1>4, <1>5, <1>6, GoesOn
<1>8. QED
  BY <1>1, <1>7, QuietStore DEF DataInv

LEMMA MissLockKeeps ==
    ASSUME DataInv, LockInv, NEW r \in Session, MissLock(r)
    PROVE  DataInv'
<1>1. /\ Quiet /\ UNCHANGED <<cached, row, queries>> /\ phase[r] = "waiting"
      /\ phase' = [phase EXCEPT ![r] = "outside"] /\ Goto(r, AfterFailure(r))
  BY DEF MissLock, Quiet, storeVars, TimeOut, Return
<1>2. /\ RunsInv /\ QueriesInv /\ PhaseBecomes(r, "outside")
      /\ run[r].pc \in {"backfill", "answer"} /\ ~ Wrote(run[r])
  BY <1>1, PhaseSet, OwnRun DEF Link, DataInv, Wrote, Toward
<1>3. /\ AfterFailure(r) \in {"index", "failed"}
      /\ AfterFailure(r) = "index" => ReadyWith(run[r].document, run[r].content)
  BY <1>2, OwnRun DEF AfterFailure, At, RunInv
<1>4. Link(phase'[r], AfterFailure(r)) /\ \A s \in Session \ {r} : phase'[s] = phase[s]
  BY <1>2, <1>3 DEF PhaseBecomes, Link
<1>5. RunsInv' /\ QueriesInv'
  BY <1>1, <1>2, <1>3, <1>4, GotoRuns
<1>6. QED
  BY <1>1, <1>5, QuietStore DEF DataInv

LEMMA BackfillKeeps ==
    ASSUME DataInv, LockInv, NEW r \in Session, Backfill(r)
    PROVE  DataInv'
<1>1. /\ UNCHANGED <<row, object, born, queries, cached, model, redeploys>>
      /\ run[r].pc = "backfill"
      /\ Leave(r, "index")
      /\ CommitBody(r) \/ LeaveBody(r) \/ FailBody(r)
  BY DEF Backfill, At, storeVars
<1>2. RunsInv /\ QueriesInv /\ ReadyWith(run[r].document, run[r].content)
  BY <1>1, OwnRun DEF DataInv, RunInv
<1>3. MiscTyped'
  <2>1. PICK d \in Document : d = run[r].document
    BY <1>2 DEF ReadyWith
  <2>2. \/ embedding' = [embedding EXCEPT ![d] = [row |-> model, vectors |-> model]]
        \/ embedding' = embedding
    BY <2>1 DEF Backfill
  <2>3. embedding' \in [Document -> [row: Model \cup {None}, vectors: Model \cup {None}]]
    BY <2>2 DEF DataInv, MiscTyped
  <2>4. QED
    BY <1>1, <2>3 DEF DataInv, MiscTyped
<1> DEFINE x == [run[r] EXCEPT !.pc = "unlock", !.after = "index", !.seen = {}]
<1>4. /\ x.pc = "unlock" /\ x.content = run[r].content /\ x.request = run[r].request
      /\ x.batch = run[r].batch /\ x.answer = run[r].answer /\ x.after = "index"
      /\ x.document = run[r].document
  BY <1>2, OwnRun DEF RunState
<1>5. x \in RunState
  <2>1. run[r] \in RunState
    BY <1>2, OwnRun
  <2>2. "unlock" \in RunPc /\ "index" \in RunPc /\ {} \in SUBSET Document
    BY DEF RunPc
  <2>3. QED
    BY <2>1, <2>2 DEF RunState
<1>6. RunInv(x) /\ AnswerInv(x) /\ Moves(run[r], x)
  BY <1>1, <1>2, <1>4, <1>5, OwnRun DEF RunInv, AnswerInv, Moves, Wrote, Toward
<1>7. Link(phase'[r], x.pc) /\ \A s \in Session \ {r} : phase'[s] = phase[s]
  BY <1>1, <1>4, BodyEnds DEF PhaseBecomes, Link
<1>8. Hold(r, x)
  BY <1>1 DEF Leave
<1>9. RunsInv' /\ QueriesInv'
  BY <1>1, <1>2, <1>6, <1>7, <1>8, RowsStay, RunHeld
<1>10. QED
  BY <1>1, <1>3, <1>9, SameStore, RowsStay, LaterCached DEF DataInv, storeVars

LEMMA LeaveLockKeeps ==
    ASSUME DataInv, LockInv, NEW r \in Session, LeaveLock(r)
    PROVE  DataInv'
<1>1. /\ Quiet /\ UNCHANGED <<cached, row, queries>> /\ phase[r] = "close"
      /\ phase' = [phase EXCEPT ![r] = "outside"]
      /\ Hold(r, [run[r] EXCEPT !.pc = run[r].after, !.after = None])
  BY DEF LeaveLock, Quiet, storeVars, Close, Return
<1>2. /\ RunsInv /\ QueriesInv /\ PhaseBecomes(r, "outside") /\ run[r].pc = "unlock"
  BY <1>1, PhaseSet, OwnRun DEF Link, DataInv
<1>3. run[r].after \in {"index", "persisted", "failed"}
  BY <1>2, OwnRun DEF RunInv
<1> DEFINE x == [run[r] EXCEPT !.pc = run[r].after, !.after = None]
<1>4. /\ x.pc = run[r].after /\ x.content = run[r].content /\ x.request = run[r].request
      /\ x.batch = run[r].batch /\ x.answer = run[r].answer /\ x.after = None
      /\ x.document = run[r].document
  BY <1>2, OwnRun DEF RunState
<1>5. x \in RunState
  <2>1. run[r] \in RunState
    BY <1>2, OwnRun
  <2>2. run[r].after \in RunPc
    BY <1>3 DEF RunPc
  <2>3. QED
    BY <2>1, <2>2 DEF RunState
<1>6. RunInv(x) /\ AnswerInv(x) /\ Moves(run[r], x)
  <2>1. RunInv(x)
    BY <1>2, <1>3, <1>4, <1>5, OwnRun DEF RunInv, Toward
  <2>2. AnswerInv(x) /\ Moves(run[r], x)
    BY <1>2, <1>3, <1>4, OwnRun DEF AnswerInv, Moves, Wrote, Toward
  <2>3. QED
    BY <2>1, <2>2
<1>7. Link(phase'[r], x.pc) /\ \A s \in Session \ {r} : phase'[s] = phase[s]
  BY <1>2, <1>3, <1>4 DEF PhaseBecomes, Link
<1>8. RunsInv' /\ QueriesInv'
  BY <1>1, <1>2, <1>6, <1>7, RowsStay, RunHeld
<1>9. QED
  BY <1>1, <1>8, QuietStore DEF DataInv

-----------------------------------------------------------------------------
(***************************************************************************)
(* The steps that change a row.                                            *)
(***************************************************************************)
Stays ==
    \A d \in Document :
        row[d].status = "ready" => row'[d].status = "ready" /\ row'[d].chunks = row[d].chunks

LEMMA RowChange ==
    ASSUME StoreInv, NEW d \in Document,
           row' \in [Document -> Row], object' \in [Document -> Content \cup {None}],
           \A e \in Document \ {d} : row'[e] = row[e] /\ object'[e] = object[e],
           row[d].status = "ready" =>
               /\ row'[d].status = "ready" /\ row'[d].content = row[d].content
               /\ row'[d].chunks = row[d].chunks,
           row'[d].status = "ready" =>
               row'[d].content \in Content /\ row'[d].chunks = row'[d].content,
           row'[d].chunks # None => row'[d].status = "ready",
           object'[d] # None => row'[d].content = object'[d] /\ row'[d].status # "absent"
    PROVE  StoreInv' /\ RowForward /\ Stays
<1>1. \A e \in Document : RowInv(e)'
  BY DEF StoreInv, RowInv, Exists
<1>2. RowForward
  BY DEF RowForward, ReadyWith
<1>3. Stays
  BY DEF Stays
<1>4. QED
  BY <1>1, <1>2, <1>3 DEF StoreInv

LEMMA OwnerIsUser == Owner \in User
BY RunAssumption DEF Owner

LEMMA Count == Cardinality({e \in Document : Exists(e)}) + 1 \in Nat
<1>1. IsFiniteSet({e \in Document : Exists(e)})
  BY RunAssumption, FS_Subset
<1>2. Cardinality({e \in Document : Exists(e)}) \in Nat
  BY <1>1, FS_CardinalityType
<1>3. QED
  BY <1>2

LEMMA NoneApart == None \notin Content /\ None \notin User /\ None \notin FailureCause
BY StoreAssumption

LEMMA InsertStores ==
    ASSUME DataInv, NEW r \in Session, NEW d \in Document,
           NEW c \in Content, c = run[r].content,
           InsertDocument(r, d), UNCHANGED <<object, model, redeploys>>
    PROVE  /\ StoreInv' /\ RowForward /\ Stays /\ MiscTyped'
           /\ ReadyWith(d, c)'
<1>1. /\ row' = [row EXCEPT ![d] = TextOnlyRow(c)] /\ row[d].status = "absent"
      /\ row \in [Document -> Row] /\ object \in [Document -> Content \cup {None}]
  BY DEF InsertDocument, Exists, DataInv, StoreInv
<1>2. /\ TextOnlyRow(c).status = "ready" /\ TextOnlyRow(c).content = c
      /\ TextOnlyRow(c).chunks = c
  BY DEF TextOnlyRow, QueuedRow
<1>3. TextOnlyRow(c) \in Row
  BY OwnerIsUser DEF TextOnlyRow, QueuedRow, Row, Status
<1>4. row'[d] = TextOnlyRow(c) /\ row' \in [Document -> Row]
  BY <1>1, <1>3
<1>5. /\ row'[d].status = "ready" /\ row'[d].content = c /\ row'[d].chunks = c
  BY <1>2, <1>4
<1>6. object[d] = None
  BY <1>1 DEF DataInv, StoreInv, RowInv, Exists
<1>7. StoreInv' /\ RowForward /\ Stays
  BY <1>1, <1>4, <1>5, <1>6, RowChange DEF DataInv
<1>8. MiscTyped'
  BY Count DEF InsertDocument, DataInv, MiscTyped
<1>9. QED
  BY <1>5, <1>7, <1>8 DEF ReadyWith

LEMMA CompleteStores ==
    ASSUME DataInv, NEW r \in Session, NEW d \in Document,
           NEW c \in Content, c = run[r].content,
           CompleteDocument(r, d), UNCHANGED <<object, model, redeploys>>
    PROVE  /\ StoreInv' /\ RowForward /\ Stays /\ MiscTyped'
           /\ ReadyWith(d, c)'
<1>2. /\ row' = [row EXCEPT ![d].status = "ready", ![d].error = None, ![d].chunks = c]
      /\ row[d].status # "absent" /\ row[d].content = c
      /\ row \in [Document -> Row] /\ object \in [Document -> Content \cup {None}]
  BY DEF CompleteDocument, NewestMatch, Matching, Exists, DataInv, StoreInv
<1>3. /\ row'[d] = [row[d] EXCEPT !.status = "ready", !.error = None, !.chunks = c]
      /\ \A e \in Document \ {d} : row'[e] = row[e]
  BY <1>2
<1>4. row[d] \in Row /\ row'[d] \in Row
  <2>1. row[d] \in Row
    BY <1>2
  <2>2. [row[d] EXCEPT !.status = "ready", !.error = None, !.chunks = c] \in Row
    BY <2>1 DEF Row, Status
  <2>3. QED
    BY <1>3, <2>1, <2>2
<1>5. row'[d].status = "ready" /\ row'[d].content = c /\ row'[d].chunks = c
  BY <1>2, <1>3, <1>4 DEF Row
<1>6. row' \in [Document -> Row]
  BY <1>2, <1>3, <1>4
<1>7. /\ row[d].status = "ready" => row[d].chunks = c
      /\ object[d] # None => object[d] = c
  BY <1>2 DEF DataInv, StoreInv, RowInv
<1>8. StoreInv' /\ RowForward /\ Stays
  BY <1>2, <1>3, <1>5, <1>6, <1>7, RowChange DEF DataInv
<1>9. MiscTyped'
  BY DEF CompleteDocument, DataInv, MiscTyped
<1>10. QED
  BY <1>5, <1>8, <1>9 DEF ReadyWith

(***************************************************************************)
(* Storing a batch: no other run has rows under its request_id, because    *)
(* each would have a question 1.                                           *)
(***************************************************************************)
LEMMA RequestIsFree ==
    ASSUME RunsInv, QueriesInv, NEW r \in Session, RequestFree(r), run[r].batch \in Batch,
           run[r].request # None
    PROVE  RowsOf(run[r].request) = {}
<1>1. SUFFICES ASSUME NEW p \in RowsOf(run[r].request) PROVE FALSE
  OBVIOUS
<1>2. PICK s \in Session : s = p.run
  BY DEF RowsOf, QueriesInv, QueryRow
<1>3. p \in StoredBatch(s) /\ p.request = run[r].request
  BY <1>2 DEF RowsOf, StoredBatch
<1>4. PICK d \in Document : StoredBatch(s) = RowsBy(run[s], s, d) /\ Wrote(run[s])
  BY <1>3 DEF QueriesInv, BatchInv
<1>5. run[s].batch \in Batch /\ run[s].request = run[r].request
  BY <1>3, <1>4, OwnRun, WroteNotIdle DEF RowsBy, RunInv
<1> DEFINE q == [request |-> run[s].request, index |-> 1, question |-> run[s].batch[1],
                 run |-> s, document |-> d]
<1>6. q \in RowsBy(run[s], s, d)
  BY <1>5, RunAssumption DEF RowsBy
<1>7. q \in RowsOf(run[r].request) /\ q.index = 1
  BY <1>4, <1>5, <1>6 DEF RowsOf, StoredBatch
<1>8. 1 \in DOMAIN run[r].batch
  BY RunAssumption
<1>9. QED
  BY <1>7, <1>8 DEF RequestFree

LEMMA BatchStored ==
    ASSUME DataInv, NEW r \in Session, NEW d \in Document, run[r].pc = "answer",
           RequestFree(r), StoreBatch(r, d),
           RowForward, NEW c \in Content, c = run[r].content, ReadyWith(d, c)',
           NEW after \in {"persisted", "failed"}, Leave(r, after),
           Link(phase'[r], "unlock"), \A s \in Session \ {r} : phase'[s] = phase[s]
    PROVE  RunsInv' /\ QueriesInv'
<1> DEFINE new == RowsBy(run[r], r, d)
<1>1. /\ RunsInv /\ QueriesInv /\ ~ Wrote(run[r])
      /\ run[r].content \in Content /\ run[r].batch \in Batch
      /\ run[r].request \in BatchId \cup {None}
  BY OwnRun DEF DataInv, RunInv, RunState, Wrote, Toward
<1>2. queries' = queries \cup new /\ StoredBatch(r) = {}
  BY <1>1 DEF StoreBatch, RowsBy, QueriesInv, BatchInv
<1>3. PICK x : x = [run[r] EXCEPT !.pc = "unlock", !.after = after, !.seen = {}]
  OBVIOUS
<1>4. /\ x.pc = "unlock" /\ x.content = run[r].content /\ x.request = run[r].request
      /\ x.batch = run[r].batch /\ x.answer = run[r].answer /\ x.after = after
  BY <1>1, <1>3, OwnRun DEF RunState
<1>5. x \in RunState
  <2>1. run[r] \in RunState
    BY <1>1, OwnRun
  <2>2. after \in RunPc /\ "unlock" \in RunPc /\ {} \in SUBSET Document
    BY DEF RunPc
  <2>3. QED
    BY <1>3, <2>1, <2>2 DEF RunState
<1>6. /\ run' \in [Session -> RunState] /\ run'[r] = x
      /\ \A s \in Session \ {r} : run'[s] = run[s]
  BY <1>1, <1>3, <1>5 DEF Leave, Hold, RunsInv
<1>7. \A s \in Session : Moves(run[s], run'[s])
  <2>1. Moves(run[r], x)
    BY <1>1, <1>4 DEF Moves
  <2>2. QED
    BY <1>1, <1>6, <2>1, SameRun
<1>8. RunsInv'
  <2>1. ASSUME NEW s \in Session
        PROVE  RunInv(run[s])' /\ AnswerInv(run[s])' /\ Link(phase[s], run[s].pc)'
    <3>1. PICK y : y = run[s]
      OBVIOUS
    <3>2. RunInv(y)' /\ AnswerInv(y)'
      <4>1. RunInv(y) /\ AnswerInv(y)
        BY <1>1, <3>1, OwnRun
      <4>2. QED
        BY <1>1, <1>2, <1>7, <4>1, LaterRun
    <3>3. CASE s = r
      <4>1. AnswerInv(run[r])'
        BY <1>4, <1>6, <3>1, <3>2, <3>3 DEF AnswerInv
      <4>2. RunInv(run[r])'
        BY <1>1, <1>4, <1>5, <1>6 DEF RunInv, Toward, ReadyWith
      <4>3. QED
        BY <1>4, <1>6, <3>3, <4>1, <4>2 DEF Link
    <3>4. CASE s # r
      <4>1. run'[s] = y /\ phase'[s] = phase[s]
        BY <1>6, <3>1, <3>4
      <4>2. RunInv(run[s])' /\ AnswerInv(run[s])'
        BY <3>2, <4>1 DEF RunInv, AnswerInv, ReadyWith, Toward
      <4>3. QED
        BY <1>1, <3>1, <4>1, <4>2, OwnRun DEF Link
    <3>5. QED
      BY <3>3, <3>4
  <2>2. QED
    BY <1>6, <2>1 DEF RunsInv
<1>9. new \subseteq QueryRow
  BY <1>1, RunAssumption DEF RowsBy, QueryRow
<1>10. ASSUME NEW s \in Session
       PROVE  BatchInv(s)'
  <2>1. CASE s = r
    <3>1. StoredBatch(r)' = new
      BY <1>2 DEF StoredBatch, RowsBy
    <3>2. RowsBy(run[r], r, d)' = new
      BY <1>4, <1>6 DEF RowsBy
    <3>3. Wrote(run[r])' /\ ReadyWith(d, run[r].content)'
      BY <1>4, <1>6 DEF Wrote, Toward, ReadyWith
    <3>4. QED
      BY <2>1, <3>1, <3>2, <3>3 DEF BatchInv
  <2>2. CASE s # r
    <3>1. StoredBatch(s)' = StoredBatch(s)
      BY <1>2, <2>2 DEF StoredBatch, RowsBy
    <3>2. QED
      BY <1>1, <1>7, <3>1, LaterBatch
  <2>3. QED
    BY <2>1, <2>2
<1>11. RequestInv'
  <2>1. \A q \in new : q.run = r /\ q.request = run[r].request
    BY DEF RowsBy
  <2>2. \A p \in queries : run[r].request # None => p.request # run[r].request
    BY <1>1, RequestIsFree DEF RowsOf
  <2>3. QED
    BY <1>1, <1>2, <2>1, <2>2 DEF QueriesInv, RequestInv
<1>12. QED
  BY <1>1, <1>2, <1>8, <1>9, <1>10, <1>11 DEF QueriesInv

LEMMA LeavesFailed ==
    ASSUME RunsInv, QueriesInv, NEW r \in Session, run[r].pc = "answer", Leave(r, "failed"),
           UNCHANGED <<row, queries>>,
           Link(phase'[r], "unlock"), \A s \in Session \ {r} : phase'[s] = phase[s]
    PROVE  RunsInv' /\ QueriesInv'
<1> DEFINE x == [run[r] EXCEPT !.pc = "unlock", !.after = "failed", !.seen = {}]
<1>1. /\ x.pc = "unlock" /\ x.content = run[r].content /\ x.request = run[r].request
      /\ x.batch = run[r].batch /\ x.answer = run[r].answer /\ x.after = "failed"
  BY OwnRun DEF RunState
<1>2. x \in RunState
  <2>1. run[r] \in RunState
    BY OwnRun
  <2>2. "unlock" \in RunPc /\ "failed" \in RunPc /\ {} \in SUBSET Document
    BY DEF RunPc
  <2>3. QED
    BY <2>1, <2>2 DEF RunState
<1>3. RunInv(x) /\ AnswerInv(x) /\ Moves(run[r], x)
  BY <1>1, <1>2, OwnRun DEF RunInv, AnswerInv, Moves, Wrote, Toward
<1>4. Hold(r, x) /\ Link(phase'[r], x.pc)
  BY <1>1 DEF Leave
<1>5. QED
  BY <1>3, <1>4, RowsStay, RunHeld

LEMMA PersistKeeps ==
    ASSUME DataInv, LockInv, NEW r \in Session, PersistUploadResult(r)
    PROVE  DataInv' /\ Stays
<1>1. /\ UNCHANGED <<object, cached, model, redeploys>> /\ run[r].pc = "answer"
      /\ CommitBody(r) \/ LeaveBody(r) \/ FailBody(r)
  BY DEF PersistUploadResult, At
<1>2. Link(phase'[r], "unlock") /\ \A s \in Session \ {r} : phase'[s] = phase[s]
  BY <1>1, BodyEnds DEF PhaseBecomes, Link
<1>3. ASSUME NEW d \in Document, RequestFree(r), InsertDocument(r, d) \/ CompleteDocument(r, d),
             StoreBatch(r, d), NEW after \in {"persisted", "failed"}, Leave(r, after)
      PROVE  DataInv' /\ Stays
  <2>1. PICK c \in Content : c = run[r].content
    BY <1>1, OwnRun DEF DataInv, RunInv
  <2>2. StoreInv' /\ RowForward /\ Stays /\ MiscTyped' /\ ReadyWith(d, c)'
    BY <1>1, <1>3, <2>1, InsertStores, CompleteStores
  <2>3. RunsInv' /\ QueriesInv'
    BY <1>1, <1>2, <1>3, <2>1, <2>2, BatchStored
  <2>4. CachedInv'
    BY <1>1, <2>2, LaterCached DEF DataInv
  <2>5. QED
    BY <2>2, <2>3, <2>4 DEF DataInv
<1>4. ASSUME Leave(r, "failed"), UNCHANGED <<row, born, embedding, queries>>
      PROVE  DataInv' /\ Stays
  <2>1. Quiet /\ UNCHANGED <<row, queries>>
    BY <1>1, <1>4 DEF Quiet
  <2>2. RunsInv' /\ QueriesInv'
    BY <1>1, <1>2, <1>4, LeavesFailed DEF DataInv
  <2>3. Stays
    BY <2>1 DEF Stays
  <2>4. QED
    BY <1>1, <2>1, <2>2, <2>3, QuietStore DEF DataInv
<1>5. QED
  BY <1>3, <1>4 DEF PersistUploadResult

-----------------------------------------------------------------------------
(***************************************************************************)
(* The surroundings.                                                       *)
(***************************************************************************)
LEMMA RunsAside ==
    ASSUME RunsInv, QueriesInv, RowForward, UNCHANGED <<run, phase, queries>>
    PROVE  RunsInv' /\ QueriesInv'
<1>1. run' \in [Session -> RunState]
  BY DEF RunsInv
<1>2. ASSUME NEW s \in Session
      PROVE  /\ Moves(run[s], run'[s])
             /\ RunInv(run'[s]) /\ AnswerInv(run'[s])
             /\ Link(phase'[s], run'[s].pc)
  <2>1. run'[s] = run[s] /\ phase'[s] = phase[s]
    OBVIOUS
  <2>2. QED
    BY <2>1, OwnRun, SameRun
<1>3. QED
  BY <1>1, <1>2, RunsAfter

LEMMA AdmitKeeps ==
    ASSUME DataInv, Admit
    PROVE  DataInv' /\ Stays
<1>1. PICK d \in Document, c \in Content :
        /\ ~ Exists(d)
        /\ object' = [object EXCEPT ![d] = c]
        /\ row' = [row EXCEPT ![d] = QueuedRow(Owner, c, None)]
        /\ born' = [born EXCEPT ![d] = Cardinality({e \in Document : Exists(e)}) + 1]
        /\ embedding' = [embedding EXCEPT ![d].row = model]
  BY DEF Admit
<1>2. UNCHANGED <<phase, run, queries, cached, model, redeploys>>
  BY DEF Admit, lockVars
<1>3. /\ QueuedRow(Owner, c, None).status = "queued"
      /\ QueuedRow(Owner, c, None).content = c
      /\ QueuedRow(Owner, c, None).chunks = None
  BY DEF QueuedRow
<1>4. QueuedRow(Owner, c, None) \in Row
  BY OwnerIsUser DEF QueuedRow, Row, Status
<1>5. StoreInv' /\ RowForward /\ Stays
  <2>1. row' \in [Document -> Row] /\ object' \in [Document -> Content \cup {None}]
    BY <1>1, <1>4 DEF DataInv, StoreInv
  <2>2. /\ row'[d] = QueuedRow(Owner, c, None) /\ object'[d] = c
        /\ \A e \in Document \ {d} : row'[e] = row[e] /\ object'[e] = object[e]
    BY <1>1 DEF DataInv, StoreInv
  <2>3. row[d].status = "absent"
    BY <1>1 DEF Exists
  <2>4. StoreInv
    BY DEF DataInv
  <2>5. QED
    BY <1>3, <2>1, <2>2, <2>3, <2>4, RowChange
<1>6. MiscTyped'
  <2>1. born' \in [Document -> Nat]
    BY <1>1, Count DEF DataInv, MiscTyped
  <2>2. embedding' \in [Document -> [row: Model \cup {None}, vectors: Model \cup {None}]]
    BY <1>1 DEF DataInv, MiscTyped
  <2>3. QED
    BY <1>2, <2>1, <2>2 DEF DataInv, MiscTyped
<1>7. RunsInv' /\ QueriesInv'
  BY <1>2, <1>5, RunsAside DEF DataInv
<1>8. CachedInv'
  BY <1>2, <1>5, LaterCached DEF DataInv
<1>9. QED
  BY <1>5, <1>6, <1>7, <1>8 DEF DataInv

LEMMA WorkerKeeps ==
    ASSUME DataInv, WorkerTransaction
    PROVE  DataInv' /\ Stays
<1>1. PICK d \in Document :
        /\ object[d] # None
        /\ \/ /\ row' = [row EXCEPT ![d] = MarkFailed(row[d], "exhausted")]
              /\ UNCHANGED embedding
           \/ /\ row' = [row EXCEPT ![d] = PersistArtifacts(row[d], object[d])]
              /\ embedding' = IF row[d].status = "ready" THEN embedding
                              ELSE [embedding EXCEPT ![d] = [row |-> model, vectors |-> model]]
  BY DEF WorkerTransaction
<1>2. UNCHANGED <<object, phase, run, born, queries, cached, model, redeploys>>
  BY DEF WorkerTransaction, lockVars
<1>3. /\ row \in [Document -> Row] /\ row[d] \in Row
      /\ object \in [Document -> Content \cup {None}] /\ object[d] \in Content
      /\ row[d].content = object[d] /\ row[d].status # "absent"
      /\ row[d].status = "ready" => row[d].chunks = row[d].content
      /\ row[d].chunks # None => row[d].status = "ready"
  BY <1>1 DEF DataInv, StoreInv, RowInv, Exists
<1>4. PICK w : row' = [row EXCEPT ![d] = w] /\
               (w = MarkFailed(row[d], "exhausted") \/ w = PersistArtifacts(row[d], object[d]))
  BY <1>1
<1>5. /\ w \in Row /\ w.content = object[d]
      /\ w.status # "absent"
      /\ row[d].status = "ready" => w = row[d]
      /\ w.status = "ready" => w.chunks = w.content
      /\ w.chunks # None => w.status = "ready"
  <2>1. CASE row[d].status = "ready"
    BY <1>3, <1>4, <2>1 DEF MarkFailed, PersistArtifacts
  <2>2. CASE row[d].status # "ready" /\ w = [row[d] EXCEPT !.status = "failed", !.error = "exhausted"]
    BY <1>3, <2>2 DEF Row, Status, FailureCause
  <2>3. CASE /\ row[d].status # "ready"
             /\ w = [row[d] EXCEPT !.status = "ready", !.error = None, !.chunks = object[d]]
    BY <1>3, <2>3 DEF Row, Status
  <2>4. QED
    BY <1>4, <2>1, <2>2, <2>3 DEF MarkFailed, PersistArtifacts
<1>6. StoreInv' /\ RowForward /\ Stays
  <2>1. row' \in [Document -> Row] /\ row'[d] = w
        /\ \A e \in Document \ {d} : row'[e] = row[e]
    BY <1>3, <1>4, <1>5
  <2>2. StoreInv
    BY DEF DataInv
  <2>3. QED
    BY <1>2, <1>3, <1>5, <2>1, <2>2, RowChange
<1>7. MiscTyped'
  <2>1. embedding' \in [Document -> [row: Model \cup {None}, vectors: Model \cup {None}]]
    BY <1>1 DEF DataInv, MiscTyped
  <2>2. QED
    BY <1>2, <2>1 DEF DataInv, MiscTyped
<1>8. RunsInv' /\ QueriesInv'
  BY <1>2, <1>6, RunsAside DEF DataInv
<1>9. CachedInv'
  BY <1>2, <1>6, LaterCached DEF DataInv
<1>10. QED
  BY <1>6, <1>7, <1>8, <1>9 DEF DataInv

LEMMA RedeployKeeps ==
    ASSUME DataInv, Redeploy
    PROVE  DataInv' /\ Stays
<1>1. /\ UNCHANGED <<row, object, born, embedding, queries>>
      /\ cached' = {} /\ model' \in Model
      /\ redeploys < MaxRedeploys /\ redeploys' = redeploys + 1
      /\ phase' = [s \in Session |-> "outside"]
  BY DEF Redeploy, storeVars, LockReset
<1>2. StoreInv' /\ CachedInv' /\ RowForward /\ Stays
  BY <1>1, SameStore, RowsStay DEF DataInv, storeVars, CachedInv, Stays
<1>3. MiscTyped'
  <2>1. redeploys' \in 0..MaxRedeploys
    BY <1>1, RunAssumption DEF DataInv, MiscTyped
  <2>2. QED
    BY <1>1, <2>1 DEF DataInv, MiscTyped
<1>4. RunsInv' /\ QueriesInv'
  <2>1. ASSUME NEW s \in Session
        PROVE  /\ run'[s] \in RunState /\ Moves(run[s], run'[s])
               /\ RunInv(run'[s]) /\ AnswerInv(run'[s])
               /\ Link(phase'[s], run'[s].pc)
    <3>1. CASE run[s].pc \in {"idle", "done"}
      <4>1. run'[s] = run[s] /\ phase'[s] = "outside"
        BY <1>1, <3>1 DEF Redeploy
      <4>2. Link("outside", run[s].pc)
        BY <3>1 DEF Link
      <4>3. QED
        BY <4>1, <4>2, OwnRun, SameRun DEF DataInv
    <3>2. CASE run[s].pc \notin {"idle", "done"}
      <4> DEFINE x == [run[s] EXCEPT !.pc = "done", !.seen = {}, !.after = None,
                                     !.hit = None, !.document = None,
                                     !.answer = [kind |-> "lost", from |-> s]]
      <4>1. run'[s] = x /\ phase'[s] = "outside"
        BY <1>1, <3>2 DEF Redeploy
      <4>2. /\ x.pc = "done" /\ x.content = run[s].content /\ x.request = run[s].request
            /\ x.batch = run[s].batch /\ x.answer.kind = "lost"
        BY OwnRun DEF DataInv, RunState
      <4>3. x \in RunState
        <5>1. run[s] \in RunState
          BY OwnRun DEF DataInv
        <5>2. /\ "done" \in RunPc /\ {} \in SUBSET Document
              /\ [kind |-> "lost", from |-> s] \in Answer
          BY DEF RunPc, Answer
        <5>3. QED
          BY <5>1, <5>2 DEF RunState
      <4>4. RunInv(x) /\ AnswerInv(x) /\ Moves(run[s], x) /\ Link("outside", x.pc)
        BY <3>2, <4>2, <4>3, OwnRun
           DEF DataInv, RunInv, AnswerInv, Moves, Wrote, Toward, Link
      <4> HIDE DEF x
      <4>5. QED
        BY <4>1, <4>3, <4>4
    <3>3. QED
      BY <3>1, <3>2
  <2>2. run' \in [Session -> RunState]
    BY <2>1 DEF Redeploy
  <2>3. RunsInv /\ QueriesInv /\ UNCHANGED queries
    BY <1>1 DEF DataInv
  <2>4. QED
    BY <1>2, <2>1, <2>2, <2>3, RunsAfter
<1>5. QED
  BY <1>2, <1>3, <1>4 DEF DataInv

-----------------------------------------------------------------------------
IInv == LockInv /\ DataInv

LEMMA InitInv == Init => IInv
<1> SUFFICES ASSUME Init PROVE IInv
  OBVIOUS
<1>1. LockInv
  BY LockInitInv DEF Init
<1>2. PICK legacy \in {{}} \cup {{d} : d \in Document}, c \in Content :
        /\ row = [d \in Document |-> IF d \in legacy THEN TextOnlyRow(c) ELSE NoRow]
        /\ born = [d \in Document |-> IF d \in legacy THEN 1 ELSE 0]
        /\ embedding = [d \in Document |->
             [row |-> IF d \in legacy THEN model ELSE None, vectors |-> None]]
  BY DEF Init
<1>3. StoreInv
  <2>1. /\ TextOnlyRow(c).status = "ready" /\ TextOnlyRow(c).content = c
        /\ TextOnlyRow(c).chunks = c
    BY DEF TextOnlyRow, QueuedRow
  <2>2. TextOnlyRow(c) \in Row
    BY OwnerIsUser DEF TextOnlyRow, QueuedRow, Row, Status
  <2>3. NoRow \in Row /\ NoRow.status = "absent" /\ NoRow.chunks = None
    BY DEF NoRow, Row, Status
  <2>4. object = [d \in Document |-> None]
    BY DEF Init
  <2>5. QED
    BY <1>2, <2>1, <2>2, <2>3, <2>4 DEF StoreInv, RowInv
<1>4. MiscTyped
  BY <1>2, RunAssumption DEF MiscTyped, Init
<1>5. CachedInv
  BY DEF Init, CachedInv
<1>6. RunsInv
  <2>1. IdleRun \in RunState
    BY DEF IdleRun, RunState, RunPc
  <2>2. IdleRun.pc = "idle" /\ IdleRun.answer = None
    BY DEF IdleRun
  <2>3. \A s \in Session : run[s] = IdleRun /\ phase[s] = "outside"
    BY DEF Init, LockInit
  <2>4. RunInv(IdleRun) /\ AnswerInv(IdleRun) /\ Link("outside", IdleRun.pc)
    BY <2>1, <2>2 DEF RunInv, AnswerInv, Toward, Link
  <2>5. run \in [Session -> RunState]
    BY <2>1 DEF Init
  <2>6. QED
    BY <2>3, <2>4, <2>5 DEF RunsInv
<1>7. QueriesInv
  BY DEF Init, QueriesInv, BatchInv, StoredBatch, RequestInv
<1>8. QED
  BY <1>1, <1>3, <1>4, <1>5, <1>6, <1>7 DEF IInv, DataInv

LEMMA RunStepKeeps ==
    ASSUME DataInv, LockInv, NEW r \in Session, Submit(r) \/ RunStep(r)
    PROVE  DataInv' /\ Stays
<1>1. CASE PersistUploadResult(r)
  BY <1>1, PersistKeeps
<1>2. ASSUME UNCHANGED row, DataInv'
      PROVE  DataInv' /\ Stays
  BY <1>2 DEF Stays
<1>3. CASE Submit(r)
  <2>1. Quiet /\ UNCHANGED <<row, cached>>
    BY <1>3 DEF Submit, Quiet, storeVars
  <2>2. RunsInv' /\ QueriesInv'
    BY <1>3, SubmitRuns DEF DataInv
  <2>3. QED
    BY <1>2, <2>1, <2>2, QuietStore DEF DataInv
<1>4. CASE Lookup(r)
  BY <1>2, <1>4, LookupKeeps DEF Lookup, storeVars
<1>5. CASE LookInCache(r)
  BY <1>2, <1>5, LookInCacheKeeps DEF LookInCache, storeVars
<1>6. CASE LoadArtifacts(r)
  BY <1>2, <1>6, LoadArtifactsKeeps DEF LoadArtifacts, storeVars
<1>7. CASE Index(r)
  BY <1>2, <1>7, IndexKeeps DEF Index, storeVars
<1>8. CASE Abort(r)
  BY <1>2, <1>8, AbortKeeps DEF Abort, storeVars
<1>9. CASE AskLock(r)
  BY <1>2, <1>9, AskLockKeeps DEF AskLock, storeVars
<1>10. CASE GetLock(r)
  BY <1>2, <1>10, GetLockKeeps DEF GetLock, storeVars
<1>11. CASE MissLock(r)
  BY <1>2, <1>11, MissLockKeeps DEF MissLock, storeVars
<1>12. CASE Backfill(r)
  BY <1>2, <1>12, BackfillKeeps DEF Backfill, storeVars
<1>13. CASE Release(r)
  BY <1>2, <1>13, ReleaseKeeps DEF Release, storeVars
<1>14. CASE LeaveLock(r)
  BY <1>2, <1>14, LeaveLockKeeps DEF LeaveLock, storeVars
<1>15. CASE FinishPersisted(r)
  BY <1>2, <1>15, FinishPersistedKeeps DEF FinishPersisted, storeVars
<1>16. CASE FinishFailed(r)
  BY <1>2, <1>16, FinishFailedKeeps DEF FinishFailed, storeVars
<1>17. QED
  BY <1>1, <1>3, <1>4, <1>5, <1>6, <1>7, <1>8, <1>9, <1>10, <1>11, <1>12, <1>13, <1>14, <1>15,
     <1>16 DEF RunStep

LEMMA NextKeeps == IInv /\ [Next]_vars => IInv' /\ Stays
<1> SUFFICES ASSUME IInv, [Next]_vars PROVE IInv' /\ Stays
  OBVIOUS
<1>1. LockInv'
  BY LockNextInv, NextLocks DEF IInv
<1>2. LockInv /\ DataInv
  BY DEF IInv
<1>3. ASSUME NEW r \in Session, Submit(r) \/ RunStep(r)
      PROVE  DataInv' /\ Stays
  BY <1>2, <1>3, RunStepKeeps
<1>4. ASSUME Admit
      PROVE  DataInv' /\ Stays
  BY <1>2, <1>4, AdmitKeeps
<1>5. ASSUME WorkerTransaction
      PROVE  DataInv' /\ Stays
  BY <1>2, <1>5, WorkerKeeps
<1>6. ASSUME Redeploy
      PROVE  DataInv' /\ Stays
  BY <1>2, <1>6, RedeployKeeps
<1>7. ASSUME Evict \/ OthersUsePool \/ UNCHANGED vars
      PROVE  DataInv' /\ Stays
  <2>1. Quiet /\ UNCHANGED <<row, run, phase, queries>> /\ cached' \subseteq cached
    BY <1>7 DEF Evict, OthersUsePool, OtherSession, vars, runVars, storeVars, lockVars, Quiet
  <2>2. RunsInv' /\ QueriesInv'
    BY <1>2, <2>1, RowsStay, RunsAside DEF DataInv
  <2>3. Stays
    BY <2>1 DEF Stays
  <2>4. QED
    BY <1>2, <2>1, <2>2, <2>3, QuietStore DEF DataInv
<1>8. DataInv' /\ Stays
  BY <1>3, <1>4, <1>5, <1>6, <1>7 DEF Next
<1>9. QED
  BY <1>1, <1>8 DEF IInv

LEMMA InvariantHolds == Spec => []IInv
BY InitInv, NextKeeps, PTL DEF Spec

LEMMA IInvImplies ==
    IInv => RunTypeOK /\ OneBatchPerRequest /\ RecoveryFaithful /\ CachedIsStored
<1> SUFFICES ASSUME IInv
             PROVE  RunTypeOK /\ OneBatchPerRequest /\ RecoveryFaithful /\ CachedIsStored
  OBVIOUS
<1>1. LockInv /\ StoreInv /\ MiscTyped /\ CachedInv /\ RunsInv /\ QueriesInv
  BY DEF IInv, DataInv
<1>2. RunTypeOK
  BY <1>1 DEF LockInv, StoreInv, MiscTyped, CachedInv, RunsInv, QueriesInv, RunTypeOK
<1>3. CachedIsStored
  BY <1>1, NoneApart
     DEF CachedInv, StoreInv, RowInv, ReadyWith, CachedIsStored, Matching, Exists, Stored
<1>4. RecoveryFaithful
  BY <1>1, OwnRun DEF AnswerInv, StoredBatch, RecoveryFaithful
<1>5. ASSUME NEW q \in queries
      PROVE  /\ row[q.document].status = "ready"
             /\ row[q.document].chunks = run[q.run].content
             /\ {<<p.index, p.question, p.document>> : p \in {p \in queries : p.run = q.run}}
                   = {<<i, run[q.run].batch[i], q.document>> : i \in DOMAIN run[q.run].batch}
             /\ q.request # None => \A p \in RowsOf(q.request) : p.run = q.run
  <2>1. PICK s \in Session : s = q.run
    BY <1>1, <1>5 DEF QueriesInv, QueryRow
  <2>2. q \in StoredBatch(s)
    BY <2>1 DEF StoredBatch
  <2>3. PICK d \in Document : ReadyWith(d, run[s].content) /\ StoredBatch(s) = RowsBy(run[s], s, d)
    BY <1>1, <2>2 DEF QueriesInv, BatchInv
  <2>4. q.document = d
    BY <2>2, <2>3 DEF RowsBy
  <2>5. row[d].status = "ready" /\ row[d].chunks = run[s].content
    BY <1>1, <2>3 DEF ReadyWith, StoreInv, RowInv
  <2>6. {<<p.index, p.question, p.document>> : p \in RowsBy(run[s], s, d)}
          = {<<i, run[s].batch[i], d>> : i \in DOMAIN run[s].batch}
    <3>1. ASSUME NEW p \in RowsBy(run[s], s, d)
          PROVE  \E i \in DOMAIN run[s].batch :
                    <<p.index, p.question, p.document>> = <<i, run[s].batch[i], d>>
      BY <3>1 DEF RowsBy
    <3>2. ASSUME NEW i \in DOMAIN run[s].batch
          PROVE  \E p \in RowsBy(run[s], s, d) :
                    <<p.index, p.question, p.document>> = <<i, run[s].batch[i], d>>
      <4> DEFINE p == [request |-> run[s].request, index |-> i,
                       question |-> run[s].batch[i], run |-> s, document |-> d]
      <4>1. p \in RowsBy(run[s], s, d)
        BY DEF RowsBy
      <4>2. p.index = i /\ p.question = run[s].batch[i] /\ p.document = d
        OBVIOUS
      <4> HIDE DEF p
      <4>3. QED
        BY <4>1, <4>2
    <3>3. QED
      BY <3>1, <3>2
  <2>7. {p \in queries : p.run = q.run} = RowsBy(run[s], s, d)
    BY <2>1, <2>3 DEF StoredBatch
  <2>8. q.request # None => \A p \in RowsOf(q.request) : p.run = q.run
    BY <1>1 DEF QueriesInv, RequestInv, RowsOf
  <2>9. QED
    BY <2>1, <2>4, <2>5, <2>6, <2>7, <2>8
<1>6. OneBatchPerRequest
  BY <1>5 DEF OneBatchPerRequest
<1>7. QED
  BY <1>2, <1>3, <1>4, <1>6

(***************************************************************************)
(* The types, for any number of runs and redeployments.                    *)
(***************************************************************************)
THEOREM RunTypes == Spec => []RunTypeOK
BY InvariantHolds, IInvImplies, PTL

(***************************************************************************)
(* persist_upload_result_atomic stores, for a request_id, the whole batch  *)
(* of exactly one run, on one ready document with that run's bytes,        *)
(* although a commit may take effect without the client learning of it.    *)
(***************************************************************************)
THEOREM OneBatch == Spec => []OneBatchPerRequest
BY InvariantHolds, IInvImplies, PTL

(***************************************************************************)
(* recover_upload_request answers a retry only with what was stored for    *)
(* the same bytes, the same questions and the same request_id.             *)
(***************************************************************************)
THEOREM RecoveryIsFaithful == Spec => []RecoveryFaithful
BY InvariantHolds, IInvImplies, PTL

(***************************************************************************)
(* The document cache is filled only with what MySQL has, so that a run    *)
(* that hits it can store its batch without vectors.                       *)
(***************************************************************************)
THEOREM CacheFollowsStore == Spec => []CachedIsStored
BY InvariantHolds, IInvImplies, PTL

(***************************************************************************)
(* No interleaving of runs, workers and redeployments takes a document     *)
(* back from ready, or its chunks.                                         *)
(***************************************************************************)
THEOREM ReadyIsKept == Spec => ReadyStays
<1>1. IInv /\ [Next]_vars
        => [\A d \in Document :
              row[d].status = "ready" =>
                row'[d].status = "ready" /\ row'[d].chunks = row[d].chunks]_vars
  BY NextKeeps DEF Stays
<1>2. QED
  BY <1>1, InvariantHolds, PTL DEF Spec, ReadyStays
=============================================================================
