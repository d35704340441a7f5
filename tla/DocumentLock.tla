--------------------------- MODULE DocumentLock ----------------------------
(***************************************************************************)
(* mysql_document_lock of persistence/db.py: the named MySQL lock of one   *)
(* document, taken by the database sessions of the synchronous path.       *)
(*                                                                         *)
(* The server ties the lock to a connection, and grants it again to the    *)
(* connection that has it.  A session borrows a connection of the engine's *)
(* FIFO pool for as long as a transaction is open: the commit inside the   *)
(* lock's body gives the connection back, so the RELEASE_LOCK after it     *)
(* runs on whichever connection the pool hands out next.                   *)
(***************************************************************************)
EXTENDS Naturals, Sequences

CONSTANTS
    Session,       \* the threads of the web process that persist
    Connection,    \* connections the engine may have open at a time
    PoolSize,      \* connections the pool keeps when they are returned
    Nobody

ASSUME LockAssumption ==
    /\ PoolSize \in Nat \ {0}
    /\ Nobody \notin Connection

VARIABLES
    phase,     \* phase[s]: where session s is in the context manager
    conn,      \* conn[s]: the connection s has borrowed
    idle,      \* the connections waiting in the pool, oldest first
    owner,     \* the connection the server has granted the lock to
    depth      \* how many grants that connection has not released

lockVars == <<phase, conn, idle, owner, depth>>

Phase == {"outside", "waiting", "body", "unlock", "close"}

LockTypeOK ==
    /\ phase \in [Session -> Phase]
    /\ conn \in [Session -> Connection \cup {Nobody}]
    /\ idle \in Seq(Connection)
    /\ owner \in Connection \cup {Nobody}
    /\ depth \in Nat

LockInit ==
    /\ phase = [s \in Session |-> "outside"]
    /\ conn = [s \in Session |-> Nobody]
    /\ idle = <<>>
    /\ owner = Nobody
    /\ depth = 0

Borrowed == {conn[s] : s \in Session} \ {Nobody}

(***************************************************************************)
(* A checkout takes the connection that has been idle longest, and opens a *)
(* new one only when none is.                                              *)
(***************************************************************************)
Checkout(s, next) ==
    /\ phase' = [phase EXCEPT ![s] = next]
    /\ \E c \in Connection :
         /\ IF idle = <<>>
            THEN c \notin Borrowed /\ UNCHANGED idle
            ELSE c = Head(idle) /\ idle' = Tail(idle)
         /\ conn' = [conn EXCEPT ![s] = c]

(***************************************************************************)
(* The end of a connection releases what it had been granted.              *)
(***************************************************************************)
GrantDies(c) ==
    IF owner = c THEN owner' = Nobody /\ depth' = 0 ELSE UNCHANGED <<owner, depth>>

(***************************************************************************)
(* A returned connection keeps its grants: the pool's reset is a rollback. *)
(* One that exceeds the pool size is closed.                               *)
(***************************************************************************)
Return(s, next) ==
    /\ phase' = [phase EXCEPT ![s] = next]
    /\ conn' = [conn EXCEPT ![s] = Nobody]
    /\ IF Len(idle) < PoolSize
       THEN idle' = Append(idle, conn[s]) /\ UNCHANGED <<owner, depth>>
       ELSE UNCHANGED idle /\ GrantDies(conn[s])

Discard(s, next) ==
    /\ phase' = [phase EXCEPT ![s] = next]
    /\ conn' = [conn EXCEPT ![s] = Nobody]
    /\ GrantDies(conn[s])
    /\ UNCHANGED idle

Enter(s) ==
    /\ phase[s] = "outside"
    /\ Checkout(s, "waiting")
    /\ UNCHANGED <<owner, depth>>

AnyAnswerGrants(c) == c \in Connection

(***************************************************************************)
(* GET_LOCK answers 1.                                                     *)
(***************************************************************************)
Grantable(c) == owner \in {Nobody, c}

Acquire(s) ==
    /\ phase[s] = "waiting"
    /\ Grantable(conn[s])
    /\ phase' = [phase EXCEPT ![s] = "body"]
    /\ owner' = conn[s]
    /\ depth' = depth + 1
    /\ UNCHANGED <<conn, idle>>

(***************************************************************************)
(* GET_LOCK answers 0 after its 30 seconds: TimeoutError, the session      *)
(* closes, and nothing is released.                                        *)
(***************************************************************************)
TimeOut(s) ==
    /\ phase[s] = "waiting"
    /\ ~ Grantable(conn[s])
    /\ Return(s, "outside")

CommitBody(s) == phase[s] = "body" /\ Return(s, "unlock")

(***************************************************************************)
(* The body ends inside its transaction: nothing to write, or a validation *)
(* error.                                                                  *)
(***************************************************************************)
LeaveBody(s) ==
    /\ phase[s] = "body"
    /\ phase' = [phase EXCEPT ![s] = "unlock"]
    /\ UNCHANGED <<conn, idle, owner, depth>>

(***************************************************************************)
(* A statement failed: the session refuses the RELEASE_LOCK and its        *)
(* connection is invalidated.                                              *)
(***************************************************************************)
FailBody(s) == phase[s] = "body" /\ Discard(s, "close")

ReleaseBlindly(c) ==
    /\ depth' = depth - 1
    /\ owner' = IF depth = 1 THEN Nobody ELSE owner

(***************************************************************************)
(* RELEASE_LOCK undoes one grant, if the connection has any.               *)
(***************************************************************************)
ReleaseOn(c) ==
    IF owner = c
    THEN /\ depth' = depth - 1
         /\ owner' = IF depth = 1 THEN Nobody ELSE owner
    ELSE UNCHANGED <<owner, depth>>

Unlock(s) ==
    /\ phase[s] = "unlock"
    /\ IF conn[s] = Nobody
       THEN /\ Checkout(s, "close")
            /\ ReleaseOn(conn'[s])
       ELSE /\ phase' = [phase EXCEPT ![s] = "close"]
            /\ ReleaseOn(conn[s])
            /\ UNCHANGED <<conn, idle>>

Close(s) ==
    /\ phase[s] = "close"
    /\ IF conn[s] = Nobody
       THEN /\ phase' = [phase EXCEPT ![s] = "outside"]
            /\ UNCHANGED <<conn, idle, owner, depth>>
       ELSE Return(s, "outside")

(***************************************************************************)
(* A session elsewhere in the process borrows the oldest idle connection   *)
(* and gives it back.                                                      *)
(***************************************************************************)
OtherSession ==
    /\ idle # <<>>
    /\ idle' = Append(Tail(idle), Head(idle))
    /\ UNCHANGED <<phase, conn, owner, depth>>

(***************************************************************************)
(* The process ends, and the server drops its connections.                 *)
(***************************************************************************)
LockReset ==
    /\ phase' = [s \in Session |-> "outside"]
    /\ conn' = [s \in Session |-> Nobody]
    /\ idle' = <<>>
    /\ owner' = Nobody
    /\ depth' = 0

LockStep(s) ==
    \/ Enter(s) \/ Acquire(s) \/ TimeOut(s)
    \/ CommitBody(s) \/ LeaveBody(s) \/ FailBody(s)
    \/ Unlock(s) \/ Close(s)

LockNext == OtherSession \/ LockReset \/ \E s \in Session : LockStep(s)

LockSpec == LockInit /\ [][LockNext]_lockVars

(***************************************************************************)
(* At most one session is between GET_LOCK and the end of its transaction, *)
(* although locks are re-entrant per connection and released on the wrong  *)
(* one: mysql_document_lock serializes the work on one document.           *)
(***************************************************************************)
BodyExclusive ==
    \A s, t \in Session :
        phase[s] = "body" /\ phase[t] = "body" => s = t

(***************************************************************************)
(* Not an invariant.  With no session in the context manager the lock is   *)
(* free: so it is with the lock that stands in for MySQL's in              *)
(* tests/test_persistent_upload_storage.py, but a RELEASE_LOCK on another  *)
(* connection than the GET_LOCK leaves it with an idle one, until that is  *)
(* closed or takes it again.                                               *)
(***************************************************************************)
LockFreeOutside ==
    (\A s \in Session : phase[s] = "outside") => owner = Nobody
=============================================================================
