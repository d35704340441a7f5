--------------------------- MODULE RefreshSessions ---------------------------
(***************************************************************************)
(* Refresh sessions on the server: the rows of `refresh_sessions` and the  *)
(* transactions of backend/app/auth/refresh_sessions.py.                   *)
(*                                                                         *)
(* A Session is a raw token, of which the table keeps the digest; every    *)
(* login or registration starts a chain of sessions, and each rotation     *)
(* revokes the chain's last session and adds its successor.  A transaction *)
(* reads its clock first (`asOf`) and only then waits for the row's lock,  *)
(* so it may act on a time that has passed.                                *)
(***************************************************************************)
EXTENDS Naturals

CONSTANTS
    User,
    Session,     \* raw refresh tokens: 256 random bits, never drawn twice
    Lifetime,    \* REFRESH_SESSION_LIFETIME
    None         \* SQL NULL, and no cookie

ASSUME SessionAssumption ==
    /\ Lifetime \in Nat \ {0}
    /\ None \notin Session \cup User

VARIABLES
    session,    \* session[s]: the row of token s
    now         \* the clock

sessionVars == <<session, now>>

(***************************************************************************)
(* `login` is history: the session that started the chain.                 *)
(***************************************************************************)
SessionRow == [user: User \cup {None}, expires: Nat, revoked: BOOLEAN,
               next: Session \cup {None}, login: Session \cup {None}]

NoSession == [user |-> None, expires |-> 0, revoked |-> FALSE, next |-> None,
              login |-> None]

SessionInit == session = [s \in Session |-> NoSession] /\ now = 0

Issued(s) == s \in Session /\ session[s].user # None

VerdictOfUnrevoked(s, asOf) ==
    IF ~ Issued(s) THEN "unknown"
    ELSE IF session[s].expires <= asOf THEN "expired"
    ELSE "active"

(***************************************************************************)
(* _require_active_refresh_session: expiry is judged before revocation.    *)
(***************************************************************************)
Verdict(s, asOf) ==
    IF ~ Issued(s) THEN "unknown"
    ELSE IF session[s].expires <= asOf THEN "expired"
    ELSE IF session[s].revoked THEN "revoked"
    ELSE "active"

(***************************************************************************)
(* add_refresh_session, committed by login or register.                    *)
(***************************************************************************)
AddSession(s, u, asOf) ==
    /\ ~ Issued(s)
    /\ session' = [session EXCEPT ![s] =
           [user |-> u, expires |-> asOf + Lifetime, revoked |-> FALSE,
            next |-> None, login |-> s]]

ProlongedSuccessor(s, asOf) ==
    [session[s] EXCEPT !.expires = now + Lifetime, !.revoked = FALSE, !.next = None]

Successor(s, asOf) == [session[s] EXCEPT !.revoked = FALSE, !.next = None]

LinkOnly(s, t) == [session[s] EXCEPT !.next = t]

Retired(s, t) == [session[s] EXCEPT !.revoked = TRUE, !.next = t]

(***************************************************************************)
(* rotate_refresh_session_in_transaction: the successor is inserted, then  *)
(* the original revoked and linked to it, and both commit together.        *)
(***************************************************************************)
Rotate(s, t, asOf) ==
    /\ Verdict(s, asOf) = "active"
    /\ t # s /\ ~ Issued(t)
    /\ session' = [session EXCEPT ![t] = Successor(s, asOf), ![s] = Retired(s, t)]

(***************************************************************************)
(* revoke_refresh_session: a dead credential is left as it is.             *)
(***************************************************************************)
Revoke(s, asOf) ==
    /\ Verdict(s, asOf) = "active"
    /\ session' = [session EXCEPT ![s].revoked = TRUE]

Tick == now' = now + 1 /\ UNCHANGED session

SessionNext ==
    \/ /\ \E s \in Session, asOf \in 0..now :
            \/ \E u \in User : AddSession(s, u, asOf)
            \/ \E t \in Session : Rotate(s, t, asOf)
            \/ Revoke(s, asOf)
       /\ UNCHANGED now
    \/ Tick

SessionSpec == SessionInit /\ [][SessionNext]_sessionVars
-----------------------------------------------------------------------------
SessionTypeOK == session \in [Session -> SessionRow] /\ now \in Nat

Live(s) == Issued(s) /\ ~ session[s].revoked

SameLogin(s, t) == Issued(s) /\ Issued(t) /\ session[s].login = session[t].login

(***************************************************************************)
(* OneLiveSession: however rotations of one credential race, its login has *)
(* at most one credential that still works.                                *)
(***************************************************************************)
OneLiveSession ==
    \A s, t \in Session : Live(s) /\ Live(t) /\ SameLogin(s, t) => s = t

(***************************************************************************)
(* RotationKeepsLogin: rotations neither prolong a login beyond the        *)
(* lifetime it started with nor hand it to another user.                   *)
(***************************************************************************)
RotationKeepsLogin ==
    \A s, t \in Session :
        SameLogin(s, t) => /\ session[s].expires = session[t].expires
                           /\ session[s].user = session[t].user

(***************************************************************************)
(* LogoutEndsLogin: after a logout revoked the credential it presented (so *)
(* that it has no successor), no step makes any of that login work: not a  *)
(* rotation that was already under way either.                             *)
(***************************************************************************)
LoggedOut(s) == Issued(s) /\ session[s].revoked /\ session[s].next = None

LogoutEndsLogin ==
    [][\A s, t \in Session : LoggedOut(s) /\ SameLogin(s, t)' => ~ Live(t)']_sessionVars
=============================================================================
