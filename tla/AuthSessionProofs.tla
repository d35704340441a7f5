------------------------- MODULE AuthSessionProofs --------------------------
(***************************************************************************)
(* Proofs about refresh sessions by themselves, and about the browser and  *)
(* the routes that use them.                                               *)
(***************************************************************************)
EXTENDS AuthSession, SequenceTheorems, TLAPS

(***************************************************************************)
(* Proofs about RefreshSessions, for any users, tokens and lifetime.       *)
(*                                                                         *)
(* The invariant: the sessions of a login form one chain, of which only    *)
(* the last, the tip, may be unrevoked.                                    *)
(***************************************************************************)
Tip(s) == Issued(s) /\ session[s].next = None

LoginIssued ==
    \A s \in Session : Issued(s) =>
        session[s].login \in Session /\ Issued(session[s].login)

OneTip == \A s, t \in Session : Tip(s) /\ Tip(t) /\ SameLogin(s, t) => s = t

LiveIsTip == \A s \in Session : Live(s) => Tip(s)

SessionInv ==
    /\ SessionTypeOK
    /\ LoginIssued
    /\ OneTip
    /\ LiveIsTip
    /\ RotationKeepsLogin

LEMMA InitSessionInv == SessionInit => SessionInv
BY SessionAssumption
   DEF SessionInit, SessionInv, SessionTypeOK, SessionRow, NoSession, LoginIssued, OneTip,
       LiveIsTip, RotationKeepsLogin, Tip, Live, Issued, SameLogin

(***************************************************************************)
(* What each transaction does to the table, row by row.                    *)
(***************************************************************************)
LEMMA AddedRow ==
    ASSUME SessionTypeOK, NEW s \in Session, NEW u \in User, NEW asOf \in Nat,
           AddSession(s, u, asOf)
    PROVE  /\ ~ Issued(s)
           /\ session' \in [Session -> SessionRow]
           /\ Issued(s)'
           /\ session'[s].login = s /\ session'[s].next = None
           /\ ~ session'[s].revoked
           /\ \A x \in Session \ {s} : session'[x] = session[x]
BY SessionAssumption DEF SessionTypeOK, SessionRow, AddSession, Issued

LEMMA RotatedRows ==
    ASSUME SessionTypeOK, NEW s, NEW t \in Session, NEW asOf \in Nat,
           Rotate(s, t, asOf)
    PROVE  /\ s \in Session /\ s # t
           /\ Live(s) /\ ~ Issued(t)
           /\ session[s].expires > asOf
           /\ session' \in [Session -> SessionRow]
           /\ session'[t] = [session[s] EXCEPT !.revoked = FALSE, !.next = None]
           /\ session'[s] = [session[s] EXCEPT !.revoked = TRUE, !.next = t]
           /\ \A x \in Session \ {s, t} : session'[x] = session[x]
<1>1. Issued(s) /\ session[s].expires > asOf /\ ~ session[s].revoked
  BY DEF Rotate, Verdict, Issued, SessionTypeOK, SessionRow
<1>2. s \in Session /\ session[s] \in SessionRow
  BY <1>1 DEF Issued, SessionTypeOK
<1>3. /\ Successor(s, asOf) \in SessionRow
      /\ Retired(s, t) \in SessionRow
  BY <1>2 DEF Successor, Retired, SessionRow
<1> QED
  BY <1>1, <1>2, <1>3 DEF Rotate, SessionTypeOK, Live, Successor, Retired

LEMMA RevokedRow ==
    ASSUME SessionTypeOK, NEW s, NEW asOf \in Nat, Revoke(s, asOf)
    PROVE  /\ s \in Session /\ Live(s)
           /\ session' \in [Session -> SessionRow]
           /\ session'[s] = [session[s] EXCEPT !.revoked = TRUE]
           /\ \A x \in Session \ {s} : session'[x] = session[x]
<1>1. Issued(s) /\ ~ session[s].revoked
  BY DEF Revoke, Verdict, Issued
<1>2. s \in Session /\ session[s] \in SessionRow
  BY <1>1 DEF Issued, SessionTypeOK
<1>3. [session[s] EXCEPT !.revoked = TRUE] \in SessionRow
  BY <1>2 DEF SessionRow
<1> QED
  BY <1>1, <1>2, <1>3 DEF Revoke, SessionTypeOK, Live

(***************************************************************************)
(* Each step keeps the chains.                                             *)
(***************************************************************************)
LEMMA AddKeepsInv ==
    ASSUME SessionInv, NEW s \in Session, NEW u \in User, NEW asOf \in Nat,
           AddSession(s, u, asOf), UNCHANGED now
    PROVE  SessionInv'
<1>1. /\ ~ Issued(s)
      /\ session' \in [Session -> SessionRow]
      /\ Issued(s)'
      /\ session'[s].login = s /\ session'[s].next = None
      /\ ~ session'[s].revoked
      /\ \A x \in Session \ {s} : session'[x] = session[x]
  BY AddedRow DEF SessionInv
<1>2. SessionTypeOK'
  BY <1>1 DEF SessionInv, SessionTypeOK
<1>3. \A x \in Session \ {s} : /\ Issued(x)' <=> Issued(x)
                               /\ Tip(x)' <=> Tip(x)
                               /\ Live(x)' <=> Live(x)
                               /\ Issued(x) => session[x].login # s
  BY <1>1 DEF SessionInv, LoginIssued, Issued, Tip, Live
<1>4. \A x, y \in Session : SameLogin(x, y)' /\ x # y =>
          x # s /\ y # s /\ SameLogin(x, y)
  BY <1>1, <1>3 DEF SameLogin
<1>5. LoginIssued'
  BY <1>1, <1>3 DEF SessionInv, LoginIssued
<1>6. OneTip'
  BY <1>3, <1>4 DEF SessionInv, OneTip
<1>7. LiveIsTip'
  BY <1>1, <1>3 DEF SessionInv, LiveIsTip, Tip
<1>8. RotationKeepsLogin'
  BY <1>1, <1>4 DEF SessionInv, RotationKeepsLogin
<1> QED
  BY <1>2, <1>5, <1>6, <1>7, <1>8 DEF SessionInv

LEMMA RotateKeepsInv ==
    ASSUME SessionInv, NEW s, NEW t \in Session, NEW asOf \in Nat,
           Rotate(s, t, asOf), UNCHANGED now
    PROVE  SessionInv'
<1>1. /\ s \in Session /\ s # t
      /\ Live(s) /\ ~ Issued(t)
      /\ session' \in [Session -> SessionRow]
      /\ session'[t] = [session[s] EXCEPT !.revoked = FALSE, !.next = None]
      /\ session'[s] = [session[s] EXCEPT !.revoked = TRUE, !.next = t]
      /\ \A x \in Session \ {s, t} : session'[x] = session[x]
  BY RotatedRows DEF SessionInv
<1>2. SessionTypeOK'
  BY <1>1 DEF SessionInv, SessionTypeOK
<1>3. session[s] \in SessionRow /\ Tip(s) /\ Issued(s)
  BY <1>1 DEF SessionInv, SessionTypeOK, LiveIsTip, Live
<1>4. /\ Issued(s)' /\ Issued(t)' /\ ~ Live(s)' /\ ~ Tip(s)' /\ Tip(t)'
      /\ session'[s].login = session[s].login /\ session'[t].login = session[s].login
      /\ session'[s].user = session[s].user /\ session'[t].user = session[s].user
      /\ session'[s].expires = session[s].expires
      /\ session'[t].expires = session[s].expires
  BY <1>1, <1>3, SessionAssumption DEF SessionRow, Issued, Live, Tip
<1>5. \A x \in Session \ {s, t} : /\ Issued(x)' <=> Issued(x)
                                  /\ Tip(x)' <=> Tip(x)
                                  /\ Live(x)' <=> Live(x)
                                  /\ SameLogin(x, s)' <=> SameLogin(x, s)
                                  /\ SameLogin(x, t)' <=> SameLogin(x, s)
  BY <1>1, <1>3, <1>4 DEF Issued, Tip, Live, SameLogin
<1>6. \A x \in Session : SameLogin(x, s) => x = s \/ ~ Tip(x)
  BY <1>1, <1>3 DEF SessionInv, OneTip
<1>7. LoginIssued'
  BY <1>1, <1>3, <1>4, <1>5 DEF SessionInv, LoginIssued
<1>8. OneTip'
  <2> SUFFICES ASSUME NEW x \in Session, NEW y \in Session,
                      Tip(x)', Tip(y)', SameLogin(x, y)', x # y
               PROVE  FALSE
    BY DEF OneTip
  <2>1. x # s /\ y # s
    BY <1>4
  <2>2. CASE x = t \/ y = t
    BY <2>1, <2>2, <1>5, <1>6 DEF SameLogin
  <2>3. CASE x # t /\ y # t
    <3>1. SameLogin(x, y) /\ Tip(x) /\ Tip(y)
      BY <2>1, <2>3, <1>1, <1>5 DEF SameLogin
    <3> QED
      BY <3>1 DEF SessionInv, OneTip
  <2> QED
    BY <2>2, <2>3
<1>9. LiveIsTip'
  BY <1>4, <1>5 DEF SessionInv, LiveIsTip
<1>10. RotationKeepsLogin'
  <2> DEFINE Origin(x) == IF x = t THEN s ELSE x
  <2>1. \A x \in Session : /\ session'[x].login = session[Origin(x)].login
                           /\ session'[x].user = session[Origin(x)].user
                           /\ session'[x].expires = session[Origin(x)].expires
    BY <1>1, <1>4
  <2>2. \A x \in Session : Origin(x) \in Session /\ (Issued(x)' => Issued(Origin(x)))
    BY <1>1, <1>3, <1>5
  <2>3. \A x, y \in Session : SameLogin(x, y)' => SameLogin(Origin(x), Origin(y))
    BY <2>1, <2>2 DEF SameLogin
  <2> QED
    BY <2>1, <2>2, <2>3 DEF SessionInv, RotationKeepsLogin
<1> QED
  BY <1>2, <1>7, <1>8, <1>9, <1>10 DEF SessionInv

LEMMA RevokeKeepsInv ==
    ASSUME SessionInv, NEW s, NEW asOf \in Nat, Revoke(s, asOf), UNCHANGED now
    PROVE  SessionInv'
<1>1. /\ s \in Session /\ Live(s)
      /\ session' \in [Session -> SessionRow]
      /\ session'[s] = [session[s] EXCEPT !.revoked = TRUE]
      /\ \A x \in Session \ {s} : session'[x] = session[x]
  BY RevokedRow DEF SessionInv
<1>2. SessionTypeOK'
  BY <1>1 DEF SessionInv, SessionTypeOK
<1>3. \A x \in Session : /\ session'[x].user = session[x].user
                         /\ session'[x].login = session[x].login
                         /\ session'[x].next = session[x].next
                         /\ session'[x].expires = session[x].expires
                         /\ ~ session'[x].revoked => ~ session[x].revoked
  BY <1>1 DEF SessionInv, SessionTypeOK, SessionRow
<1>4. \A x, y \in Session : /\ Issued(x)' <=> Issued(x)
                            /\ Tip(x)' <=> Tip(x)
                            /\ Live(x)' => Live(x)
                            /\ SameLogin(x, y)' <=> SameLogin(x, y)
  BY <1>3 DEF Issued, Tip, Live, SameLogin
<1>5. LoginIssued' /\ OneTip' /\ LiveIsTip' /\ RotationKeepsLogin'
  BY <1>3, <1>4 DEF SessionInv, LoginIssued, OneTip, LiveIsTip, RotationKeepsLogin
<1> QED
  BY <1>2, <1>5 DEF SessionInv

LEMMA TickKeepsInv == ASSUME SessionInv, Tick PROVE SessionInv'
BY DEF SessionInv, SessionTypeOK, LoginIssued, OneTip, LiveIsTip, RotationKeepsLogin,
       Tip, Live, Issued, SameLogin, Tick

LEMMA SessionStep == SessionInv /\ [SessionNext]_sessionVars => SessionInv'
<1> SUFFICES ASSUME SessionInv, [SessionNext]_sessionVars PROVE SessionInv'
  OBVIOUS
<1> now \in Nat
  BY DEF SessionInv, SessionTypeOK
<1>1. CASE UNCHANGED sessionVars
  BY <1>1 DEF SessionInv, SessionTypeOK, LoginIssued, OneTip, LiveIsTip,
              RotationKeepsLogin, Tip, Live, Issued, SameLogin, sessionVars
<1>2. ASSUME NEW s \in Session, NEW asOf \in 0..now, UNCHANGED now,
             \/ \E u \in User : AddSession(s, u, asOf)
             \/ \E t \in Session : Rotate(s, t, asOf)
             \/ Revoke(s, asOf)
      PROVE  SessionInv'
  BY <1>2, AddKeepsInv, RotateKeepsInv, RevokeKeepsInv
<1>3. CASE Tick
  BY <1>3, TickKeepsInv
<1> QED
  BY <1>1, <1>2, <1>3 DEF SessionNext

(***************************************************************************)
(* SessionsStayChained: the inductive invariant holds in every state.      *)
(***************************************************************************)
THEOREM SessionsStayChained == SessionSpec => []SessionInv
BY InitSessionInv, SessionStep, PTL DEF SessionSpec

LEMMA InvImpliesOneLive == SessionInv => OneLiveSession
BY DEF SessionInv, OneTip, LiveIsTip, OneLiveSession

(***************************************************************************)
(* LoginHasOneLiveSession: of the sessions of a login at most one works.   *)
(***************************************************************************)
THEOREM LoginHasOneLiveSession == SessionSpec => []OneLiveSession
BY SessionsStayChained, InvImpliesOneLive, PTL

(***************************************************************************)
(* LoginIsKept: rotation keeps the login's expiry and its user.            *)
(***************************************************************************)
THEOREM LoginIsKept == SessionSpec => []RotationKeepsLogin
<1>1. SessionInv => RotationKeepsLogin
  BY DEF SessionInv
<1> QED
  BY <1>1, SessionsStayChained, PTL

(***************************************************************************)
(* A logout ends the login: its last session is revoked, and only a live   *)
(* session has a successor.                                                *)
(***************************************************************************)
LEMMA LoggedOutHasNoLive ==
    ASSUME SessionInv, NEW s \in Session, LoggedOut(s),
           NEW t \in Session, SameLogin(s, t)
    PROVE  ~ Live(t)
BY DEF SessionInv, OneTip, LiveIsTip, LoggedOut, Tip, Live

LEMMA LogoutStep ==
    ASSUME SessionInv, [SessionNext]_sessionVars, NEW s \in Session, LoggedOut(s),
           NEW t \in Session, SameLogin(s, t)'
    PROVE  ~ Live(t)'
<1> now \in Nat
  BY DEF SessionInv, SessionTypeOK
<1>1. CASE UNCHANGED session
  <2>1. SameLogin(s, t) /\ (Live(t)' => Live(t))
    BY <1>1 DEF SameLogin, Live, Issued
  <2> QED
    BY <2>1, LoggedOutHasNoLive
<1>2. ASSUME NEW x \in Session, NEW u \in User, NEW asOf \in 0..now,
             AddSession(x, u, asOf)
      PROVE  ~ Live(t)'
  <2>1. /\ ~ Issued(x) /\ session'[x].login = x
        /\ \A y \in Session \ {x} : session'[y] = session[y]
    BY <1>2, AddedRow DEF SessionInv
  <2>2. s # x /\ session'[s].login # x
    BY <2>1 DEF SessionInv, LoginIssued, LoggedOut
  <2>3. t # x
    BY <2>1, <2>2 DEF SameLogin
  <2>4. SameLogin(s, t) /\ (Live(t)' => Live(t))
    BY <2>1, <2>2, <2>3 DEF SameLogin, Live, Issued
  <2> QED
    BY <2>4, LoggedOutHasNoLive
<1>3. ASSUME NEW x \in Session, NEW y \in Session, NEW asOf \in 0..now,
             Rotate(x, y, asOf)
      PROVE  ~ Live(t)'
  <2> asOf \in Nat
    OBVIOUS
  <2>1. /\ Live(x) /\ ~ Issued(y) /\ x # y
        /\ session'[x] = [session[x] EXCEPT !.revoked = TRUE, !.next = y]
        /\ session'[y] = [session[x] EXCEPT !.revoked = FALSE, !.next = None]
        /\ \A z \in Session \ {x, y} : session'[z] = session[z]
    <3>1. SessionTypeOK
      BY DEF SessionInv
    <3> QED
      BY <1>3, <3>1, RotatedRows
  <2> session[x] \in SessionRow
    BY DEF SessionInv, SessionTypeOK
  <2>2. session'[y].login = session[x].login /\ session'[x].revoked = TRUE
    BY <2>1 DEF SessionRow
  <2>3. s # x /\ s # y /\ session'[s] = session[s]
    BY <2>1 DEF LoggedOut, Live
  <2>4. t # y
    <3> SUFFICES ASSUME t = y PROVE SameLogin(s, x)
      BY <2>1, LoggedOutHasNoLive
    <3> QED
      BY <2>1, <2>2, <2>3 DEF SameLogin, Live, LoggedOut
  <2>5. CASE t = x
    BY <2>2, <2>5 DEF Live
  <2>6. CASE t # x
    <3>1. SameLogin(s, t) /\ (Live(t)' => Live(t))
      BY <2>1, <2>3, <2>4, <2>6 DEF SameLogin, Live, Issued
    <3> QED
      BY <3>1, LoggedOutHasNoLive
  <2> QED
    BY <2>5, <2>6
<1>4. ASSUME NEW x \in Session, NEW asOf \in 0..now, Revoke(x, asOf)
      PROVE  ~ Live(t)'
  <2>1. /\ session[x] \in SessionRow
        /\ session'[x] = [session[x] EXCEPT !.revoked = TRUE]
        /\ \A y \in Session \ {x} : session'[y] = session[y]
    BY <1>4, RevokedRow DEF SessionInv, SessionTypeOK
  <2>2. \A y \in Session : /\ session'[y].user = session[y].user
                           /\ session'[y].login = session[y].login
                           /\ ~ session'[y].revoked => ~ session[y].revoked
    BY <2>1 DEF SessionRow
  <2>3. SameLogin(s, t) /\ (Live(t)' => Live(t))
    BY <2>2 DEF SameLogin, Live, Issued
  <2> QED
    BY <2>3, LoggedOutHasNoLive
<1> QED
  BY <1>1, <1>2, <1>3, <1>4 DEF SessionNext, Tick, sessionVars

(***************************************************************************)
(* LogoutIsFinal: no step makes a session of a logged-out login work.      *)
(***************************************************************************)
THEOREM LogoutIsFinal == SessionSpec => LogoutEndsLogin
<1>1. SessionInv /\ [SessionNext]_sessionVars =>
      [\A s, t \in Session : LoggedOut(s) /\ SameLogin(s, t)' => ~ Live(t)']_sessionVars
  BY LogoutStep
<1> QED
  BY <1>1, SessionsStayChained, PTL DEF SessionSpec, LogoutEndsLogin

-----------------------------------------------------------------------------
(***************************************************************************)
(* Proofs about AuthSession, for any tabs, users, tokens and bounds: every *)
(* step of the browser and of the routes is a step of RefreshSessions or   *)
(* leaves its rows alone, and the cookie never falls back to a token that  *)
(* was rotated.                                                            *)
(*                                                                         *)
(* The invariant: a token on its way to the browser is fresh, that is      *)
(* neither in the jar nor in a request, and hence not rotated.             *)
(***************************************************************************)
Requests ==
    /\ jar \in Session \cup {None}
    /\ call \in [Tab -> [Operation -> CallState]]
    /\ \A t \in Tab : CallAt(t, "login", "sent") => call[t]["login"].user \in User

CookiesIssued ==
    /\ jar # None => Issued(jar)
    /\ \A t \in Tab, op \in Operation :
           call[t][op].token # None => Issued(call[t][op].token)

Answered(t, op) == CallAt(t, op, "answered") /\ call[t][op].issued # None

Fresh(s) ==
    /\ Issued(s) /\ session[s].next = None
    /\ s # jar
    /\ \A t \in Tab, op \in Operation : call[t][op].token # s

FreshAnswers ==
    \A t \in Tab, op \in Operation : Answered(t, op) => Fresh(call[t][op].issued)

DistinctAnswers ==
    \A t, u \in Tab, op, p \in Operation :
        Answered(t, op) /\ Answered(u, p) /\ call[t][op].issued = call[u][p].issued
        => t = u /\ op = p

RefreshAnswers ==
    \A t \in Tab : CallAt(t, "refresh", "answered") =>
        /\ call[t]["refresh"].answer # "confirmed"
        /\ call[t]["refresh"].answer = "expired" =>
               /\ call[t]["refresh"].token # None
               /\ session[call[t]["refresh"].token].expires <= now

AuthInv ==
    /\ SessionInv
    /\ Requests
    /\ CookiesIssued
    /\ FreshAnswers
    /\ DistinctAnswers
    /\ RefreshAnswers
    /\ CookieCurrent

LEMMA NoCallType == NoCall \in CallState
BY DEF NoCall, CallState, CallPc, AuthAnswer

LEMMA InitAuthInv == AuthInit => AuthInv
<1> SUFFICES ASSUME AuthInit PROVE AuthInv
  OBVIOUS
<1>1. SessionInv
  BY InitSessionInv DEF AuthInit
<1>2. jar = None /\ \A t \in Tab, op \in Operation : call[t][op] = NoCall
  BY DEF AuthInit
<1>3. Requests
  BY <1>2, NoCallType DEF AuthInit, Requests, CallAt, NoCall, Operation
<1>4. \A t \in Tab, op \in Operation :
          call[t][op].token = None /\ ~ CallAt(t, op, "answered")
  BY <1>2 DEF NoCall, CallAt
<1>5. CookiesIssued /\ FreshAnswers /\ DistinctAnswers /\ CookieCurrent
  BY <1>2, <1>4 DEF CookiesIssued, FreshAnswers, DistinctAnswers, CookieCurrent, Answered
<1>6. RefreshAnswers
  BY <1>4 DEF RefreshAnswers, Operation
<1> QED
  BY <1>1, <1>3, <1>5, <1>6 DEF AuthInv

(***************************************************************************)
(* What SetCall, Send and Reply make of the table of requests.             *)
(***************************************************************************)
LEMMA SetCallEffect ==
    ASSUME Requests, NEW t \in Tab, NEW op \in Operation, NEW state \in CallState,
           SetCall(t, op, state)
    PROVE  /\ call' \in [Tab -> [Operation -> CallState]]
           /\ call'[t][op] = state
           /\ \A u \in Tab, p \in Operation :
                  u # t \/ p # op => call'[u][p] = call[u][p]
BY DEF Requests, SetCall

LEMMA SendEffect ==
    ASSUME SessionInv, Requests, NEW t \in Tab, NEW op \in Operation,
           NEW u \in User \cup {None}, Send(t, op, u)
    PROVE  /\ call' \in [Tab -> [Operation -> CallState]]
           /\ call'[t][op].pc = "sent" /\ call'[t][op].token = jar
           /\ call'[t][op].user = u
           /\ \A v \in Tab, p \in Operation :
                  v # t \/ p # op => call'[v][p] = call[v][p]
<1> DEFINE state == [NoCall EXCEPT !.pc = "sent", !.token = jar, !.since = now, !.user = u]
<1>1. /\ state \in CallState
      /\ state.pc = "sent" /\ state.token = jar /\ state.user = u
  BY NoCallType DEF CallState, CallPc, Requests, SessionInv, SessionTypeOK
<1>2. SetCall(t, op, state)
  BY DEF Send
<1> HIDE DEF state
<1> QED
  BY <1>1, <1>2, SetCallEffect

LEMMA ReplyEffect ==
    ASSUME Requests, NEW t \in Tab, NEW op \in Operation, NEW answer \in AuthAnswer,
           NEW s \in Session \cup {None}, Reply(t, op, answer, s)
    PROVE  /\ call' \in [Tab -> [Operation -> CallState]]
           /\ call'[t][op].pc = "answered" /\ call'[t][op].token = call[t][op].token
           /\ call'[t][op].answer = answer /\ call'[t][op].issued = s
           /\ \A v \in Tab, p \in Operation :
                  v # t \/ p # op => call'[v][p] = call[v][p]
<1> DEFINE state == [NoCall EXCEPT !.pc = "answered", !.token = call[t][op].token,
                                   !.answer = answer, !.issued = s]
<1>1. call[t][op] \in CallState
  BY DEF Requests
<1>2. /\ state \in CallState
      /\ state.pc = "answered" /\ state.token = call[t][op].token
      /\ state.answer = answer /\ state.issued = s
  BY <1>1, NoCallType DEF CallState, CallPc
<1>3. SetCall(t, op, state)
  BY DEF Reply
<1> HIDE DEF state
<1> QED
  BY <1>2, <1>3, SetCallEffect

(***************************************************************************)
(* The kinds of step.  First those that leave the requests alone.          *)
(***************************************************************************)
LEMMA QuietKeepsInv ==
    ASSUME AuthInv, SessionInv', UNCHANGED <<session, jar, call, undelivered>>,
           now' \in Nat, now' >= now
    PROVE  AuthInv'
<1>1. Requests' /\ CookiesIssued' /\ FreshAnswers' /\ DistinctAnswers' /\ CookieCurrent'
  BY DEF AuthInv, Requests, CookiesIssued, FreshAnswers, DistinctAnswers, CookieCurrent,
         Answered, Fresh, OnTheWay, CallAt, Issued
<1>2. RefreshAnswers'
  <2> SUFFICES ASSUME NEW t \in Tab, CallAt(t, "refresh", "answered")
               PROVE  /\ call[t]["refresh"].answer # "confirmed"
                      /\ call[t]["refresh"].answer = "expired" =>
                           /\ call[t]["refresh"].token # None
                           /\ session[call[t]["refresh"].token].expires <= now'
    BY DEF RefreshAnswers, CallAt
  <2>1. call[t]["refresh"] \in CallState
    BY DEF AuthInv, Requests, Operation
  <2>2. now \in Nat /\ \A s \in Session : session[s].expires \in Nat
    BY DEF AuthInv, SessionInv, SessionTypeOK, SessionRow
  <2> QED
    BY <2>1, <2>2 DEF AuthInv, RefreshAnswers, CallState
<1> QED
  BY <1>1, <1>2 DEF AuthInv

LEMMA ForgettingCookieKeepsInv ==
    ASSUME AuthInv, SessionInv', jar' = None, UNCHANGED <<sessionVars, call, undelivered>>
    PROVE  AuthInv'
<1>1. Requests' /\ CookiesIssued' /\ DistinctAnswers' /\ CookieCurrent' /\ RefreshAnswers'
  BY DEF AuthInv, Requests, CookiesIssued, DistinctAnswers, CookieCurrent, RefreshAnswers,
         Answered, CallAt, Issued, sessionVars
<1>2. FreshAnswers'
  BY SessionAssumption
     DEF AuthInv, FreshAnswers, Fresh, Answered, CallAt, Issued, sessionVars
<1> QED
  BY <1>1, <1>2 DEF AuthInv

(***************************************************************************)
(* A request is sent, with the cookie in the jar.                          *)
(***************************************************************************)
LEMMA SendKeepsInv ==
    ASSUME AuthInv, SessionInv', NEW t \in Tab, NEW op \in Operation,
           NEW u \in User \cup {None}, op = "login" => u \in User,
           ~ CallAt(t, op, "answered"),
           Send(t, op, u), UNCHANGED <<sessionVars, jar, undelivered>>
    PROVE  AuthInv'
<1>1. /\ call' \in [Tab -> [Operation -> CallState]]
      /\ call'[t][op].pc = "sent" /\ call'[t][op].token = jar
      /\ call'[t][op].user = u
      /\ \A v \in Tab, p \in Operation :
             v # t \/ p # op => call'[v][p] = call[v][p]
  BY SendEffect DEF AuthInv
<1>2. \A v \in Tab, p \in Operation :
          /\ CallAt(v, p, "answered")' =>
                 CallAt(v, p, "answered") /\ call'[v][p] = call[v][p]
          /\ CallAt(v, p, "answered") => CallAt(v, p, "answered")' /\ call'[v][p] = call[v][p]
          /\ call'[v][p].token \in {call[v][p].token, jar}
  BY <1>1 DEF CallAt
<1>3. Requests'
  BY <1>1 DEF AuthInv, Requests, CallAt, Operation
<1>4. CookiesIssued'
  BY <1>2 DEF AuthInv, CookiesIssued, Issued, sessionVars
<1>5. FreshAnswers' /\ DistinctAnswers'
  <2>1. \A v \in Tab, p \in Operation :
            Answered(v, p)' => Answered(v, p) /\ call'[v][p] = call[v][p]
    BY <1>2 DEF Answered
  <2>2. \A s : Fresh(s) => Fresh(s)'
    BY <1>2 DEF Fresh, Issued, sessionVars
  <2> QED
    BY <2>1, <2>2 DEF AuthInv, FreshAnswers, DistinctAnswers
<1>6. RefreshAnswers'
  BY <1>2 DEF AuthInv, RefreshAnswers, sessionVars, Operation
<1>7. CookieCurrent'
  BY <1>2 DEF AuthInv, CookieCurrent, OnTheWay, sessionVars
<1> QED
  BY <1>3, <1>4, <1>5, <1>6, <1>7 DEF AuthInv

(***************************************************************************)
(* A request is queued, given up or settled.                               *)
(***************************************************************************)
LEMMA DropKeepsInv ==
    ASSUME AuthInv, SessionInv', NEW t \in Tab, NEW op \in Operation,
           NEW state \in CallState, SetCall(t, op, state),
           state.token = None, state.pc \notin {"sent", "answered"},
           Answered(t, op) => call[t][op].issued \in undelivered',
           undelivered \subseteq undelivered', UNCHANGED <<sessionVars, jar>>
    PROVE  AuthInv'
<1>1. /\ call' \in [Tab -> [Operation -> CallState]]
      /\ call'[t][op] = state
      /\ \A v \in Tab, p \in Operation :
             v # t \/ p # op => call'[v][p] = call[v][p]
  BY SetCallEffect DEF AuthInv
<1>2. \A v \in Tab, p \in Operation :
          /\ CallAt(v, p, "answered")' =>
                 CallAt(v, p, "answered") /\ call'[v][p] = call[v][p]
          /\ call'[v][p].token \in {call[v][p].token, None}
  BY <1>1 DEF CallAt
<1>3. Requests'
  BY <1>1 DEF AuthInv, Requests, CallAt, Operation
<1>4. CookiesIssued'
  BY <1>2 DEF AuthInv, CookiesIssued, Issued, sessionVars
<1>5. FreshAnswers' /\ DistinctAnswers'
  <2>1. FreshAnswers'
    BY <1>2, SessionAssumption DEF AuthInv, FreshAnswers, Fresh, Answered, Issued, sessionVars
  <2>2. DistinctAnswers'
    BY <1>2 DEF AuthInv, DistinctAnswers, Answered
  <2> QED
    BY <2>1, <2>2
<1>6. RefreshAnswers'
  BY <1>2 DEF AuthInv, RefreshAnswers, sessionVars, Operation
<1>7. CookieCurrent'
  <2> SUFFICES ASSUME jar # None, session[jar].next # None
               PROVE  (\E v \in Tab, p \in Operation :
                          CallAt(v, p, "answered")' /\ call'[v][p].issued = session[jar].next)
                      \/ session[jar].next \in undelivered'
    BY DEF CookieCurrent, OnTheWay, sessionVars
  <2>1. CASE session[jar].next \in undelivered
    BY <2>1
  <2>2. ASSUME NEW v \in Tab, NEW p \in Operation,
               CallAt(v, p, "answered"), call[v][p].issued = session[jar].next
        PROVE  \/ CallAt(v, p, "answered")' /\ call'[v][p].issued = session[jar].next
               \/ session[jar].next \in undelivered'
    <3>1. CASE v = t /\ p = op
      BY <2>2, <3>1 DEF Answered
    <3>2. CASE v # t \/ p # op
      BY <1>1, <2>2, <3>2 DEF CallAt
    <3> QED
      BY <3>1, <3>2
  <2> QED
    BY <2>1, <2>2 DEF AuthInv, CookieCurrent, OnTheWay
<1> QED
  BY <1>3, <1>4, <1>5, <1>6, <1>7 DEF AuthInv

(***************************************************************************)
(* An answer arrives: only its fresh token can enter the jar.              *)
(***************************************************************************)
LEMMA ArriveKeepsInv ==
    ASSUME AuthInv, SessionInv', NEW t \in Tab, NEW op \in Operation, Arrive(t, op)
    PROVE  AuthInv'
<1> DEFINE c == call[t][op]
           state == [c EXCEPT !.pc = "arrived", !.token = None]
<1>1. c \in CallState
  BY DEF AuthInv, Requests
<1>2. /\ state \in CallState
      /\ state.pc = "arrived" /\ state.token = None
  BY <1>1 DEF CallState, CallPc
<1>3. /\ CallAt(t, op, "answered")
      /\ jar' = CookieAfter(t, op)
      /\ SetCall(t, op, state)
      /\ UNCHANGED <<sessionVars, undelivered>>
  BY DEF Arrive
<1> HIDE DEF state
<1>4. /\ call' \in [Tab -> [Operation -> CallState]]
      /\ call'[t][op] = state
      /\ \A v \in Tab, p \in Operation :
             v # t \/ p # op => call'[v][p] = call[v][p]
  BY <1>2, <1>3, SetCallEffect DEF AuthInv
<1>5. \A v \in Tab, p \in Operation :
          /\ CallAt(v, p, "answered")' =>
                 /\ v # t \/ p # op
                 /\ CallAt(v, p, "answered") /\ call'[v][p] = call[v][p]
          /\ call'[v][p].token \in {call[v][p].token, None}
  BY <1>2, <1>4 DEF CallAt
<1>6. \/ Answered(t, op) /\ jar' = c.issued
      \/ c.issued = None /\ jar' \in {jar, None}
  BY <1>3 DEF CookieAfter, Answered
<1>7. Requests'
  <2>1. jar' \in Session \cup {None}
    BY <1>1, <1>6 DEF AuthInv, Requests, CallState
  <2> QED
    BY <1>2, <1>4, <2>1 DEF AuthInv, Requests, CallAt, Operation
<1>8. CookiesIssued'
  <2>1. jar' # None => Issued(jar')
    BY <1>6 DEF AuthInv, CookiesIssued, FreshAnswers, Fresh
  <2> QED
    BY <2>1, <1>3, <1>5 DEF AuthInv, CookiesIssued, Issued, sessionVars
<1>9. \A v \in Tab, p \in Operation : Answered(v, p)' =>
          /\ Answered(v, p) /\ call'[v][p] = call[v][p]
          /\ v # t \/ p # op
  BY <1>5 DEF Answered
<1>10. DistinctAnswers'
  BY <1>9 DEF AuthInv, DistinctAnswers
<1>11. FreshAnswers'
  <2> SUFFICES ASSUME NEW v \in Tab, NEW p \in Operation, Answered(v, p)'
               PROVE  Fresh(call[v][p].issued)'
    BY <1>9 DEF FreshAnswers
  <2>1. Answered(v, p) /\ (v # t \/ p # op) /\ Fresh(call[v][p].issued)
    BY <1>9 DEF AuthInv, FreshAnswers
  <2>2. call'[v][p].issued = call[v][p].issued /\ call[v][p].issued # None
    BY <1>9, <2>1 DEF Answered
  <2>3. jar' # call[v][p].issued
    BY <1>6, <2>1, <2>2 DEF AuthInv, DistinctAnswers, Fresh
  <2> QED
    BY <2>1, <2>2, <2>3, <1>3, <1>5 DEF Fresh, Issued, sessionVars
<1>12. RefreshAnswers'
  BY <1>3, <1>5 DEF AuthInv, RefreshAnswers, sessionVars, Operation
<1>13. CookieCurrent'
  <2>1. CASE Answered(t, op) /\ jar' = c.issued
    <3>1. session[jar'].next = None
      BY <2>1 DEF AuthInv, FreshAnswers, Fresh
    <3> QED
      BY <3>1, <1>3 DEF CookieCurrent, sessionVars
  <2>2. CASE c.issued = None /\ jar' = jar
    <3>1. \A v \in Tab, p \in Operation :
              CallAt(v, p, "answered") /\ call[v][p].issued # None =>
                  CallAt(v, p, "answered")' /\ call'[v][p].issued = call[v][p].issued
      BY <1>4, <2>2 DEF CallAt
    <3> QED
      BY <3>1, <2>2, <1>3 DEF AuthInv, CookieCurrent, OnTheWay, sessionVars
  <2>3. CASE jar' = None
    BY <2>3 DEF CookieCurrent
  <2> QED
    BY <1>6, <2>1, <2>2, <2>3
<1> QED
  BY <1>7, <1>8, <1>10, <1>11, <1>12, <1>13 DEF AuthInv

(***************************************************************************)
(* A route answers.  Rows of tokens issued before keep their expiry, and   *)
(* only the row of the request's token gets a successor, which the answer  *)
(* carries unless it was a 503.                                            *)
(***************************************************************************)
RowsKept(token, issued) ==
    \A x \in Session : Issued(x) =>
        /\ Issued(x)' /\ session'[x].expires = session[x].expires
        /\ session'[x].next # session[x].next =>
               x = token /\ (session'[x].next = issued \/ session'[x].next \in undelivered')

LEMMA AnswerKeepsInv ==
    ASSUME AuthInv, SessionInv', NEW t \in Tab, NEW op \in Operation,
           NEW answer \in AuthAnswer, NEW s \in Session \cup {None},
           CallAt(t, op, "sent"), Reply(t, op, answer, s),
           UNCHANGED <<now, jar>>, undelivered \subseteq undelivered',
           RowsKept(call[t][op].token, s),
           s # None => ~ Issued(s) /\ Issued(s)' /\ session'[s].next = None,
           op = "refresh" => answer # "confirmed",
           op = "refresh" /\ answer = "expired" =>
               Issued(call[t][op].token) /\ session[call[t][op].token].expires <= now
    PROVE  AuthInv'
<1> DEFINE token == call[t][op].token
<1>1. /\ call' \in [Tab -> [Operation -> CallState]]
      /\ call'[t][op].pc = "answered" /\ call'[t][op].token = token
      /\ call'[t][op].answer = answer /\ call'[t][op].issued = s
      /\ \A v \in Tab, p \in Operation :
             v # t \/ p # op => call'[v][p] = call[v][p]
  BY ReplyEffect DEF AuthInv
<1>2. \A v \in Tab, p \in Operation :
          /\ CallAt(v, p, "answered") => CallAt(v, p, "answered")' /\ call'[v][p] = call[v][p]
          /\ CallAt(v, p, "answered")' =>
                 \/ CallAt(v, p, "answered") /\ call'[v][p] = call[v][p]
                 \/ v = t /\ p = op
          /\ call'[v][p].token = call[v][p].token
  BY <1>1 DEF CallAt
<1>3. \A v \in Tab, p \in Operation : Answered(v, p)' =>
          \/ Answered(v, p) /\ call'[v][p] = call[v][p]
          \/ v = t /\ p = op /\ s # None
  BY <1>1, <1>2 DEF Answered
<1>4. Requests'
  BY <1>1 DEF AuthInv, Requests, CallAt, Operation
<1>5. CookiesIssued'
  <2>1. \A x : Issued(x) => Issued(x)'
    BY DEF RowsKept, Issued
  <2> QED
    BY <2>1, <1>2 DEF AuthInv, CookiesIssued
<1>6. FreshAnswers'
  <2>1. s # None => Fresh(s)'
    BY <1>2 DEF AuthInv, CookiesIssued, Fresh
  <2>2. ASSUME NEW x, Fresh(x), x # token PROVE Fresh(x)'
    <3>1. x \in Session
      BY <2>2 DEF Fresh, Issued
    <3> QED
      BY <2>2, <3>1, <1>2 DEF Fresh, RowsKept
  <2>3. ASSUME NEW v \in Tab, NEW p \in Operation, Answered(v, p)
        PROVE  Fresh(call[v][p].issued) /\ call[v][p].issued # token
    BY <2>3 DEF AuthInv, FreshAnswers, Fresh
  <2> QED
    BY <1>1, <1>3, <2>1, <2>2, <2>3 DEF FreshAnswers
<1>7. DistinctAnswers'
  <2>1. \A v \in Tab, p \in Operation :
            Answered(v, p) => Issued(call[v][p].issued)
    BY DEF AuthInv, FreshAnswers, Fresh
  <2> SUFFICES ASSUME NEW v \in Tab, NEW w \in Tab, NEW p \in Operation, NEW q \in Operation,
                      Answered(v, p)', Answered(w, q)', call'[v][p].issued = call'[w][q].issued
               PROVE  v = w /\ p = q
    BY DEF DistinctAnswers
  <2> QED
    BY <1>1, <1>3, <2>1 DEF AuthInv, DistinctAnswers
<1>8. RefreshAnswers'
  <2> SUFFICES ASSUME NEW v \in Tab, CallAt(v, "refresh", "answered")'
               PROVE  /\ call'[v]["refresh"].answer # "confirmed"
                      /\ call'[v]["refresh"].answer = "expired" =>
                           /\ call'[v]["refresh"].token # None
                           /\ session'[call'[v]["refresh"].token].expires <= now'
    BY DEF RefreshAnswers
  <2>1. "refresh" \in Operation
    BY DEF Operation
  <2>2. CASE CallAt(v, "refresh", "answered") /\ call'[v]["refresh"] = call[v]["refresh"]
    <3>1. call[v]["refresh"].token # None => Issued(call[v]["refresh"].token)
      BY <2>1 DEF AuthInv, CookiesIssued
    <3> QED
      BY <2>2, <3>1 DEF AuthInv, RefreshAnswers, RowsKept, Issued
  <2>3. CASE v = t /\ op = "refresh"
    BY <2>3, <1>1, SessionAssumption DEF RowsKept, Issued
  <2> QED
    BY <1>2, <2>1, <2>2, <2>3
<1>9. CookieCurrent'
  <2> SUFFICES ASSUME NEW n, jar # None, n = session'[jar].next, n # None
               PROVE  OnTheWay(n)' \/ n \in undelivered'
    BY DEF CookieCurrent
  <2>1. Issued(jar) /\ jar \in Session
    BY DEF AuthInv, CookiesIssued, Issued
  <2>2. CASE n = session[jar].next
    <3>1. OnTheWay(n) \/ n \in undelivered
      BY <2>2 DEF AuthInv, CookieCurrent
    <3> QED
      BY <3>1, <1>2 DEF OnTheWay
  <2>3. CASE n # session[jar].next
    <3>1. n = s \/ n \in undelivered'
      BY <2>1, <2>3 DEF RowsKept
    <3> QED
      BY <3>1, <1>1 DEF OnTheWay, CallAt
  <2> QED
    BY <2>2, <2>3
<1> QED
  BY <1>4, <1>5, <1>6, <1>7, <1>8, <1>9 DEF AuthInv

(***************************************************************************)
(* What the transactions do to the rows, in those terms.                   *)
(***************************************************************************)
LEMMA RotateKeepsRows ==
    ASSUME SessionInv, NEW token, NEW s \in Session, NEW issued, NEW asOf \in Nat,
           Rotate(token, s, asOf), issued = s \/ s \in undelivered'
    PROVE  /\ RowsKept(token, issued)
           /\ ~ Issued(s) /\ Issued(s)' /\ session'[s].next = None
<1>1. SessionTypeOK
  BY DEF SessionInv
<1>2. /\ token \in Session /\ token # s
      /\ Live(token) /\ ~ Issued(s)
      /\ session'[s] = [session[token] EXCEPT !.revoked = FALSE, !.next = None]
      /\ session'[token] = [session[token] EXCEPT !.revoked = TRUE, !.next = s]
      /\ \A x \in Session \ {token, s} : session'[x] = session[x]
  BY <1>1, RotatedRows
<1>3. session[token] \in SessionRow
  BY <1>1, <1>2 DEF SessionTypeOK
<1>4. /\ session'[s].user = session[token].user /\ session'[s].next = None
      /\ session'[token].user = session[token].user /\ session'[token].next = s
      /\ session'[token].expires = session[token].expires
  BY <1>2, <1>3 DEF SessionRow
<1>5. ~ Issued(s) /\ Issued(s)' /\ Issued(token)'
  BY <1>2, <1>4 DEF Issued, Live
<1>6. RowsKept(token, issued)
  BY <1>2, <1>4, <1>5 DEF RowsKept, Issued
<1> QED
  BY <1>4, <1>5, <1>6

LEMMA AddKeepsRows ==
    ASSUME SessionInv, NEW s \in Session, NEW u \in User, NEW asOf \in Nat,
           AddSession(s, u, asOf), NEW token, NEW issued
    PROVE  /\ RowsKept(token, issued)
           /\ ~ Issued(s) /\ Issued(s)' /\ session'[s].next = None
<1>1. SessionTypeOK
  BY DEF SessionInv
<1>2. /\ ~ Issued(s) /\ Issued(s)' /\ session'[s].next = None
      /\ \A x \in Session \ {s} : session'[x] = session[x]
  BY <1>1, AddedRow
<1> QED
  BY <1>2 DEF RowsKept, Issued

LEMMA RevokeKeepsRows ==
    ASSUME SessionInv, NEW s, NEW asOf \in Nat, Revoke(s, asOf), NEW token, NEW issued
    PROVE  RowsKept(token, issued)
<1>1. SessionTypeOK
  BY DEF SessionInv
<1>2. /\ s \in Session
      /\ session'[s] = [session[s] EXCEPT !.revoked = TRUE]
      /\ \A x \in Session \ {s} : session'[x] = session[x]
  BY <1>1, RevokedRow
<1>3. session[s] \in SessionRow
  BY <1>1, <1>2 DEF SessionTypeOK
<1>4. /\ session'[s].user = session[s].user /\ session'[s].next = session[s].next
      /\ session'[s].expires = session[s].expires
  BY <1>2, <1>3 DEF SessionRow
<1> QED
  BY <1>2, <1>4 DEF RowsKept, Issued

LEMMA UnchangedKeepsRows ==
    ASSUME UNCHANGED session, NEW token, NEW issued PROVE RowsKept(token, issued)
BY DEF RowsKept, Issued

(***************************************************************************)
(* The clock a transaction read lies between sending and now.              *)
(***************************************************************************)
LEMMA ClockRead ==
    ASSUME SessionInv, Requests, NEW t \in Tab, NEW op \in Operation,
           NEW asOf \in call[t][op].since..now
    PROVE  asOf \in Nat /\ asOf \in 0..now
<1>1. call[t][op].since \in Nat
  BY DEF Requests, CallState
<1>2. now \in Nat
  BY DEF SessionInv, SessionTypeOK
<1> QED
  BY <1>1, <1>2

(***************************************************************************)
(* Every step of AuthSession is a step of RefreshSessions or leaves the    *)
(* rows and the clock alone.                                               *)
(***************************************************************************)
LEMMA AuthSessionStep ==
    ASSUME AuthInv, [AuthNext]_authVars PROVE [SessionNext]_sessionVars
<1> SessionInv /\ Requests
  BY DEF AuthInv
<1>1. ASSUME NEW t \in Tab, ServeRefresh(t) PROVE [SessionNext]_sessionVars
  <2> DEFINE token == call[t]["refresh"].token
  <2>1. PICK asOf \in call[t]["refresh"].since..now :
            \/ \E s \in Session : Rotate(token, s, asOf)
            \/ UNCHANGED session
    BY <1>1 DEF ServeRefresh
  <2>2. asOf \in 0..now
    BY ClockRead DEF Operation
  <2>3. ASSUME NEW s \in Session, Rotate(token, s, asOf) PROVE token \in Session
    BY <2>3 DEF Rotate, Verdict, Issued
  <2> QED
    BY <2>1, <2>2, <2>3, <1>1 DEF ServeRefresh, SessionNext, sessionVars
<1>2. ASSUME NEW t \in Tab, ServeLogin(t) PROVE [SessionNext]_sessionVars
  <2>1. call[t]["login"].user \in User
    BY <1>2 DEF ServeLogin, Requests
  <2>2. CASE UNCHANGED session
    BY <1>2, <2>2 DEF ServeLogin, sessionVars
  <2>3. ASSUME NEW asOf \in call[t]["login"].since..now, NEW s \in Session,
               AddSession(s, call[t]["login"].user, asOf)
        PROVE  [SessionNext]_sessionVars
    <3>1. asOf \in 0..now
      BY ClockRead DEF Operation
    <3> QED
      BY <2>1, <2>3, <3>1, <1>2 DEF ServeLogin, SessionNext
  <2> QED
    BY <1>2, <2>2, <2>3 DEF ServeLogin
<1>3. ASSUME NEW t \in Tab, ServeLogout(t) PROVE [SessionNext]_sessionVars
  <2> DEFINE token == call[t]["logout"].token
  <2>1. PICK asOf \in call[t]["logout"].since..now :
            Revoke(token, asOf) \/ UNCHANGED session
    BY <1>3 DEF ServeLogout
  <2>2. asOf \in 0..now
    BY ClockRead DEF Operation
  <2>3. Revoke(token, asOf) => token \in Session
    BY DEF Revoke, Verdict, Issued
  <2> QED
    BY <2>1, <2>2, <2>3, <1>3 DEF ServeLogout, SessionNext, sessionVars
<1>4. CASE AuthTick
  BY <1>4 DEF AuthTick, SessionNext
<1>5. ASSUME NEW t \in Tab,
             \/ Open(t) \/ Grant(t) \/ Logout(t) \/ Fetch(t) \/ FetchEnds(t) \/ Settle(t)
             \/ \E u \in User : Login(t, u)
             \/ \E op \in Operation : Arrive(t, op) \/ Lose(t, op) \/ Truncate(t, op)
      PROVE  UNCHANGED sessionVars
  BY <1>5 DEF Open, Grant, Logout, Fetch, FetchEnds, Settle, SettleRefresh, SettleLogin,
              SettleLogout, Login, Arrive, Lose, Truncate
<1>6. CASE CookieExpires
  BY <1>6 DEF CookieExpires
<1>7. CASE UNCHANGED authVars
  BY <1>7 DEF authVars
<1> QED
  BY <1>1, <1>2, <1>3, <1>4, <1>5, <1>6, <1>7 DEF AuthNext, Serve

(***************************************************************************)
(* Each action keeps the invariant.                                        *)
(***************************************************************************)
LEMMA StartRefreshKeepsInv ==
    ASSUME AuthInv, SessionInv', NEW t \in Tab, StartRefresh(t),
           UNCHANGED <<sessionVars, jar, undelivered>>
    PROVE  AuthInv'
<1> DEFINE state == [NoCall EXCEPT !.pc = "queued"]
<1>1. state \in CallState /\ state.token = None /\ state.pc \notin {"sent", "answered"}
  BY NoCallType DEF NoCall, CallState, CallPc
<1> "refresh" \in Operation /\ ~ CallAt(t, "refresh", "answered")
  BY DEF Operation, StartRefresh, CallAt
<1>2. CASE SetCall(t, "refresh", state)
  <2>1. ~ Answered(t, "refresh")
    BY DEF Answered
  <2> HIDE DEF state
  <2> QED
    BY <1>1, <1>2, <2>1, DropKeepsInv
<1>3. CASE Send(t, "refresh", None)
  BY <1>3, SendKeepsInv
<1> QED
  BY <1>2, <1>3 DEF StartRefresh

LEMMA SettleKeepsInv ==
    ASSUME AuthInv, SessionInv', NEW t \in Tab, NEW op \in Operation,
           CallAt(t, op, "arrived"), SetCall(t, op, NoCall),
           UNCHANGED <<sessionVars, jar, undelivered>>
    PROVE  AuthInv'
<1>1. NoCall.token = None /\ NoCall.pc \notin {"sent", "answered"} /\ ~ Answered(t, op)
  BY DEF NoCall, Answered, CallAt
<1> QED
  BY <1>1, NoCallType, DropKeepsInv

LEMMA LostKeepsInv ==
    ASSUME AuthInv, SessionInv', NEW t \in Tab, NEW op \in Operation,
           SetCall(t, op, [NoCall EXCEPT !.pc = "arrived", !.answer = "lost"]),
           Answered(t, op) => call[t][op].issued \in undelivered',
           undelivered \subseteq undelivered', UNCHANGED <<sessionVars, jar>>
    PROVE  AuthInv'
<1> DEFINE state == [NoCall EXCEPT !.pc = "arrived", !.answer = "lost"]
<1>1. state \in CallState /\ state.token = None /\ state.pc \notin {"sent", "answered"}
  BY NoCallType DEF NoCall, CallState, CallPc, AuthAnswer
<1>2. SetCall(t, op, state)
  OBVIOUS
<1> HIDE DEF state
<1> QED
  BY <1>1, <1>2, DropKeepsInv

LEMMA ServeRefreshKeepsInv ==
    ASSUME AuthInv, SessionInv', NEW t \in Tab, ServeRefresh(t) PROVE AuthInv'
<1> DEFINE token == call[t]["refresh"].token
<1> /\ "refresh" \in Operation
    /\ {"ok", "expired", "refused", "unavailable"} \subseteq AuthAnswer
    /\ None \in Session \cup {None}
    /\ SessionInv /\ Requests
  BY DEF Operation, AuthAnswer, AuthInv
<1>1. PICK asOf \in call[t]["refresh"].since..now :
        \/ \E s \in Session :
              /\ Rotate(token, s, asOf)
              /\ \/ Reply(t, "refresh", "ok", s) /\ UNCHANGED undelivered
                 \/ /\ Reply(t, "refresh", "unavailable", None)
                    /\ undelivered' = undelivered \cup {s}
        \/ /\ Reply(t, "refresh",
                    IF Verdict(token, asOf) = "expired" THEN "expired" ELSE "refused", None)
           /\ UNCHANGED <<session, undelivered>>
        \/ /\ Reply(t, "refresh", "unavailable", None)
           /\ UNCHANGED <<session, undelivered>>
  BY DEF ServeRefresh, Unavailable
<1>2. asOf \in Nat /\ asOf <= now
  BY ClockRead
<1>3. CallAt(t, "refresh", "sent") /\ UNCHANGED <<now, jar>>
  BY DEF ServeRefresh
<1>4. ASSUME NEW s \in Session, Rotate(token, s, asOf),
             Reply(t, "refresh", "ok", s), UNCHANGED undelivered
      PROVE  AuthInv'
  <2>1. /\ RowsKept(token, s)
        /\ ~ Issued(s) /\ Issued(s)' /\ session'[s].next = None
    BY <1>2, <1>4, RotateKeepsRows
  <2> QED
    BY <2>1, <1>3, <1>4, AnswerKeepsInv
<1>5. ASSUME NEW s \in Session, Rotate(token, s, asOf),
             Reply(t, "refresh", "unavailable", None), undelivered' = undelivered \cup {s}
      PROVE  AuthInv'
  <2>1. RowsKept(token, None)
    BY <1>2, <1>5, RotateKeepsRows
  <2> QED
    BY <2>1, <1>3, <1>5, AnswerKeepsInv
<1>6. ASSUME UNCHANGED <<session, undelivered>>, NEW answer \in AuthAnswer,
             Reply(t, "refresh", answer, None), answer # "confirmed",
             answer = "expired" => Verdict(token, asOf) = "expired"
      PROVE  AuthInv'
  <2>1. RowsKept(token, None)
    BY <1>6, UnchangedKeepsRows
  <2>2. answer = "expired" => Issued(token) /\ session[token].expires <= asOf
    BY <1>6 DEF Verdict
  <2>3. Issued(token) => session[token].expires \in Nat
    BY DEF SessionInv, SessionTypeOK, SessionRow, Issued
  <2>4. now \in Nat
    BY DEF SessionInv, SessionTypeOK
  <2>5. answer = "expired" => Issued(token) /\ session[token].expires <= now
    BY <2>2, <2>3, <2>4, <1>2
  <2> QED
    BY <2>1, <2>5, <1>3, <1>6, AnswerKeepsInv
<1>7. CASE /\ Reply(t, "refresh",
                    IF Verdict(token, asOf) = "expired" THEN "expired" ELSE "refused", None)
           /\ UNCHANGED <<session, undelivered>>
  <2>1. CASE Verdict(token, asOf) = "expired"
    BY <1>7, <2>1, <1>6
  <2>2. CASE Verdict(token, asOf) # "expired"
    BY <1>7, <2>2, <1>6
  <2> QED
    BY <2>1, <2>2
<1>8. CASE /\ Reply(t, "refresh", "unavailable", None)
           /\ UNCHANGED <<session, undelivered>>
  BY <1>8, <1>6
<1> QED
  BY <1>1, <1>4, <1>5, <1>7, <1>8

LEMMA ServeLoginKeepsInv ==
    ASSUME AuthInv, SessionInv', NEW t \in Tab, ServeLogin(t) PROVE AuthInv'
<1> DEFINE token == call[t]["login"].token
           user == call[t]["login"].user
<1> /\ "login" \in Operation
    /\ {"ok", "refused", "unavailable"} \subseteq AuthAnswer
    /\ None \in Session \cup {None}
    /\ SessionInv /\ Requests
  BY DEF Operation, AuthAnswer, AuthInv
<1>1. CallAt(t, "login", "sent") /\ UNCHANGED <<now, jar>> /\ user \in User
  BY DEF ServeLogin, Requests
<1>2. ASSUME NEW asOf \in call[t]["login"].since..now, NEW s \in Session,
             AddSession(s, user, asOf)
      PROVE  /\ RowsKept(token, s) /\ RowsKept(token, None)
             /\ ~ Issued(s) /\ Issued(s)' /\ session'[s].next = None
  <2>1. asOf \in Nat
    BY ClockRead
  <2> QED
    BY <1>1, <1>2, <2>1, AddKeepsRows
<1>3. ASSUME NEW asOf \in call[t]["login"].since..now, NEW s \in Session,
             AddSession(s, user, asOf), Reply(t, "login", "ok", s), UNCHANGED undelivered
      PROVE  AuthInv'
  BY <1>1, <1>2, <1>3, AnswerKeepsInv
<1>4. ASSUME NEW asOf \in call[t]["login"].since..now, NEW s \in Session,
             AddSession(s, user, asOf), Reply(t, "login", "unavailable", None),
             undelivered' = undelivered \cup {s}
      PROVE  AuthInv'
  BY <1>1, <1>2, <1>4, AnswerKeepsInv
<1>5. ASSUME UNCHANGED <<session, undelivered>>, NEW answer \in AuthAnswer,
             Reply(t, "login", answer, None)
      PROVE  AuthInv'
  BY <1>1, <1>5, UnchangedKeepsRows, AnswerKeepsInv
<1> QED
  BY <1>3, <1>4, <1>5 DEF ServeLogin, Unavailable

LEMMA ServeLogoutKeepsInv ==
    ASSUME AuthInv, SessionInv', NEW t \in Tab, ServeLogout(t) PROVE AuthInv'
<1> DEFINE token == call[t]["logout"].token
<1> /\ "logout" \in Operation
    /\ {"confirmed", "unavailable"} \subseteq AuthAnswer
    /\ None \in Session \cup {None}
    /\ SessionInv /\ Requests
  BY DEF Operation, AuthAnswer, AuthInv
<1>1. PICK asOf \in call[t]["logout"].since..now :
        /\ Revoke(token, asOf) \/ UNCHANGED session
        /\ \/ Reply(t, "logout", "confirmed", None)
           \/ Reply(t, "logout", "unavailable", None)
  BY DEF ServeLogout, Unavailable
<1>2. CallAt(t, "logout", "sent") /\ UNCHANGED <<now, jar, undelivered>>
  BY DEF ServeLogout
<1>3. asOf \in Nat
  BY ClockRead
<1>4. RowsKept(token, None)
  BY <1>1, <1>3, RevokeKeepsRows, UnchangedKeepsRows
<1> QED
  BY <1>1, <1>2, <1>4, AnswerKeepsInv

LEMMA AuthStep == AuthInv /\ [AuthNext]_authVars => AuthInv'
<1> SUFFICES ASSUME AuthInv, [AuthNext]_authVars PROVE AuthInv'
  OBVIOUS
<1> SessionInv'
  BY AuthSessionStep, SessionStep DEF AuthInv
<1> now \in Nat /\ now' \in Nat
  BY DEF AuthInv, SessionInv, SessionTypeOK
<1>1. ASSUME UNCHANGED <<sessionVars, jar, call, undelivered>> PROVE AuthInv'
  BY <1>1, QuietKeepsInv DEF sessionVars
<1>2. ASSUME NEW t \in Tab, Open(t) \/ FetchEnds(t) PROVE AuthInv'
  <2>1. UNCHANGED <<sessionVars, jar, undelivered>> /\ (UNCHANGED call \/ StartRefresh(t))
    BY <1>2 DEF Open, FetchEnds
  <2> QED
    BY <2>1, <1>1, StartRefreshKeepsInv
<1>3. ASSUME NEW t \in Tab, Grant(t) \/ Logout(t) \/ \E u \in User : Login(t, u)
      PROVE  AuthInv'
  <2>1. CASE Grant(t)
    <3>1. ~ CallAt(t, "refresh", "answered") /\ "refresh" \in Operation
      BY <2>1 DEF Grant, HoldsLock, CallAt, Operation
    <3> QED
      BY <2>1, <3>1, SendKeepsInv DEF Grant
  <2>2. CASE Logout(t)
    <3>1. ~ CallAt(t, "logout", "answered") /\ "logout" \in Operation
      BY <2>2 DEF Logout, CallAt, Operation
    <3> QED
      BY <2>2, <3>1, SendKeepsInv DEF Logout
  <2>3. ASSUME NEW u \in User, Login(t, u) PROVE AuthInv'
    <3>1. ~ CallAt(t, "login", "answered") /\ "login" \in Operation
      BY <2>3 DEF Login, CallAt, Operation
    <3> QED
      BY <2>3, <3>1, SendKeepsInv DEF Login
  <2> QED
    BY <1>3, <2>1, <2>2, <2>3
<1>4. ASSUME NEW t \in Tab, Settle(t) PROVE AuthInv'
  <2>1. Operation = {"refresh", "login", "logout"}
    BY DEF Operation
  <2>2. PICK op \in Operation : /\ CallAt(t, op, "arrived") /\ SetCall(t, op, NoCall)
                               /\ UNCHANGED <<sessionVars, jar, undelivered>>
    BY <1>4, <2>1 DEF Settle, SettleRefresh, SettleLogin, SettleLogout
  <2> QED
    BY <2>2, SettleKeepsInv
<1>5. ASSUME NEW t \in Tab, Serve(t) PROVE AuthInv'
  BY <1>5, ServeRefreshKeepsInv, ServeLoginKeepsInv, ServeLogoutKeepsInv DEF Serve
<1>6. ASSUME NEW t \in Tab, NEW op \in Operation, Lose(t, op) \/ Truncate(t, op)
      PROVE  AuthInv'
  <2>1. Answered(t, op) => call[t][op].issued \in undelivered'
    BY <1>6 DEF Lose, Truncate, Answered, CallAt
  <2> QED
    BY <1>6, <2>1, LostKeepsInv DEF Lose, Truncate
<1>7. CASE AuthTick
  BY <1>7, QuietKeepsInv DEF AuthTick, Tick
<1>8. CASE CookieExpires
  BY <1>8, ForgettingCookieKeepsInv DEF CookieExpires
<1>9. ASSUME NEW t \in Tab, Fetch(t) PROVE AuthInv'
  BY <1>9, <1>1 DEF Fetch
<1> QED
  BY <1>1, <1>2, <1>3, <1>4, <1>5, <1>6, <1>7, <1>8, <1>9, ArriveKeepsInv
     DEF AuthNext, authVars

(***************************************************************************)
(* AuthInvariant: the inductive invariant holds in every state.            *)
(***************************************************************************)
THEOREM AuthInvariant == AuthSpec => []AuthInv
BY InitAuthInv, AuthStep, PTL DEF AuthSpec

(***************************************************************************)
(* BrowserImplementsSessions: whatever tabs, answers and failures do, the  *)
(* rows change only by the transactions of RefreshSessions.                *)
(***************************************************************************)
THEOREM BrowserImplementsSessions == AuthSpec => SessionSpec
<1>1. AuthInit => SessionInit
  BY DEF AuthInit
<1>2. AuthInv /\ [AuthNext]_authVars => [SessionNext]_sessionVars
  BY AuthSessionStep
<1> QED
  BY <1>1, <1>2, AuthInvariant, PTL DEF AuthSpec, SessionSpec

(***************************************************************************)
(* BrowserLogoutIsFinal: no answer on its way revives a logged-out login.  *)
(***************************************************************************)
THEOREM BrowserLogoutIsFinal == AuthSpec => LogoutEndsLogin
BY BrowserImplementsSessions, LogoutIsFinal, PTL

(***************************************************************************)
(* CookieNeverFallsBack: the cookie lags behind a rotation only while its  *)
(* successor is on the way, or after that answer was lost.                 *)
(***************************************************************************)
THEOREM CookieNeverFallsBack == AuthSpec => []CookieCurrent
<1>1. AuthInv => CookieCurrent
  BY DEF AuthInv
<1> QED
  BY <1>1, AuthInvariant, PTL

(***************************************************************************)
(* A refresh that was refused as expired expired its whole login, so the   *)
(* cookie it clears belongs to another login or is dead.                   *)
(***************************************************************************)
LEMMA LateAnswerStep ==
    ASSUME AuthInv, NEW t \in Tab, Arrive(t, "refresh"),
           Works(jar), SameLogin(jar, call[t]["refresh"].token)
    PROVE  jar' # None
<1> DEFINE c == call[t]["refresh"]
<1>1. jar \in Session /\ c.token \in Session /\ jar # None
  BY SessionAssumption DEF SameLogin, Issued
<1>2. session[jar].expires = session[c.token].expires /\ session[jar].expires > now
  BY <1>1 DEF AuthInv, SessionInv, RotationKeepsLogin, Works
<1>3. session[jar].expires \in Nat /\ now \in Nat
  BY <1>1 DEF AuthInv, SessionInv, SessionTypeOK, SessionRow
<1>4. ~ Clears(c.answer)
  BY <1>2, <1>3 DEF AuthInv, RefreshAnswers, Arrive, Clears
<1> QED
  BY <1>1, <1>4 DEF Arrive, CookieAfter

(***************************************************************************)
(* LateAnswerIsHarmless: a late answer to a refresh never erases a cookie  *)
(* of the same login that still works.                                     *)
(***************************************************************************)
THEOREM LateAnswerIsHarmless == AuthSpec => LateAnswerKeepsSuccessor
<1>1. AuthInv /\ [AuthNext]_authVars =>
      [\A t \in Tab :
         /\ Arrive(t, "refresh")
         /\ Works(jar) /\ SameLogin(jar, call[t]["refresh"].token)
         => jar' # None]_authVars
  BY LateAnswerStep
<1> QED
  BY <1>1, AuthInvariant, PTL DEF AuthSpec, LateAnswerKeepsSuccessor

-----------------------------------------------------------------------------
(***************************************************************************)
(* What the tabs render, and the Web Lock.                                 *)
(*                                                                         *)
(* The lock is held or awaited by exactly the tabs whose refresh is under  *)
(* way, once each, and only the first has sent its request.                *)
(***************************************************************************)
Awaits(t) == CallAt(t, "refresh", "queued")
Refreshing(t) == ~ CallAt(t, "refresh", "idle") /\ ~ Awaits(t)

LockInOrder ==
    /\ \A i, j \in 1..Len(lock) : lock[i] = lock[j] => i = j
    /\ \A t \in Tab : ~ CallAt(t, "refresh", "idle") => \E i \in 1..Len(lock) : lock[i] = t
    /\ \A i \in 1..Len(lock) : /\ ~ CallAt(lock[i], "refresh", "idle")
                               /\ i # 1 => Awaits(lock[i])

TabsTyped ==
    /\ tab \in [Tab -> TabState]
    /\ \A t \in Tab : tab[t].status = "authenticated" <=> tab[t].user # None

OkIssues ==
    \A t \in Tab, op \in Operation : call[t][op].answer = "ok" => Issued(call[t][op].issued)

BrowserInv ==
    /\ AuthInv
    /\ TabsTyped
    /\ OkIssues
    /\ lock \in Seq(Tab)
    /\ LocksAvailable => LockInOrder
    /\ undelivered \subseteq Session
    /\ disruptions \in Nat

LEMMA InitBrowser == AuthInit => BrowserInv
<1> SUFFICES ASSUME AuthInit PROVE BrowserInv
  OBVIOUS
<1>1. AuthInv
  BY InitAuthInv
<1>2. \A t \in Tab, op \in Operation : call[t][op] = NoCall
  BY DEF AuthInit
<1>3. TabsTyped
  <2>1. tab = [t \in Tab |-> [status |-> "closed", user |-> None, fetches |-> 0]]
    BY DEF AuthInit
  <2>2. 0 \in 0..MaxFetches
    BY AuthAssumption
  <2> QED
    BY <2>1, <2>2 DEF TabsTyped, TabState, TabStatus
<1>4. OkIssues
  BY <1>2, AnswerAssumption DEF OkIssues, NoCall, AuthAnswer
<1>5. lock = <<>> /\ lock \in Seq(Tab) /\ Len(lock) = 0
  BY EmptySeq DEF AuthInit
<1>6. LockInOrder
  BY <1>2, <1>5 DEF LockInOrder, CallAt, NoCall, Operation
<1>7. undelivered \subseteq Session /\ disruptions \in Nat
  BY DEF AuthInit
<1> QED
  BY <1>1, <1>3, <1>4, <1>5, <1>6, <1>7 DEF BrowserInv

(***************************************************************************)
(* Rows, once issued, stay issued.                                         *)
(***************************************************************************)
LEMMA IssuedStays ==
    ASSUME SessionInv, [SessionNext]_sessionVars, NEW s, Issued(s)
    PROVE  Issued(s)' /\ session'[s].login = session[s].login
<1> s \in Session /\ SessionTypeOK
  BY DEF Issued, SessionInv
<1>1. CASE UNCHANGED session
  BY <1>1 DEF Issued
<1>2. ASSUME NEW x \in Session, NEW asOf \in 0..now, NEW u \in User, AddSession(x, u, asOf)
      PROVE  Issued(s)' /\ session'[s].login = session[s].login
  <2>1. now \in Nat
    BY DEF SessionTypeOK
  <2>2. asOf \in Nat
    BY <2>1
  <2> QED
    BY <1>2, <2>2, AddedRow DEF Issued
<1>3. ASSUME NEW x \in Session, NEW asOf \in 0..now, NEW t \in Session, Rotate(x, t, asOf)
      PROVE  Issued(s)' /\ session'[s].login = session[s].login
  <2>1. now \in Nat
    BY DEF SessionTypeOK
  <2>2. asOf \in Nat
    BY <2>1
  <2>3. /\ ~ Issued(t)
        /\ session'[x] = [session[x] EXCEPT !.revoked = TRUE, !.next = t]
        /\ \A y \in Session \ {x, t} : session'[y] = session[y]
    BY <1>3, <2>2, RotatedRows
  <2>4. CASE s \in Session \ {x, t}
    BY <2>3, <2>4 DEF Issued
  <2>5. CASE s = x
    BY <2>3, <2>5 DEF Issued, SessionTypeOK, SessionRow
  <2> QED
    BY <2>3, <2>4, <2>5
<1>4. ASSUME NEW x \in Session, NEW asOf \in 0..now, Revoke(x, asOf)
      PROVE  Issued(s)' /\ session'[s].login = session[s].login
  <2>1. now \in Nat
    BY DEF SessionTypeOK
  <2>2. asOf \in Nat
    BY <2>1
  <2>3. /\ session'[x] = [session[x] EXCEPT !.revoked = TRUE]
        /\ \A y \in Session \ {x} : session'[y] = session[y]
    BY <1>4, <2>2, RevokedRow
  <2> QED
    BY <2>3 DEF Issued, SessionTypeOK, SessionRow
<1> QED
  BY <1>1, <1>2, <1>3, <1>4 DEF SessionNext, Tick, sessionVars

(***************************************************************************)
(* One request moves at a time: Move(t, op) says how the request does, and *)
(* the others stay as they are.                                            *)
(***************************************************************************)
OthersStay(t, op) ==
    \A u \in Tab, p \in Operation : u # t \/ p # op => call'[u][p] = call[u][p]

Queues(t, op) ==
    /\ LocksAvailable /\ op = "refresh" /\ CallAt(t, op, "idle") /\ CallAt(t, op, "queued")'
    /\ call'[t][op].answer = None
    /\ lock' = Append(lock, t) /\ UNCHANGED session

IsSent(t, op) ==
    /\ op = "refresh" => HoldsLock(t) \/ ~ LocksAvailable
    /\ CallAt(t, op, "sent")' /\ call'[t][op].token = jar /\ call'[t][op].answer = None
    /\ UNCHANGED <<lock, session>>

Serves(t, op) ==
    \/ op = "refresh" /\ ServeRefresh(t)
    \/ op = "login" /\ ServeLogin(t)
    \/ op = "logout" /\ ServeLogout(t)

IsAnswered(t, op) ==
    /\ CallAt(t, op, "sent") /\ CallAt(t, op, "answered")'
    /\ call'[t][op].token = call[t][op].token
    /\ (call[t][op].answer = "ok" => Issued(call[t][op].issued))'
    /\ op = "logout" => call'[t][op].issued = None
    /\ Serves(t, op) /\ UNCHANGED lock

Comes(t, op) ==
    /\ call[t][op].pc \in {"sent", "answered", "arrived"} /\ CallAt(t, op, "arrived")'
    /\ call'[t][op].answer = "ok" =>
         call[t][op].answer = "ok" /\ call'[t][op].issued = call[t][op].issued
    /\ UNCHANGED <<lock, session>>

Ends(t, op) ==
    /\ CallAt(t, op, "arrived") /\ call'[t][op] = NoCall
    /\ lock' = IF op = "refresh" THEN Released(t) ELSE lock
    /\ UNCHANGED session

Move(t, op) == Queues(t, op) \/ IsSent(t, op) \/ IsAnswered(t, op) \/ Comes(t, op) \/ Ends(t, op)

LEMMA StartRefreshMoves ==
    ASSUME AuthInv, NEW t \in Tab, StartRefresh(t), UNCHANGED sessionVars
    PROVE  OthersStay(t, "refresh") /\ Move(t, "refresh")
<1> "refresh" \in Operation /\ SessionInv /\ Requests /\ UNCHANGED session
  BY DEF Operation, AuthInv, sessionVars
<1>1. CASE LocksAvailable
  <2> DEFINE state == [NoCall EXCEPT !.pc = "queued"]
  <2>1. state \in CallState /\ state.pc = "queued" /\ state.answer = None
    BY NoCallType DEF NoCall, CallState, CallPc
  <2>2. SetCall(t, "refresh", state) /\ lock' = Append(lock, t) /\ CallAt(t, "refresh", "idle")
    BY <1>1 DEF StartRefresh
  <2> HIDE DEF state
  <2> QED
    BY <1>1, <2>1, <2>2, SetCallEffect DEF OthersStay, Move, Queues, CallAt
<1>2. CASE ~ LocksAvailable
  <2>1. Send(t, "refresh", None) /\ UNCHANGED lock /\ CallAt(t, "refresh", "idle")
    BY <1>2 DEF StartRefresh
  <2>2. call'[t]["refresh"].answer = None
    BY <2>1 DEF Send, SetCall, NoCall, Requests
  <2> QED
    BY <1>2, <2>1, <2>2, SendEffect DEF OthersStay, Move, IsSent, CallAt
<1> QED
  BY <1>1, <1>2

LEMMA SendMoves ==
    ASSUME AuthInv, NEW t \in Tab, NEW op \in Operation, NEW u \in User \cup {None},
           Send(t, op, u), UNCHANGED <<sessionVars, lock>>,
           op = "refresh" => HoldsLock(t)
    PROVE  OthersStay(t, op) /\ Move(t, op)
<1> SessionInv /\ Requests /\ UNCHANGED session
  BY DEF AuthInv, sessionVars
<1>1. call'[t][op].answer = None
  BY DEF Send, SetCall, NoCall, Requests
<1> QED
  BY <1>1, SendEffect DEF OthersStay, Move, IsSent, CallAt

LEMMA ServeMoves ==
    ASSUME AuthInv, SessionInv', NEW t \in Tab, Serve(t)
    PROVE  \E op \in Operation : OthersStay(t, op) /\ Move(t, op)
<1> /\ SessionInv /\ Requests
    /\ {"ok", "expired", "refused", "unavailable", "confirmed"} \subseteq AuthAnswer
    /\ Operation = {"refresh", "login", "logout"}
  BY DEF AuthInv, AuthAnswer, Operation
<1>1. ASSUME NEW op \in Operation, NEW answer \in AuthAnswer, NEW s \in Session \cup {None},
             Reply(t, op, answer, s), CallAt(t, op, "sent"), Serves(t, op), UNCHANGED lock,
             answer = "ok" => Issued(s)', op = "logout" => s = None
      PROVE  OthersStay(t, op) /\ Move(t, op)
  <2>1. /\ call'[t][op].pc = "answered" /\ call'[t][op].token = call[t][op].token
        /\ call'[t][op].answer = answer /\ call'[t][op].issued = s
        /\ OthersStay(t, op)
    BY <1>1, ReplyEffect DEF OthersStay
  <2> QED
    BY <1>1, <2>1 DEF Move, IsAnswered, CallAt, Issued
<1>2. CASE ServeRefresh(t)
  <2>1. CallAt(t, "refresh", "sent") /\ Serves(t, "refresh") /\ UNCHANGED lock
    BY <1>2 DEF ServeRefresh, Serves
  <2>2. \A s \in Session, asOf \in call[t]["refresh"].since..now :
          Rotate(call[t]["refresh"].token, s, asOf) => Issued(s)'
    BY ClockRead, RotateKeepsRows
  <2>3. CASE \E s \in Session : Reply(t, "refresh", "ok", s) /\ Issued(s)'
    BY <1>1, <2>1, <2>3
  <2>4. CASE \E answer \in AuthAnswer : answer # "ok" /\ Reply(t, "refresh", answer, None)
    BY <1>1, <2>1, <2>4
  <2> QED
    BY <1>2, <2>2, <2>3, <2>4 DEF ServeRefresh, Unavailable
<1>3. CASE ServeLogin(t)
  <2>1. CallAt(t, "login", "sent") /\ Serves(t, "login") /\ UNCHANGED lock /\ call[t]["login"].user \in User
    BY <1>3 DEF ServeLogin, Serves, Requests
  <2>2. \A s \in Session, asOf \in call[t]["login"].since..now :
          AddSession(s, call[t]["login"].user, asOf) => Issued(s)'
    BY <2>1, ClockRead, AddKeepsRows
  <2>3. CASE \E s \in Session : Reply(t, "login", "ok", s) /\ Issued(s)'
    BY <1>1, <2>1, <2>3
  <2>4. CASE \E answer \in AuthAnswer : answer # "ok" /\ Reply(t, "login", answer, None)
    BY <1>1, <2>1, <2>4
  <2> QED
    BY <1>3, <2>2, <2>3, <2>4 DEF ServeLogin, Unavailable
<1>4. CASE ServeLogout(t)
  <2>1. CallAt(t, "logout", "sent") /\ Serves(t, "logout") /\ UNCHANGED lock
    BY <1>4 DEF ServeLogout, Serves
  <2>2. \E answer \in AuthAnswer : answer # "ok" /\ Reply(t, "logout", answer, None)
    BY <1>4 DEF ServeLogout, Unavailable
  <2> QED
    BY <1>1, <2>1, <2>2
<1> QED
  BY <1>2, <1>3, <1>4 DEF Serve

LEMMA ComesMoves ==
    ASSUME AuthInv, NEW t \in Tab, NEW op \in Operation,
           Arrive(t, op) \/ Lose(t, op) \/ Truncate(t, op)
    PROVE  OthersStay(t, op) /\ Move(t, op)
<1> Requests /\ call[t][op] \in CallState
  BY DEF AuthInv, Requests
<1> DEFINE seen == [call[t][op] EXCEPT !.pc = "arrived", !.token = None]
           lost == [NoCall EXCEPT !.pc = "arrived", !.answer = "lost"]
<1>1. /\ seen \in CallState /\ seen.pc = "arrived"
      /\ seen.answer = call[t][op].answer /\ seen.issued = call[t][op].issued
  BY DEF CallState, CallPc
<1>2. lost \in CallState /\ lost.pc = "arrived" /\ lost.answer = "lost"
  BY NoCallType DEF CallState, CallPc, AuthAnswer
<1>3. /\ SetCall(t, op, seen) \/ SetCall(t, op, lost)
      /\ call[t][op].pc \in {"sent", "answered", "arrived"}
      /\ UNCHANGED <<lock, session>>
  BY DEF Arrive, Lose, Truncate, CallAt, sessionVars
<1> HIDE DEF seen, lost
<1> QED
  BY <1>1, <1>2, <1>3, SetCallEffect DEF OthersStay, Move, Comes, CallAt

LEMMA SettleMoves ==
    ASSUME AuthInv, NEW t \in Tab, Settle(t)
    PROVE  \E op \in Operation : OthersStay(t, op) /\ Move(t, op)
<1> Requests /\ Operation = {"refresh", "login", "logout"}
  BY DEF AuthInv, Operation
<1>1. PICK op \in Operation :
        /\ CallAt(t, op, "arrived") /\ SetCall(t, op, NoCall)
        /\ lock' = IF op = "refresh" THEN Released(t) ELSE lock
        /\ UNCHANGED session
  BY DEF Settle, SettleRefresh, SettleLogin, SettleLogout, sessionVars
<1> QED
  BY <1>1, NoCallType, SetCallEffect DEF OthersStay, Move, Ends

LEMMA RequestsMove ==
    ASSUME AuthInv, [AuthNext]_authVars
    PROVE  \/ UNCHANGED <<call, lock, session>>
           \/ \E t \in Tab, op \in Operation : OthersStay(t, op) /\ Move(t, op)
<1> SessionInv' /\ Operation = {"refresh", "login", "logout"}
  BY AuthSessionStep, SessionStep DEF AuthInv, Operation
<1>1. ASSUME NEW t \in Tab, Open(t) \/ FetchEnds(t)
      PROVE  \/ UNCHANGED <<call, lock, session>>
             \/ OthersStay(t, "refresh") /\ Move(t, "refresh")
  <2>1. UNCHANGED sessionVars /\ (UNCHANGED <<call, lock>> \/ StartRefresh(t))
    BY <1>1 DEF Open, FetchEnds
  <2> QED
    BY <2>1, StartRefreshMoves DEF sessionVars
<1>2. ASSUME NEW t \in Tab, Grant(t)
      PROVE  OthersStay(t, "refresh") /\ Move(t, "refresh")
  BY <1>2, SendMoves DEF Grant
<1>3. ASSUME NEW t \in Tab, Logout(t)
      PROVE  OthersStay(t, "logout") /\ Move(t, "logout")
  BY <1>3, SendMoves DEF Logout
<1>4. ASSUME NEW t \in Tab, NEW u \in User, Login(t, u)
      PROVE  OthersStay(t, "login") /\ Move(t, "login")
  BY <1>4, SendMoves DEF Login
<1>5. CASE (\E t \in Tab : Fetch(t)) \/ AuthTick \/ CookieExpires \/ UNCHANGED authVars
  BY <1>5 DEF Fetch, AuthTick, Tick, CookieExpires, authVars, sessionVars
<1> QED
  BY <1>1, <1>2, <1>3, <1>4, <1>5, ServeMoves, ComesMoves, SettleMoves DEF AuthNext

(***************************************************************************)
(* The lock's queue: a tab joins it at the end, only the first sends its   *)
(* request, and only the first, once answered, leaves.                     *)
(***************************************************************************)
LEMMA FirstRefreshes ==
    ASSUME LockInOrder, NEW t \in Tab, Refreshing(t)
    PROVE  Len(lock) # 0 /\ lock[1] = t
<1> PICK i \in 1..Len(lock) : lock[i] = t
  BY DEF LockInOrder, Refreshing
<1> QED
  BY DEF LockInOrder, Refreshing

LEMMA LockStep ==
    ASSUME LocksAvailable, Requests, Requests', LockInOrder, lock \in Seq(Tab),
           NEW t \in Tab, NEW op \in Operation, OthersStay(t, op), Move(t, op)
    PROVE  lock' \in Seq(Tab) /\ LockInOrder'
<1> /\ Len(lock) \in Nat /\ \A i \in 1..Len(lock) : lock[i] \in Tab
    /\ "refresh" \in Operation
  BY DEF Operation
<1>1. CASE Queues(t, op)
  <2>1. lock' \in Seq(Tab) /\ Len(lock') = Len(lock) + 1
    BY <1>1 DEF Queues
  <2>2. /\ \A i \in 1..Len(lock) : lock'[i] = lock[i] /\ lock[i] # t
        /\ lock'[Len(lock) + 1] = t
    BY <1>1 DEF Queues, LockInOrder
  <2>3. /\ \A u \in Tab : u # t => call'[u]["refresh"] = call[u]["refresh"]
        /\ Awaits(t)' /\ ~ CallAt(t, "refresh", "idle")'
    BY <1>1 DEF OthersStay, Queues, CallAt, Awaits
  <2>4. \A i, j \in 1..Len(lock') : lock'[i] = lock'[j] => i = j
    BY <2>1, <2>2 DEF LockInOrder
  <2>5. \A u \in Tab : ~ CallAt(u, "refresh", "idle")' => \E i \in 1..Len(lock') : lock'[i] = u
    <3> SUFFICES ASSUME NEW u \in Tab, ~ CallAt(u, "refresh", "idle")'
                 PROVE  \E i \in 1..Len(lock') : lock'[i] = u
      OBVIOUS
    <3>1. CASE u = t
      BY <3>1, <2>1, <2>2
    <3>2. CASE u # t
      <4>1. PICK i \in 1..Len(lock) : lock[i] = u
        BY <3>2, <2>3 DEF LockInOrder, CallAt
      <4> QED
        BY <4>1, <2>1, <2>2
    <3> QED
      BY <3>1, <3>2
  <2>6. \A i \in 1..Len(lock') : /\ call'[lock'[i]]["refresh"].pc # "idle"
                                 /\ i # 1 => call'[lock'[i]]["refresh"].pc = "queued"
    <3> SUFFICES ASSUME NEW i \in 1..Len(lock')
                 PROVE  /\ call'[lock'[i]]["refresh"].pc # "idle"
                        /\ i # 1 => call'[lock'[i]]["refresh"].pc = "queued"
      OBVIOUS
    <3>1. CASE i = Len(lock) + 1
      BY <3>1, <2>2, <2>3 DEF CallAt, Awaits
    <3>2. CASE i \in 1..Len(lock)
      BY <3>2, <2>2, <2>3 DEF LockInOrder, CallAt, Awaits
    <3> QED
      BY <3>1, <3>2, <2>1
  <2> QED
    BY <2>1, <2>4, <2>5, <2>6 DEF LockInOrder, CallAt, Awaits
<1>2. ASSUME UNCHANGED lock, ~ CallAt(t, op, "idle"), ~ CallAt(t, op, "idle")',
             op = "refresh" => Refreshing(t) \/ HoldsLock(t)
      PROVE  lock' \in Seq(Tab) /\ LockInOrder'
  <2>1. \A u \in Tab : CallAt(u, "refresh", "idle")' <=> CallAt(u, "refresh", "idle")
    BY <1>2 DEF OthersStay, CallAt
  <2>2. op = "refresh" => Len(lock) # 0 /\ lock[1] = t
    <3>1. CASE Refreshing(t)
      BY <3>1, FirstRefreshes
    <3>2. CASE HoldsLock(t)
      <4>1. PICK i \in 1..Len(lock) : lock[i] = t
        BY <3>2 DEF LockInOrder, HoldsLock, CallAt
      <4> QED
        BY <4>1, <3>2 DEF HoldsLock
    <3> QED
      BY <1>2, <3>1, <3>2
  <2>3. \A i \in 1..Len(lock) : /\ call'[lock[i]]["refresh"].pc # "idle"
                                /\ i # 1 => call'[lock[i]]["refresh"].pc = "queued"
    <3> SUFFICES ASSUME NEW i \in 1..Len(lock)
                 PROVE  /\ call'[lock[i]]["refresh"].pc # "idle"
                        /\ i # 1 => call'[lock[i]]["refresh"].pc = "queued"
      OBVIOUS
    <3>1. i # 1 /\ op = "refresh" => lock[i] # t
      BY <2>2 DEF LockInOrder
    <3>2. i # 1 => call'[lock[i]]["refresh"] = call[lock[i]]["refresh"]
      BY <3>1 DEF OthersStay
    <3> QED
      BY <2>1, <3>2 DEF LockInOrder, CallAt, Awaits
  <2> QED
    BY <1>2, <2>1, <2>3 DEF LockInOrder, CallAt, Awaits
<1>3. ASSUME op # "refresh", UNCHANGED lock PROVE lock' \in Seq(Tab) /\ LockInOrder'
  <2>1. \A u \in Tab : call'[u]["refresh"] = call[u]["refresh"]
    BY <1>3 DEF OthersStay
  <2> QED
    BY <1>3, <2>1 DEF LockInOrder, CallAt, Awaits
<1>4. CASE Ends(t, op) /\ op = "refresh"
  <2>1. Len(lock) # 0 /\ lock[1] = t
    BY <1>4, FirstRefreshes DEF Ends, Refreshing, Awaits, CallAt
  <2>2. /\ lock' \in Seq(Tab) /\ Len(lock') = Len(lock) - 1
        /\ \A i \in 1..Len(lock') : lock'[i] = lock[i + 1]
    <3>1. lock # <<>> /\ lock' = Tail(lock)
      BY <1>4, <2>1, EmptySeq DEF Ends, Released
    <3> QED
      BY <3>1, HeadTailProperties
  <2>3. /\ \A u \in Tab : u # t => call'[u]["refresh"] = call[u]["refresh"]
        /\ CallAt(t, "refresh", "idle")'
    BY <1>4 DEF OthersStay, Ends, NoCall, CallAt
  <2>4. \A i \in 1..Len(lock') : /\ i + 1 \in 1..Len(lock) /\ i + 1 # 1
                                 /\ lock[i + 1] # t
    BY <2>1, <2>2 DEF LockInOrder
  <2>5. \A u \in Tab : ~ CallAt(u, "refresh", "idle")' => \E i \in 1..Len(lock') : lock'[i] = u
    <3> SUFFICES ASSUME NEW u \in Tab, ~ CallAt(u, "refresh", "idle")'
                 PROVE  \E i \in 1..Len(lock') : lock'[i] = u
      OBVIOUS
    <3>1. PICK i \in 1..Len(lock) : lock[i] = u
      BY <2>3 DEF LockInOrder, CallAt
    <3>2. i # 1
      BY <3>1, <2>1, <2>3
    <3>3. i - 1 \in 1..Len(lock') /\ (i - 1) + 1 = i
      BY <3>2, <2>2
    <3> QED
      BY <3>1, <3>3, <2>2
  <2>6. \A i, j \in 1..Len(lock') : lock'[i] = lock'[j] => i = j
    <3> TAKE i, j \in 1..Len(lock')
    <3>1. lock[i + 1] = lock[j + 1] => i + 1 = j + 1
      BY <2>4 DEF LockInOrder
    <3> QED
      BY <3>1, <2>2
  <2>7. \A i \in 1..Len(lock') : /\ call'[lock'[i]]["refresh"].pc # "idle"
                                 /\ i # 1 => call'[lock'[i]]["refresh"].pc = "queued"
    <3> TAKE i \in 1..Len(lock')
    <3> DEFINE u == lock[i + 1]
    <3>1. u \in Tab /\ u # t /\ call[u]["refresh"].pc = "queued" /\ lock'[i] = u
      BY <2>2, <2>4 DEF LockInOrder, CallAt, Awaits
    <3> HIDE DEF u
    <3> QED
      BY <3>1, <2>3
  <2> QED
    BY <2>2, <2>5, <2>6, <2>7 DEF LockInOrder, CallAt, Awaits
<1>5. IsSent(t, op) =>
        /\ UNCHANGED lock /\ ~ CallAt(t, op, "idle")'
        /\ op = "refresh" => HoldsLock(t) /\ ~ CallAt(t, op, "idle")
  BY DEF IsSent, HoldsLock, CallAt
<1>6. IsAnswered(t, op) \/ Comes(t, op) =>
        /\ UNCHANGED lock /\ ~ CallAt(t, op, "idle") /\ ~ CallAt(t, op, "idle")'
        /\ op = "refresh" => Refreshing(t)
  BY DEF IsAnswered, Comes, Refreshing, Awaits, CallAt
<1>7. Ends(t, op) /\ op # "refresh" => UNCHANGED lock
  BY DEF Ends
<1> QED
  BY <1>1, <1>2, <1>3, <1>4, <1>5, <1>6, <1>7 DEF Move

(***************************************************************************)
(* A tab shows a user exactly while it is authenticated: every answer that *)
(* signs one in issued a session, which is somebody's.                     *)
(***************************************************************************)
LEMMA SnapshotStep ==
    ASSUME TabsTyped, NEW t \in Tab, NEW snapshot \in TabState,
           snapshot.status = "authenticated" <=> snapshot.user # None,
           tab' = [tab EXCEPT ![t] = snapshot]
    PROVE  TabsTyped'
BY DEF TabsTyped

LEMMA SignInKeepsTabs ==
    ASSUME SessionInv, TabsTyped, OkIssues, NEW t \in Tab, NEW op \in Operation,
           call[t][op].answer = "ok", SignIn(t, op)
    PROVE  TabsTyped'
<1> PICK user : user = session[call[t][op].issued].user
  OBVIOUS
<1>1. user \in User /\ user # None
  BY SessionAssumption DEF OkIssues, Issued, SessionInv, SessionTypeOK, SessionRow
<1> DEFINE snapshot == [tab[t] EXCEPT !.status = "authenticated", !.user = user]
<1>2. snapshot \in TabState /\ snapshot.status = "authenticated" /\ snapshot.user = user
  BY <1>1 DEF TabsTyped, TabState, TabStatus
<1>3. tab' = [tab EXCEPT ![t] = snapshot]
  BY DEF SignIn
<1> HIDE DEF snapshot
<1> QED
  BY <1>1, <1>2, <1>3, SnapshotStep

LEMMA SignOutKeepsTabs ==
    ASSUME TabsTyped, NEW t \in Tab, SignOut(t)
    PROVE  TabsTyped'
<1> DEFINE snapshot == [tab[t] EXCEPT !.status = "unauthenticated", !.user = None]
<1>1. /\ snapshot \in TabState /\ snapshot.status = "unauthenticated"
      /\ snapshot.user = None
  BY DEF TabsTyped, TabState, TabStatus
<1>2. tab' = [tab EXCEPT ![t] = snapshot]
  BY DEF SignOut
<1> HIDE DEF snapshot
<1> QED
  BY <1>1, <1>2, SnapshotStep

LEMMA TabsStep ==
    ASSUME SessionInv, TabsTyped, OkIssues, [AuthNext]_authVars
    PROVE  TabsTyped'
<1> MaxFetches \in Nat /\ Operation = {"refresh", "login", "logout"}
  BY AuthAssumption DEF Operation
<1>1. ASSUME NEW t \in Tab, Open(t) PROVE TabsTyped'
  <2> DEFINE snapshot == [tab[t] EXCEPT !.status = "loading"]
  <2>1. /\ snapshot \in TabState /\ snapshot.status = "loading" /\ snapshot.user = None
        /\ tab' = [tab EXCEPT ![t] = snapshot]
    BY <1>1 DEF Open, TabsTyped, TabState, TabStatus
  <2> HIDE DEF snapshot
  <2> QED
    BY <2>1, SnapshotStep
<1>2. ASSUME NEW t \in Tab, Fetch(t) \/ FetchEnds(t) PROVE TabsTyped'
  <2>1. PICK n \in 0..MaxFetches : tab' = [tab EXCEPT ![t] = [tab[t] EXCEPT !.fetches = n]]
    <3>1. CASE Fetch(t)
      <4>1. tab[t].fetches + 1 \in 0..MaxFetches
        BY <3>1 DEF Fetch, TabsTyped, TabState
      <4> QED
        BY <3>1, <4>1 DEF Fetch, TabsTyped, TabState
    <3>2. CASE FetchEnds(t)
      <4>1. tab[t].fetches - 1 \in 0..MaxFetches
        BY <3>2 DEF FetchEnds, TabsTyped, TabState
      <4> QED
        BY <3>2, <4>1 DEF FetchEnds, TabsTyped, TabState
    <3> QED
      BY <1>2, <3>1, <3>2
  <2> DEFINE snapshot == [tab[t] EXCEPT !.fetches = n]
  <2>2. snapshot \in TabState /\ snapshot.status = tab[t].status /\ snapshot.user = tab[t].user
    BY DEF TabsTyped, TabState
  <2>3. tab' = [tab EXCEPT ![t] = snapshot]
    BY <2>1
  <2> HIDE DEF snapshot
  <2> QED
    BY <2>2, <2>3, SnapshotStep DEF TabsTyped
<1>3. ASSUME NEW t \in Tab, Settle(t) PROVE TabsTyped'
  <2>1. CASE UNCHANGED tab
    BY <2>1 DEF TabsTyped
  <2>2. CASE SignOut(t)
    BY <2>2, SignOutKeepsTabs
  <2>3. CASE \E op \in Operation : call[t][op].answer = "ok" /\ SignIn(t, op)
    BY <2>3, SignInKeepsTabs
  <2> QED
    BY <1>3, <2>1, <2>2, <2>3 DEF Settle, SettleRefresh, SettleLogin, SettleLogout
<1>4. ASSUME NEW t \in Tab, Serve(t) PROVE UNCHANGED tab
  BY <1>4 DEF Serve, ServeRefresh, ServeLogin, ServeLogout
<1>5. ASSUME NEW t \in Tab, NEW op \in Operation, Arrive(t, op) \/ Lose(t, op) \/ Truncate(t, op)
      PROVE  UNCHANGED tab
  BY <1>5 DEF Arrive, Lose, Truncate
<1>6. UNCHANGED tab => TabsTyped'
  BY DEF TabsTyped
<1> QED
  BY <1>1, <1>2, <1>3, <1>4, <1>5, <1>6
     DEF AuthNext, Grant, Login, Logout, AuthTick, CookieExpires, authVars

LEMMA OkIssuesStep ==
    ASSUME AuthInv, OkIssues, [AuthNext]_authVars PROVE OkIssues'
<1> SessionInv /\ [SessionNext]_sessionVars /\ None # "ok"
  BY AuthSessionStep, AnswerAssumption DEF AuthInv, AuthAnswer
<1>1. \A u \in Tab, p \in Operation :
          call[u][p].answer = "ok" => (Issued(call[u][p].issued))' \/ call'[u][p] # call[u][p]
  BY IssuedStays DEF OkIssues, Issued
<1>2. CASE UNCHANGED <<call, lock, session>>
  BY <1>2 DEF OkIssues, Issued
<1>3. ASSUME NEW t \in Tab, NEW op \in Operation, OthersStay(t, op), Move(t, op)
      PROVE  OkIssues'
  <2>1. ASSUME call'[t][op].answer = "ok" PROVE (Issued(call[t][op].issued))'
    <3>1. CASE Comes(t, op)
      <4>1. /\ Issued(call[t][op].issued) /\ UNCHANGED session
            /\ call'[t][op].issued = call[t][op].issued
        BY <2>1, <3>1 DEF Comes, OkIssues
      <4> QED
        BY <4>1 DEF Issued
    <3> QED
      BY <1>3, <2>1, <3>1 DEF Move, Queues, IsSent, IsAnswered, Ends, NoCall
  <2>2. ASSUME NEW u \in Tab, NEW p \in Operation, u # t \/ p # op,
               call'[u][p].answer = "ok"
        PROVE  (Issued(call[u][p].issued))'
    BY <1>1, <1>3, <2>2 DEF OthersStay
  <2> QED
    BY <2>1, <2>2 DEF OkIssues
<1> QED
  BY <1>2, <1>3, RequestsMove

LEMMA BrowserStep == BrowserInv /\ [AuthNext]_authVars => BrowserInv'
<1> SUFFICES ASSUME BrowserInv, [AuthNext]_authVars PROVE BrowserInv'
  OBVIOUS
<1> AuthInv /\ TabsTyped /\ OkIssues /\ SessionInv
  BY DEF BrowserInv, AuthInv
<1>1. AuthInv' /\ TabsTyped' /\ OkIssues'
  BY AuthStep, TabsStep, OkIssuesStep
<1>2. lock' \in Seq(Tab) /\ (LocksAvailable => LockInOrder')
  <2>1. CASE UNCHANGED <<call, lock, session>>
    BY <2>1 DEF BrowserInv, LockInOrder, CallAt, Awaits
  <2>2. ASSUME NEW t \in Tab, NEW op \in Operation, OthersStay(t, op), Move(t, op)
        PROVE  lock' \in Seq(Tab) /\ (LocksAvailable => LockInOrder')
    <3>1. CASE LocksAvailable
      BY <1>1, <2>2, <3>1, LockStep DEF BrowserInv, AuthInv
    <3>2. CASE ~ LocksAvailable
      BY <2>2, <3>2 DEF Move, Queues, IsSent, IsAnswered, Comes, Ends, Released, BrowserInv
    <3> QED
      BY <3>1, <3>2
  <2> QED
    BY <2>1, <2>2, RequestsMove
<1>3. undelivered' \subseteq Session /\ disruptions' \in Nat
  <2> /\ undelivered \subseteq Session /\ disruptions \in Nat
      /\ \A t \in Tab, op \in Operation : call[t][op].issued \in Session \cup {None}
    BY DEF BrowserInv, AuthInv, Requests, CallState
  <2>1. disruptions' \in Nat
    <3>1. Disrupt => disruptions' \in Nat
      BY DEF Disrupt
    <3>2. ASSUME NEW t \in Tab, Serve(t) PROVE disruptions' \in Nat
      BY <3>1, <3>2 DEF Serve, ServeRefresh, ServeLogin, ServeLogout, Unavailable
    <3>3. ASSUME NEW t \in Tab, NEW op \in Operation, Lose(t, op) \/ Truncate(t, op)
          PROVE  disruptions' \in Nat
      BY <3>1, <3>3 DEF Lose, Truncate
    <3> QED
      BY <3>2, <3>3 DEF AuthNext, Open, Grant, Login, Logout, Fetch, FetchEnds, Arrive,
           Settle, SettleRefresh, SettleLogin, SettleLogout, AuthTick, CookieExpires,
           authVars
  <2>2. undelivered' \subseteq Session
    <3>1. ASSUME NEW t \in Tab, Serve(t) PROVE undelivered' \subseteq Session
      BY <3>1 DEF Serve, ServeRefresh, ServeLogin, ServeLogout
    <3>2. ASSUME NEW t \in Tab, NEW op \in Operation, Lose(t, op)
          PROVE  undelivered' \subseteq Session
      BY <3>2 DEF Lose
    <3> QED
      BY <3>1, <3>2 DEF AuthNext, Open, Grant, Login, Logout, Fetch, FetchEnds, Arrive,
           Truncate, Settle, SettleRefresh, SettleLogin, SettleLogout, AuthTick,
           CookieExpires, authVars
  <2> QED
    BY <2>1, <2>2
<1> QED
  BY <1>1, <1>2, <1>3 DEF BrowserInv

(***************************************************************************)
(* The browser keeps its types, only issued tokens travel in answers, and  *)
(* the Web Lock serves the tabs in the order in which they asked.          *)
(***************************************************************************)
THEOREM BrowserInvariant == AuthSpec => []BrowserInv
BY InitBrowser, BrowserStep, PTL DEF AuthSpec

(***************************************************************************)
(* TabsAreTyped: every variable of the browser keeps its type; above all,  *)
(* a tab renders a user exactly while it is authenticated.                 *)
(***************************************************************************)
THEOREM TabsAreTyped == AuthSpec => []AuthTypeOK
<1>1. BrowserInv => AuthTypeOK
  BY DEF BrowserInv, AuthInv, SessionInv, Requests, TabsTyped, AuthTypeOK
<1> QED
  BY <1>1, BrowserInvariant, PTL

(***************************************************************************)
(* What the Web Lock gives: a refresh sends the newest token of its login, *)
(* unless the answer that issued a newer one was lost.                     *)
(*                                                                         *)
(* Successors and LoginRoots tell a token a login issued, which starts a   *)
(* chain, from one a rotation issued, which does not: so a successor that  *)
(* is on its way comes with a refresh, whose tab still has the lock.       *)
(***************************************************************************)
Successors ==
    \A s \in Session :
        session[s].next # None =>
            /\ Issued(session[s].next)
            /\ session[session[s].next].login # session[s].next

LoginRoots ==
    \A t \in Tab, op \in Operation :
        Answered(t, op) =>
            /\ op # "logout"
            /\ op = "login" => session[call[t][op].issued].login = call[t][op].issued

Presents(t) ==
    \/ CallAt(t, "refresh", "sent")
    \/ CallAt(t, "refresh", "answered") /\ call[t]["refresh"].answer = "refused"

NewestPresented ==
    \A t \in Tab :
        LET token == call[t]["refresh"].token
        IN  Presents(t) /\ token # None /\ session[token].next # None
            => session[token].next \in undelivered

LockInv ==
    /\ BrowserInv
    /\ Successors
    /\ LoginRoots
    /\ NewestPresented

LEMMA InitLockInv == AuthInit => LockInv
<1> SUFFICES ASSUME AuthInit PROVE LockInv
  OBVIOUS
<1>1. BrowserInv
  BY InitBrowser
<1>2. Successors
  BY DEF AuthInit, SessionInit, NoSession, Successors
<1>3. \A t \in Tab, op \in Operation : call[t][op] = NoCall
  BY DEF AuthInit
<1>4. LoginRoots /\ NewestPresented
  BY <1>3 DEF LoginRoots, NewestPresented, Answered, Presents, CallAt, NoCall, Operation
<1> QED
  BY <1>1, <1>2, <1>4 DEF LockInv

LEMMA SuccessorsStep ==
    ASSUME SessionInv, Successors, [SessionNext]_sessionVars PROVE Successors'
<1> SessionTypeOK /\ now \in Nat
  BY DEF SessionInv, SessionTypeOK
<1>1. CASE UNCHANGED session
  BY <1>1 DEF Successors, Issued
<1>2. ASSUME NEW x \in Session, NEW asOf \in 0..now, NEW u \in User, AddSession(x, u, asOf)
      PROVE  Successors'
  <2> asOf \in Nat
    OBVIOUS
  <2>1. /\ ~ Issued(x) /\ session'[x].next = None
        /\ \A y \in Session \ {x} : session'[y] = session[y]
    BY <1>2, AddedRow
  <2> QED
    BY <2>1 DEF Successors, Issued
<1>3. ASSUME NEW x \in Session, NEW asOf \in 0..now, NEW t \in Session, Rotate(x, t, asOf)
      PROVE  Successors'
  <2> asOf \in Nat
    OBVIOUS
  <2>1. /\ x # t /\ Live(x) /\ ~ Issued(t)
        /\ session'[t] = [session[x] EXCEPT !.revoked = FALSE, !.next = None]
        /\ session'[x] = [session[x] EXCEPT !.revoked = TRUE, !.next = t]
        /\ \A y \in Session \ {x, t} : session'[y] = session[y]
    BY <1>3, RotatedRows
  <2>2. /\ session'[x].next = t /\ session'[t].next = None
        /\ session'[t].user = session[x].user /\ session'[t].login = session[x].login
        /\ session'[x].user = session[x].user /\ session'[x].login = session[x].login
    BY <2>1 DEF SessionTypeOK, SessionRow
  <2>3. session[x].user # None /\ session[x].login # t
    BY <2>1 DEF Live, Issued, SessionInv, LoginIssued
  <2>4. \A y \in Session : Issued(y) => /\ session'[y].user = session[y].user
                                        /\ session'[y].login = session[y].login
    BY <2>1, <2>2
  <2>5. \A y \in Session \ {x} : session'[y].next # None => session'[y].next = session[y].next
    BY <2>1, <2>2
  <2> QED
    <3> SUFFICES ASSUME NEW y \in Session, session'[y].next # None
                 PROVE  /\ session'[y].next \in Session
                        /\ session'[session'[y].next].user # None
                        /\ session'[session'[y].next].login # session'[y].next
      BY DEF Successors, Issued
    <3>1. CASE y = x
      BY <3>1, <2>2, <2>3
    <3>2. CASE y # x
      BY <3>2, <2>4, <2>5 DEF Successors, Issued
    <3> QED
      BY <3>1, <3>2
<1>4. ASSUME NEW x \in Session, NEW asOf \in 0..now, Revoke(x, asOf)
      PROVE  Successors'
  <2> asOf \in Nat
    OBVIOUS
  <2>1. /\ session'[x] = [session[x] EXCEPT !.revoked = TRUE]
        /\ \A y \in Session \ {x} : session'[y] = session[y]
    BY <1>4, RevokedRow
  <2>2. \A y \in Session : /\ session'[y].user = session[y].user
                           /\ session'[y].next = session[y].next
                           /\ session'[y].login = session[y].login
    BY <2>1 DEF SessionTypeOK, SessionRow
  <2> QED
    BY <2>2 DEF Successors, Issued
<1> QED
  BY <1>1, <1>2, <1>3, <1>4 DEF SessionNext, Tick, sessionVars

(***************************************************************************)
(* Only a refresh gives an issued token a successor.                       *)
(***************************************************************************)
LEMMA OnlyRefreshRotates ==
    ASSUME SessionInv, Requests, NEW t \in Tab, ServeLogin(t) \/ ServeLogout(t),
           NEW s, Issued(s)
    PROVE  session'[s].next = session[s].next
<1> SessionTypeOK /\ s \in Session /\ {"login", "logout"} \subseteq Operation
  BY DEF SessionInv, Issued, Operation
<1>1. CASE UNCHANGED session
  BY <1>1
<1>2. ASSUME NEW asOf \in call[t]["login"].since..now, NEW x \in Session,
             AddSession(x, call[t]["login"].user, asOf), CallAt(t, "login", "sent")
      PROVE  session'[s].next = session[s].next
  <2>1. asOf \in Nat /\ call[t]["login"].user \in User
    BY <1>2, ClockRead DEF Requests
  <2>2. ~ Issued(x) /\ \A y \in Session \ {x} : session'[y] = session[y]
    BY <1>2, <2>1, AddedRow
  <2> QED
    BY <2>2
<1>3. ASSUME NEW asOf \in call[t]["logout"].since..now, Revoke(call[t]["logout"].token, asOf)
      PROVE  session'[s].next = session[s].next
  <2>1. asOf \in Nat
    BY ClockRead
  <2> PICK x : x = call[t]["logout"].token
    OBVIOUS
  <2>2. /\ session'[x] = [session[x] EXCEPT !.revoked = TRUE]
        /\ \A y \in Session \ {x} : session'[y] = session[y]
    BY <1>3, <2>1, RevokedRow
  <2> QED
    BY <2>2 DEF SessionTypeOK, SessionRow
<1> QED
  BY <1>1, <1>2, <1>3 DEF ServeLogin, ServeLogout

LEMMA LoginRootsStep ==
    ASSUME AuthInv, AuthInv', LoginRoots, [AuthNext]_authVars PROVE LoginRoots'
<1> SessionInv /\ Requests /\ [SessionNext]_sessionVars
  BY AuthSessionStep DEF AuthInv
<1>1. \A t \in Tab, op \in Operation : Answered(t, op) => Issued(call[t][op].issued)
  BY DEF AuthInv, FreshAnswers, Fresh
<1>2. CASE UNCHANGED <<call, lock, session>>
  BY <1>2 DEF LoginRoots, Answered, CallAt
<1>3. ASSUME NEW t \in Tab, NEW op \in Operation, OthersStay(t, op), Move(t, op),
             op = "login" /\ Answered(t, op)' =>
                 session'[call'[t][op].issued].login = call'[t][op].issued
      PROVE  LoginRoots'
  <2>1. Answered(t, op)' => op # "logout"
    BY <1>3 DEF Answered, CallAt, Move, Queues, IsSent, IsAnswered, Comes, Ends, NoCall
  <2>2. ASSUME NEW u \in Tab, NEW p \in Operation, u # t \/ p # op, Answered(u, p)'
        PROVE  /\ p # "logout"
               /\ p = "login" => session'[call'[u][p].issued].login = call'[u][p].issued
    <3>1. call'[u][p] = call[u][p] /\ Answered(u, p)
      BY <1>3, <2>2 DEF OthersStay, Answered, CallAt
    <3> QED
      BY <1>1, <3>1, IssuedStays DEF LoginRoots
  <2> QED
    BY <1>3, <2>1, <2>2 DEF LoginRoots
<1>4. ASSUME NEW t \in Tab, ServeLogin(t), Answered(t, "login")'
      PROVE  session'[call'[t]["login"].issued].login = call'[t]["login"].issued
  <2> /\ {"login"} \subseteq Operation
      /\ {"ok", "refused", "unavailable"} \subseteq AuthAnswer
    BY DEF Operation, AuthAnswer
  <2>1. PICK answer \in AuthAnswer, s \in Session \cup {None} :
          /\ Reply(t, "login", answer, s)
          /\ s # None => \E asOf \in call[t]["login"].since..now :
                             AddSession(s, call[t]["login"].user, asOf)
    BY <1>4 DEF ServeLogin, Unavailable
  <2>2. call'[t]["login"].issued = s
    BY <2>1, ReplyEffect
  <2>3. s # None
    BY <1>4, <2>2 DEF Answered
  <2>4. PICK asOf \in call[t]["login"].since..now : AddSession(s, call[t]["login"].user, asOf)
    BY <2>1, <2>3
  <2>5. session'[s].login = s
    BY <2>3, <2>4 DEF AddSession, SessionInv, SessionTypeOK
  <2> QED
    BY <2>2, <2>5
<1>5. ASSUME NEW t \in Tab, NEW op \in Operation, OthersStay(t, op), Move(t, op),
             op = "login", Answered(t, op)'
      PROVE  ServeLogin(t)
  <2>1. IsAnswered(t, op)
    BY <1>5 DEF Answered, CallAt, Move, Queues, IsSent, Comes, Ends, NoCall
  <2> QED
    BY <2>1, <1>5 DEF IsAnswered, Serves
<1> QED
  BY <1>2, <1>3, <1>4, <1>5, RequestsMove

(***************************************************************************)
(* No tab is refreshing while another holds the lock.                      *)
(***************************************************************************)
LEMMA LockExcludes ==
    ASSUME LockInOrder, NEW t \in Tab, NEW u \in Tab,
           Refreshing(t) \/ HoldsLock(t), Refreshing(u)
    PROVE  t = u
<1>1. Len(lock) # 0 /\ lock[1] = u
  BY FirstRefreshes
<1>2. lock[1] = t
  <2>1. CASE Refreshing(t)
    BY <2>1, FirstRefreshes
  <2>2. CASE HoldsLock(t)
    BY <2>2 DEF HoldsLock
  <2> QED
    BY <2>1, <2>2
<1> QED
  BY <1>1, <1>2

(***************************************************************************)
(* The tab that gets the lock finds the newest token in the jar: nobody    *)
(* else's answer with a successor is on its way.                           *)
(***************************************************************************)
LEMMA LockFindsNewest ==
    ASSUME LockInv, LockInOrder, NEW t \in Tab, HoldsLock(t),
           jar # None, session[jar].next # None
    PROVE  session[jar].next \in undelivered
<1> /\ CookieCurrent /\ jar \in Session /\ "refresh" \in Operation
    /\ Operation = {"refresh", "login", "logout"}
  BY DEF LockInv, BrowserInv, AuthInv, Requests, Operation
<1>1. Issued(session[jar].next) /\ session[session[jar].next].login # session[jar].next
  BY DEF LockInv, Successors
<1>2. ASSUME NEW u \in Tab, NEW op \in Operation, CallAt(u, op, "answered"),
             call[u][op].issued = session[jar].next
      PROVE  FALSE
  <2>1. Answered(u, op) /\ op = "refresh"
    BY <1>1, <1>2 DEF Answered, LockInv, LoginRoots
  <2>2. Refreshing(u)
    BY <1>2, <2>1 DEF Refreshing, Awaits, CallAt
  <2>3. u = t
    BY <2>2, LockExcludes
  <2> QED
    BY <1>2, <2>1, <2>3 DEF HoldsLock, CallAt
<1> QED
  BY <1>2 DEF CookieCurrent, OnTheWay

LEMMA RefusedKeepsRows ==
    ASSUME Requests, NEW t \in Tab, ServeRefresh(t),
           call'[t]["refresh"].answer = "refused"
    PROVE  UNCHANGED session
<1> /\ "refresh" \in Operation /\ None \in Session \cup {None}
    /\ {"ok", "expired", "refused", "unavailable"} \subseteq AuthAnswer
  BY DEF Operation, AuthAnswer
<1>1. ASSUME Unavailable(t, "refresh") PROVE FALSE
  BY <1>1, ReplyEffect DEF Unavailable
<1>2. ASSUME NEW s \in Session, Reply(t, "refresh", "ok", s) PROVE FALSE
  BY <1>2, ReplyEffect
<1> QED
  BY <1>1, <1>2 DEF ServeRefresh

LEMMA UndeliveredGrows ==
    ASSUME [AuthNext]_authVars PROVE undelivered \subseteq undelivered'
<1>1. ASSUME NEW t \in Tab, Serve(t) PROVE undelivered \subseteq undelivered'
  BY <1>1 DEF Serve, ServeRefresh, ServeLogin, ServeLogout
<1>2. ASSUME NEW t \in Tab, NEW op \in Operation, Lose(t, op)
      PROVE  undelivered \subseteq undelivered'
  BY <1>2 DEF Lose
<1> QED
  BY <1>1, <1>2 DEF AuthNext, Open, Grant, Login, Logout, Fetch, FetchEnds, Arrive,
       Truncate, Settle, SettleRefresh, SettleLogin, SettleLogout, AuthTick,
       CookieExpires, authVars

LEMMA NewestPresentedStep ==
    ASSUME LocksAvailable, LockInv, [AuthNext]_authVars
    PROVE  NewestPresented'
<1> /\ AuthInv /\ SessionInv /\ Requests /\ LockInOrder /\ NewestPresented
    /\ undelivered \subseteq undelivered' /\ "refresh" \in Operation
  BY UndeliveredGrows DEF LockInv, BrowserInv, AuthInv, Operation
<1>1. CASE UNCHANGED <<call, lock, session>>
  BY <1>1 DEF NewestPresented, Presents, CallAt
<1>2. ASSUME NEW t \in Tab, NEW op \in Operation, OthersStay(t, op), Move(t, op)
      PROVE  NewestPresented'
  <2> SUFFICES ASSUME NEW u \in Tab, Presents(u)', call'[u]["refresh"].token # None,
                      session'[call'[u]["refresh"].token].next # None
               PROVE  session'[call'[u]["refresh"].token].next \in undelivered'
    BY DEF NewestPresented
  <2> PICK token : token = call'[u]["refresh"].token
    OBVIOUS
  <2>1. CASE u = t /\ op = "refresh"
    <3>1. CASE IsSent(t, op)
      <4>1. token = jar /\ UNCHANGED session /\ HoldsLock(t)
        BY <2>1, <3>1 DEF IsSent
      <4> QED
        BY <4>1, LockFindsNewest
    <3>2. CASE IsAnswered(t, op)
      <4>1. /\ Presents(t) /\ token = call[t]["refresh"].token
            /\ ServeRefresh(t) /\ call'[t]["refresh"].answer = "refused"
        BY <2>1, <3>2 DEF IsAnswered, Serves, Presents, CallAt
      <4>2. UNCHANGED session
        BY <4>1, RefusedKeepsRows
      <4> QED
        BY <2>1, <4>1, <4>2 DEF NewestPresented
    <3> QED
      BY <1>2, <2>1, <3>1, <3>2 DEF Move, Queues, Comes, Ends, Presents, CallAt, NoCall
  <2>2. CASE ~ (u = t /\ op = "refresh")
    <3>1. call'[u]["refresh"] = call[u]["refresh"] /\ Presents(u) /\ Refreshing(u)
      BY <1>2, <2>2 DEF OthersStay, Presents, CallAt, Refreshing, Awaits
    <3>2. token = call[u]["refresh"].token /\ Issued(token)
      BY <3>1 DEF AuthInv, CookiesIssued
    <3>3. session'[token].next = session[token].next
      <4>1. CASE IsAnswered(t, op) /\ op = "refresh"
        <5>1. Refreshing(t)
          BY <4>1 DEF IsAnswered, Refreshing, Awaits, CallAt
        <5> QED
          BY <2>2, <3>1, <4>1, <5>1, LockExcludes
      <4>2. CASE IsAnswered(t, op) /\ op # "refresh"
        BY <3>2, <4>2, OnlyRefreshRotates DEF IsAnswered, Serves
      <4> QED
        BY <1>2, <4>1, <4>2 DEF Move, Queues, IsSent, Comes, Ends
    <3> QED
      BY <3>1, <3>2, <3>3 DEF NewestPresented
  <2> QED
    BY <2>1, <2>2
<1> QED
  BY <1>1, <1>2, RequestsMove

LEMMA LockStepInv ==
    ASSUME LocksAvailable PROVE LockInv /\ [AuthNext]_authVars => LockInv'
<1> SUFFICES ASSUME LockInv, [AuthNext]_authVars PROVE LockInv'
  OBVIOUS
<1> BrowserInv /\ AuthInv /\ SessionInv /\ Successors /\ LoginRoots
  BY DEF LockInv, BrowserInv, AuthInv
<1>1. BrowserInv' /\ AuthInv'
  BY BrowserStep DEF BrowserInv
<1>2. Successors'
  BY AuthSessionStep, SuccessorsStep
<1>3. LoginRoots'
  BY <1>1, LoginRootsStep
<1> QED
  BY <1>1, <1>2, <1>3, NewestPresentedStep DEF LockInv

(***************************************************************************)
(* TabsDoNotDefeatEachOther: where the browser has the Web Lock, a refresh *)
(* is refused for a rotated credential only if the answer with the         *)
(* successor was lost, however many tabs refresh, sign in and sign out.    *)
(***************************************************************************)
THEOREM TabsDoNotDefeatEachOther ==
    ASSUME LocksAvailable PROVE AuthSpec => []TabsSerialized
<1>1. LockInv => TabsSerialized
  BY DEF LockInv, NewestPresented, Presents, TabsSerialized, CallAt
<1>2. LockInv /\ [AuthNext]_authVars => LockInv'
  BY LockStepInv
<1> QED
  BY <1>1, <1>2, InitLockInv, PTL DEF AuthSpec
=============================================================================
