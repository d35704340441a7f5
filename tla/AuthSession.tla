----------------------------- MODULE AuthSession -----------------------------
(***************************************************************************)
(* One browser: its tabs, each with the session object that                *)
(* createAuthSession of frontend/src/auth/authSession.js returns, the      *)
(* refresh cookie they share, and the requests in flight to the /auth      *)
(* routes of backend/app/auth/router.py.                                   *)
(*                                                                         *)
(* A request carries the cookie the jar held when it was sent.  The answer *)
(* changes the jar when it arrives and the tab's snapshot when its script  *)
(* runs on, so requests and answers of several tabs overtake each other.   *)
(* Registration is login with a new user.                                  *)
(***************************************************************************)
EXTENDS RefreshSessions, Sequences, FiniteSets

CONSTANTS
    Tab,
    LocksAvailable,    \* whether the browser has navigator.locks
    MaxCalls,          \* bound on /auth requests in flight at once
    MaxTime,           \* bound on the clock
    MaxFetches,        \* bound on a tab's API requests in flight
    MaxDisruptions     \* bound on lost requests and answers and on 503s

ASSUME AuthAssumption ==
    /\ LocksAvailable \in BOOLEAN
    /\ MaxCalls \in Nat /\ MaxTime \in Nat /\ MaxFetches \in Nat /\ MaxDisruptions \in Nat

VARIABLES
    jar,           \* the token in the refresh cookie
    tab,           \* tab[t]: the snapshot its app renders, its requests in flight
    call,          \* call[t][op]: a request to /auth/<op>
    lock,          \* tabs that hold (the first) or await the Web Lock
    undelivered,   \* history: tokens issued whose Set-Cookie was lost
    disruptions

authVars == <<sessionVars, jar, tab, call, lock, undelivered, disruptions>>

TabStatus == {"closed", "loading", "unauthenticated", "authenticated"}
Operation == {"refresh", "login", "logout"}
CallPc == {"idle", "queued", "sent", "answered", "arrived"}
AuthAnswer == {"ok", "expired", "refused", "confirmed", "unavailable", "lost"}

ASSUME AnswerAssumption == None \notin AuthAnswer

TabState == [status: TabStatus, user: User \cup {None}, fetches: 0..MaxFetches]

(***************************************************************************)
(* `token` is the cookie sent, `issued` the token the answer sets, `since` *)
(* the time of sending and `user` whom a login names.                      *)
(***************************************************************************)
CallState == [pc: CallPc, token: Session \cup {None}, user: User \cup {None},
              since: Nat, answer: AuthAnswer \cup {None},
              issued: Session \cup {None}]

NoCall == [pc |-> "idle", token |-> None, user |-> None, since |-> 0,
           answer |-> None, issued |-> None]

AuthInit ==
    /\ SessionInit
    /\ jar = None
    /\ tab = [t \in Tab |-> [status |-> "closed", user |-> None, fetches |-> 0]]
    /\ call = [t \in Tab |-> [op \in Operation |-> NoCall]]
    /\ lock = <<>>
    /\ undelivered = {}
    /\ disruptions = 0

CallAt(t, op, pc) == call[t][op].pc = pc
SetCall(t, op, state) == call' = [call EXCEPT ![t][op] = state]
Send(t, op, user) ==
    SetCall(t, op, [NoCall EXCEPT !.pc = "sent", !.token = jar, !.since = now,
                                  !.user = user])
Reply(t, op, answer, issued) ==
    SetCall(t, op, [NoCall EXCEPT !.pc = "answered", !.token = call[t][op].token,
                                  !.answer = answer, !.issued = issued])

Room ==
    Cardinality({c \in Tab \X Operation : ~ CallAt(c[1], c[2], "idle")}) < MaxCalls

Disrupt == disruptions < MaxDisruptions /\ disruptions' = disruptions + 1

(***************************************************************************)
(* refresh() with no refresh pending: dispatch at once, or ask for the     *)
(* lock and dispatch when it is granted.                                   *)
(***************************************************************************)
StartRefresh(t) ==
    /\ CallAt(t, "refresh", "idle") /\ Room
    /\ IF LocksAvailable
       THEN /\ SetCall(t, "refresh", [NoCall EXCEPT !.pc = "queued"])
            /\ lock' = Append(lock, t)
       ELSE Send(t, "refresh", None) /\ UNCHANGED lock

(***************************************************************************)
(* AuthProvider mounts: bootstrap() restores the session from the cookie.  *)
(***************************************************************************)
Open(t) ==
    /\ tab[t].status = "closed"
    /\ tab' = [tab EXCEPT ![t].status = "loading"]
    /\ StartRefresh(t)
    /\ UNCHANGED <<sessionVars, jar, undelivered, disruptions>>

DispatchAtOnce(t) == CallAt(t, "refresh", "queued")

HoldsLock(t) == CallAt(t, "refresh", "queued") /\ Head(lock) = t

(***************************************************************************)
(* The lock manager grants the lock in the order of the requests.          *)
(***************************************************************************)
Grant(t) ==
    /\ HoldsLock(t)
    /\ Send(t, "refresh", None)
    /\ UNCHANGED <<sessionVars, jar, tab, lock, undelivered, disruptions>>

(***************************************************************************)
(* Only AuthScreen, shown to the unauthenticated, signs in, and only the   *)
(* authenticated app signs out; both disable their button meanwhile.       *)
(***************************************************************************)
Login(t, u) ==
    /\ tab[t].status = "unauthenticated"
    /\ CallAt(t, "login", "idle") /\ Room
    /\ Send(t, "login", u)
    /\ UNCHANGED <<sessionVars, jar, tab, lock, undelivered, disruptions>>

Logout(t) ==
    /\ tab[t].status = "authenticated"
    /\ CallAt(t, "logout", "idle") /\ Room
    /\ Send(t, "logout", None)
    /\ UNCHANGED <<sessionVars, jar, tab, lock, undelivered, disruptions>>

(***************************************************************************)
(* authenticatedFetch: a request ends, or its 401 starts a refresh or      *)
(* joins the one pending; the retry that follows changes no state here.    *)
(* The 401 may come after the tab has signed out.                          *)
(***************************************************************************)
Fetch(t) ==
    /\ tab[t].status = "authenticated"
    /\ tab[t].fetches < MaxFetches
    /\ tab' = [tab EXCEPT ![t].fetches = @ + 1]
    /\ UNCHANGED <<sessionVars, jar, call, lock, undelivered, disruptions>>

FetchEnds(t) ==
    /\ tab[t].fetches > 0
    /\ tab' = [tab EXCEPT ![t].fetches = @ - 1]
    /\ \/ UNCHANGED <<call, lock>>
       \/ StartRefresh(t)
    /\ UNCHANGED <<sessionVars, jar, undelivered, disruptions>>
-----------------------------------------------------------------------------
(***************************************************************************)
(* The routes.  `asOf` is when the transaction read its clock.  Any of     *)
(* them may answer 503; when the instance has no token left, that costs no *)
(* disruption.                                                             *)
(***************************************************************************)
Exhausted == \A s \in Session : Issued(s)

(***************************************************************************)
(* Unissued tokens are alike, so the next one drawn is any fixed one.      *)
(***************************************************************************)
NextToken(s) == ~ Issued(s) /\ s = CHOOSE x \in Session : ~ Issued(x)

Unavailable(t, op) ==
    /\ Disrupt \/ (Exhausted /\ UNCHANGED disruptions)
    /\ Reply(t, op, "unavailable", None)

ServeRefresh(t) ==
    /\ CallAt(t, "refresh", "sent")
    /\ \E asOf \in call[t]["refresh"].since..now :
         LET token == call[t]["refresh"].token
             verdict == Verdict(token, asOf)
         IN  \/ \E s \in Session :
                  /\ NextToken(s) /\ Rotate(token, s, asOf)
                  /\ \/ /\ Reply(t, "refresh", "ok", s)
                        /\ UNCHANGED <<undelivered, disruptions>>
                     \/ /\ Unavailable(t, "refresh")
                        /\ undelivered' = undelivered \cup {s}
             \/ /\ verdict # "active"
                /\ Reply(t, "refresh",
                         IF verdict = "expired" THEN "expired" ELSE "refused", None)
                /\ UNCHANGED <<session, undelivered, disruptions>>
             \/ /\ Unavailable(t, "refresh")
                /\ UNCHANGED <<session, undelivered>>
    /\ UNCHANGED <<now, jar, tab, lock>>

ServeLogin(t) ==
    /\ CallAt(t, "login", "sent")
    /\ \/ \E asOf \in call[t]["login"].since..now, s \in Session :
            /\ NextToken(s) /\ AddSession(s, call[t]["login"].user, asOf)
            /\ \/ /\ Reply(t, "login", "ok", s)
                  /\ UNCHANGED <<undelivered, disruptions>>
               \/ /\ Unavailable(t, "login")
                  /\ undelivered' = undelivered \cup {s}
       \/ /\ Reply(t, "login", "refused", None)
          /\ UNCHANGED <<session, undelivered, disruptions>>
       \/ /\ Unavailable(t, "login")
          /\ UNCHANGED <<session, undelivered>>
    /\ UNCHANGED <<now, jar, tab, lock>>

ServeLogout(t) ==
    /\ CallAt(t, "logout", "sent")
    /\ \E asOf \in call[t]["logout"].since..now :
         LET token == call[t]["logout"].token
         IN  \/ /\ \/ Revoke(token, asOf)
                   \/ Verdict(token, asOf) # "active" /\ UNCHANGED session
                /\ Reply(t, "logout", "confirmed", None)
                /\ UNCHANGED disruptions
             \/ /\ Revoke(token, asOf) \/ UNCHANGED session
                /\ Unavailable(t, "logout")
    /\ UNCHANGED <<now, jar, tab, lock, undelivered>>
-----------------------------------------------------------------------------
AnyRefusalClears(answer) == answer \in {"confirmed", "expired", "refused"}

(***************************************************************************)
(* Logout and an expired credential clear the cookie; a refused one does   *)
(* not.                                                                    *)
(***************************************************************************)
Clears(answer) == answer \in {"confirmed", "expired"}

CookieOfLoginsOnly(t, op) ==
    IF op = "login" /\ call[t][op].issued # None THEN call[t][op].issued
    ELSE IF Clears(call[t][op].answer) THEN None
    ELSE jar

CookieAfter(t, op) ==
    IF call[t][op].issued # None THEN call[t][op].issued
    ELSE IF Clears(call[t][op].answer) THEN None
    ELSE jar

(***************************************************************************)
(* The answer's headers reach the browser, or the request or the answer is *)
(* lost on the way.                                                        *)
(***************************************************************************)
Arrive(t, op) ==
    /\ CallAt(t, op, "answered")
    /\ jar' = CookieAfter(t, op)
    /\ SetCall(t, op, [call[t][op] EXCEPT !.pc = "arrived", !.token = None])
    /\ UNCHANGED <<sessionVars, tab, lock, undelivered, disruptions>>

Lose(t, op) ==
    /\ Disrupt
    /\ call[t][op].pc \in {"sent", "answered"}
    /\ undelivered' = undelivered \cup ({call[t][op].issued} \ {None})
    /\ SetCall(t, op, [NoCall EXCEPT !.pc = "arrived", !.answer = "lost"])
    /\ UNCHANGED <<sessionVars, jar, tab, lock>>

(***************************************************************************)
(* The body cannot be read although the cookie was set.                    *)
(***************************************************************************)
Truncate(t, op) ==
    /\ Disrupt
    /\ CallAt(t, op, "arrived") /\ call[t][op].answer # "lost"
    /\ SetCall(t, op, [NoCall EXCEPT !.pc = "arrived", !.answer = "lost"])
    /\ UNCHANGED <<sessionVars, jar, tab, lock, undelivered>>
-----------------------------------------------------------------------------
(***************************************************************************)
(* setAuthenticated and setUnauthenticated.                                *)
(***************************************************************************)
SignIn(t, op) ==
    tab' = [tab EXCEPT ![t].status = "authenticated",
                       ![t].user = session[call[t][op].issued].user]

KeepsUser(t) == tab' = [tab EXCEPT ![t].status = "unauthenticated"]

SignOut(t) == tab' = [tab EXCEPT ![t].status = "unauthenticated", ![t].user = None]

ReleasedOnSuccess(t) == IF call[t]["refresh"].answer = "ok" THEN Tail(lock) ELSE lock

(***************************************************************************)
(* The lock is held until the callback's promise, the request, settles.    *)
(***************************************************************************)
Released(t) == IF LocksAvailable THEN Tail(lock) ELSE lock

SettleRefresh(t) ==
    /\ CallAt(t, "refresh", "arrived")
    /\ IF call[t]["refresh"].answer = "ok" THEN SignIn(t, "refresh") ELSE SignOut(t)
    /\ lock' = Released(t)
    /\ SetCall(t, "refresh", NoCall)
    /\ UNCHANGED <<sessionVars, jar, undelivered, disruptions>>

SettleLogin(t) ==
    /\ CallAt(t, "login", "arrived")
    /\ IF call[t]["login"].answer = "ok" THEN SignIn(t, "login") ELSE UNCHANGED tab
    /\ SetCall(t, "login", NoCall)
    /\ UNCHANGED <<sessionVars, jar, lock, undelivered, disruptions>>

(***************************************************************************)
(* logout() signs the tab out whatever the answer was.                     *)
(***************************************************************************)
SettleLogout(t) ==
    /\ CallAt(t, "logout", "arrived")
    /\ SignOut(t)
    /\ SetCall(t, "logout", NoCall)
    /\ UNCHANGED <<sessionVars, jar, lock, undelivered, disruptions>>

(***************************************************************************)
(* Time passes; the browser drops the cookie at some time after its        *)
(* session expired (Max-Age counts from the answer's arrival).             *)
(***************************************************************************)
AuthTick ==
    /\ now < MaxTime
    /\ Tick
    /\ UNCHANGED <<jar, tab, call, lock, undelivered, disruptions>>

CookieExpires ==
    /\ jar # None
    /\ session[jar].expires <= now
    /\ jar' = None
    /\ UNCHANGED <<sessionVars, tab, call, lock, undelivered, disruptions>>

Serve(t) == ServeRefresh(t) \/ ServeLogin(t) \/ ServeLogout(t)
Settle(t) == SettleRefresh(t) \/ SettleLogin(t) \/ SettleLogout(t)

AuthNext ==
    \/ \E t \in Tab :
         \/ Open(t) \/ Grant(t) \/ Logout(t) \/ Fetch(t) \/ FetchEnds(t)
         \/ \E u \in User : Login(t, u)
         \/ Serve(t) \/ Settle(t)
         \/ \E op \in Operation : Arrive(t, op) \/ Lose(t, op) \/ Truncate(t, op)
    \/ AuthTick \/ CookieExpires

AuthSpec == AuthInit /\ [][AuthNext]_authVars

(***************************************************************************)
(* The server and the network answer every request in the end (the code    *)
(* sets no timeout), the browser grants a free lock and scripts run on.    *)
(***************************************************************************)
AuthFairness ==
    \A t \in Tab :
        /\ WF_authVars(Grant(t))
        /\ \A op \in Operation : WF_authVars(Arrive(t, op))
        /\ WF_authVars(ServeRefresh(t)) /\ WF_authVars(ServeLogin(t))
        /\ WF_authVars(ServeLogout(t))
        /\ WF_authVars(SettleRefresh(t)) /\ WF_authVars(SettleLogin(t))
        /\ WF_authVars(SettleLogout(t))

FairAuthSpec == AuthSpec /\ AuthFairness
-----------------------------------------------------------------------------
(***************************************************************************)
(* AuthTypeOK: the types, and a tab is authenticated just when it shows a  *)
(* user: no order of answers leaves one without the other                  *)
(* (setAuthenticated and setUnauthenticated in authSession.js).            *)
(***************************************************************************)
AuthTypeOK ==
    /\ SessionTypeOK
    /\ jar \in Session \cup {None}
    /\ tab \in [Tab -> TabState]
    /\ \A t \in Tab : tab[t].status = "authenticated" <=> tab[t].user # None
    /\ call \in [Tab -> [Operation -> CallState]]
    /\ lock \in Seq(Tab)
    /\ undelivered \subseteq Session
    /\ disruptions \in Nat

(***************************************************************************)
(* CookieCurrent: the cookie lags behind the server's rotation only while  *)
(* the answer with its successor is on the way, or after it was lost; no   *)
(* order of answers of several tabs brings back a rotated token.           *)
(***************************************************************************)
OnTheWay(s) ==
    \E t \in Tab, op \in Operation :
        CallAt(t, op, "answered") /\ call[t][op].issued = s

CookieCurrent ==
    jar # None /\ session[jar].next # None =>
        OnTheWay(session[jar].next) \/ session[jar].next \in undelivered

(***************************************************************************)
(* LateAnswerKeepsSuccessor: a late answer to a refresh never erases a     *)
(* cookie that still works and belongs to the login the refresh was for.   *)
(* (A cookie of a new login may be erased by a late "expired" answer.)     *)
(***************************************************************************)
Works(s) == Live(s) /\ session[s].expires > now

LateAnswerKeepsSuccessor ==
    [][\A t \in Tab :
         /\ Arrive(t, "refresh")
         /\ Works(jar) /\ SameLogin(jar, call[t]["refresh"].token)
         => jar' # None]_authVars

(***************************************************************************)
(* TabsSerialized: with the Web Lock, refreshes of the tabs do not defeat  *)
(* each other: one is refused for a rotated credential only if an answer   *)
(* with the successor was lost before.                                     *)
(***************************************************************************)
TabsSerialized ==
    \A t \in Tab :
        LET c == call[t]["refresh"]
        IN  c.pc = "answered" /\ c.answer = "refused" /\ c.token # None
            /\ session[c.token].next # None
            => session[c.token].next \in undelivered

(***************************************************************************)
(* RefreshSettles: every refresh ends, also one that waits for the lock    *)
(* behind others that fail, so no tab keeps restoring its session forever. *)
(***************************************************************************)
RefreshSettles ==
    \A t \in Tab : ~ CallAt(t, "refresh", "idle") ~> CallAt(t, "refresh", "idle")
=============================================================================
