---------------------------- MODULE AuthSessions ----------------------------
(***************************************************************************)
(* Sign-in sessions: the rows the server keeps (session.js), their refresh *)
(* tokens and their rotation (refresh in AuthController.js), what ends     *)
(* them (logout, resetPassword), the sockets signed in with them           *)
(* (websocketServer.js), and the phone that stores the tokens and shares   *)
(* one refresh between all that need it (AuthService.tsx,                  *)
(* AuthProvider.tsx, WebSocketClient.tsx).                                 *)
(*                                                                         *)
(* A refresh the phone has given up (timeout, restart) may still be        *)
(* carried out by the server, before or after newer ones.                  *)
(***************************************************************************)
EXTENDS Naturals, Sequences, FiniteSets

CONSTANTS
    Users,      \* the accounts
    NoUser,     \* the user of a signed-out phone
    MaxSess,    \* bound: sessions issued
    MaxTok,     \* bound: refresh tokens issued
    AuthFaults  \* bound: lost requests and replies, restarts of the app

ASSUME AuthAssumption ==
    /\ NoUser \notin Users
    /\ {MaxSess, MaxTok, AuthFaults} \subseteq Nat

VARIABLES
    \* the server
    owner,   \* the account of each session: a session is named by its position
    of,      \* the session of each refresh token: a token is named by its position
    rows,    \* the Session row of each session
    socks,   \* authenticated sockets, and those whose token is just being checked
    \* requests
    calls,   \* refreshes under way
    login,   \* the login under way
    req,     \* a request of the app under way
    \* the phone
    store,   \* SecureStore: access token (its session), refresh token, cached user
    user,    \* the user the app shows (AuthProvider)
    loading, \* the app has just been started
    leaving, \* logout has been sent, the tokens are not cleared yet
    flight,  \* refreshInFlight
    faults,
    \* history
    ended,   \* sessions ended because a replaced refresh token was presented
    missed,  \* sessions a refresh's reply of which was not stored
    overdue, \* sessions with a refresh carried out after the phone gave it up
    mixed,   \* a sign-in found work of an earlier one still under way
    strange  \* a request was carried out for another account than it was made by

serverVars == <<owner, of, rows, socks>>
requests == <<calls, login, req>>
authPhone == <<store, user, loading, leaving, flight>>
authHistory == <<ended, missed, overdue, mixed, strange>>
authVars == <<serverVars, requests, authPhone, faults, authHistory>>

Issued == DOMAIN owner
Tokens == DOMAIN of
Row == [live : BOOLEAN, cur : 1..MaxTok, prev : 0..MaxTok, fresh : BOOLEAN]
Call == [tok : 1..MaxTok, stage : {"sent", "read", "done"}, snap : 0..MaxTok, new : 0..MaxTok,
         live : BOOLEAN]
NoLogin == [stage |-> "none"]
NoReq == [stage |-> "none"]
Empty == [acc |-> 0, ref |-> 0, cached |-> NoUser]
NoFlight == [stage |-> "none"]

AuthTypeOK ==
    /\ owner \in Seq(Users) /\ Len(owner) <= MaxSess
    /\ of \in Seq(Issued) /\ Len(of) <= MaxTok
    /\ DOMAIN rows = Issued /\ \A s \in Issued : rows[s] \in Row
    /\ socks \subseteq [sid : Issued, stage : {"checked", "in"}, raced : BOOLEAN]
    /\ calls \subseteq Call
    /\ login.stage \in {"none", "checked", "issued", "half"}
    /\ req.stage \in {"none", "sent", "refreshing"}
    /\ store.acc \in Issued \cup {0} /\ store.ref \in Tokens \cup {0}
    /\ store.cached \in Users \cup {NoUser} /\ user \in Users \cup {NoUser}
    /\ loading \in BOOLEAN /\ leaving \in BOOLEAN
    /\ flight.stage \in {"none", "asked", "half"}
    /\ faults \in 0..AuthFaults
    /\ ended \subseteq Issued /\ missed \subseteq Issued /\ overdue \subseteq Issued
    /\ mixed \in BOOLEAN /\ strange \in BOOLEAN

AuthInit ==
    /\ owner = << >> /\ of = << >> /\ rows = << >> /\ socks = {}
    /\ calls = {} /\ login = NoLogin /\ req = NoReq
    /\ store = Empty /\ user = NoUser /\ loading = TRUE /\ leaving = FALSE
    /\ flight = NoFlight /\ faults = 0
    /\ ended = {} /\ missed = {} /\ overdue = {} /\ mixed = FALSE /\ strange = FALSE

-----------------------------------------------------------------------------
(* The server's rows and sockets *)

Live(s) == s \in Issued /\ rows[s].live

\* Mutant: the rows go, the sockets stay.
EndAllQuietly(ss) ==
    /\ rows' = [s \in Issued |-> [rows[s] EXCEPT !.live = @ /\ s \notin ss]]
    /\ UNCHANGED socks

\* Session.deleteOne or deleteMany, then disconnectSessions: it closes the
\* sockets it knows, not one whose token was found valid just before.
EndAll(ss) ==
    /\ rows' = [s \in Issued |-> [rows[s] EXCEPT !.live = @ /\ s \notin ss]]
    /\ socks' = {[k EXCEPT !.raced = k.raced \/ (k.sid \in ss /\ rows[k.sid].live)] :
                 k \in {k \in socks : k.sid \notin ss \/ k.stage = "checked"}}

Fault == faults < AuthFaults /\ faults' = faults + 1

\* Mutant: the cached user is not cleared.
ClearTokensOnly == store' = [Empty EXCEPT !.cached = store.cached]

\* clearToken
Clear == store' = Empty

\* signOutLocally: it also clears what a newer sign-in has stored.
SignOutLocally == Clear /\ user' = NoUser

-----------------------------------------------------------------------------
(* Signing in *)

\* login: the password is compared ...
LoginChecks(u) ==
    /\ user = NoUser /\ ~loading /\ login = NoLogin /\ Len(owner) < MaxSess
    /\ login' = [stage |-> "checked", user |-> u]
    /\ UNCHANGED <<serverVars, calls, req, authPhone, faults, authHistory>>

\* ... then issueSession creates the row.
LoginIssues ==
    /\ login.stage = "checked" /\ Len(of) < MaxTok
    /\ LET s == Len(owner) + 1
           t == Len(of) + 1 IN
        /\ owner' = Append(owner, login.user)
        /\ of' = Append(of, s)
        /\ rows' = Append(rows, [live |-> TRUE, cur |-> t, prev |-> 0, fresh |-> FALSE])
        /\ login' = [stage |-> "issued", user |-> login.user, sid |-> s, tok |-> t]
    /\ UNCHANGED <<socks, calls, req, authPhone, faults, authHistory>>

\* setTokens, first half
LoginStoresAccess ==
    /\ login.stage = "issued"
    /\ login' = [login EXCEPT !.stage = "half"]
    /\ store' = [store EXCEPT !.acc = login.sid]
    /\ mixed' = (mixed \/ flight # NoFlight \/ req # NoReq
              \/ store.acc # 0 \/ store.ref # 0)
    /\ UNCHANGED <<serverVars, calls, req, user, loading, leaving, flight, faults, ended, missed,
                   overdue, strange>>

\* its second half, cacheUser and setUser
LoginStoresRefresh ==
    /\ login.stage = "half"
    /\ login' = NoLogin
    /\ store' = [store EXCEPT !.ref = login.tok, !.cached = login.user]
    /\ user' = login.user
    /\ mixed' = (mixed \/ flight # NoFlight \/ req # NoReq)
    /\ UNCHANGED <<serverVars, calls, req, loading, leaving, flight, faults, ended, missed, overdue,
                   strange>>

\* The answer is lost: the row stays until it expires.
LoginFails ==
    /\ login.stage \in {"checked", "issued"} /\ Fault
    /\ login' = NoLogin
    /\ UNCHANGED <<serverVars, calls, req, authPhone, authHistory>>

-----------------------------------------------------------------------------
(* Refreshing: the phone                                                   *)

\* refreshAccessToken is called before a token expires, after a 401, and when the
\* socket is closed as unauthorized.
RefreshDue == store.acc # 0 \/ req.stage = "refreshing"

Asking(t) == [tok |-> t, stage |-> "sent", snap |-> 0, new |-> 0, live |-> TRUE]

\* Mutant: every caller makes a request of its own.
StartRefreshAlways ==
    /\ flight.stage # "half" /\ RefreshDue /\ store.ref # 0 /\ Cardinality(calls) < 2
    /\ flight' = [stage |-> "asked"]
    /\ calls' = calls \cup {Asking(store.ref)}
    /\ UNCHANGED <<serverVars, login, req, store, user, loading, leaving, faults, authHistory>>

\* refreshAccessToken with none in flight.
StartRefresh ==
    /\ flight = NoFlight /\ RefreshDue /\ store.ref # 0
    /\ flight' = [stage |-> "asked"]
    /\ calls' = calls \cup {Asking(store.ref)}
    /\ UNCHANGED <<serverVars, login, req, store, user, loading, leaving, faults, authHistory>>

\* A request that waits for the refresh fails with it.
ReqFailed == IF req.stage = "refreshing" THEN NoReq ELSE req

\* The same with no refresh token stored.
RefreshWithoutToken ==
    /\ flight = NoFlight /\ RefreshDue /\ store.ref = 0
    /\ SignOutLocally
    /\ req' = ReqFailed
    /\ UNCHANGED <<serverVars, calls, login, loading, leaving, flight, faults, authHistory>>

\* Ten seconds pass, or the connection breaks: the caller throws and the tokens
\* stay. The server may still be at it.
GiveUpRefresh(c) ==
    /\ c.live /\ Fault
    /\ flight' = NoFlight
    /\ calls' = (calls \ {c}) \cup (IF c.stage = "done" THEN {} ELSE {[c EXCEPT !.live = FALSE]})
    /\ missed' = missed \cup {of[c.tok]}
    /\ req' = ReqFailed
    /\ UNCHANGED <<serverVars, login, store, user, loading, leaving, ended, overdue, mixed,
                   strange>>

\* A given-up request never got there.
CallLost(c) ==
    /\ ~c.live /\ c.stage = "sent"
    /\ calls' = calls \ {c}
    /\ UNCHANGED <<serverVars, login, req, authPhone, faults, authHistory>>

\* setTokens, first half
RefreshStoresAccess(c) ==
    /\ c.live /\ c.stage = "done"
    /\ calls' = calls \ {c}
    /\ store' = [store EXCEPT !.acc = of[c.new]]
    /\ flight' = [stage |-> "half", tok |-> c.new]
    /\ UNCHANGED <<serverVars, login, req, user, loading, leaving, faults, authHistory>>

\* Its second half. A request that waited is repeated, with what is stored then.
RefreshStoresRefresh ==
    /\ flight.stage = "half"
    /\ store' = [store EXCEPT !.ref = flight.tok]
    /\ flight' = NoFlight
    /\ req' = IF req.stage # "refreshing" THEN req
              ELSE IF store.acc = 0 THEN NoReq
              ELSE [stage |-> "sent", sid |-> store.acc, by |-> req.by, retried |-> TRUE]
    /\ UNCHANGED <<serverVars, calls, login, user, loading, leaving, faults, authHistory>>

-----------------------------------------------------------------------------
(* Refreshing: the server *)

\* The refresh is answered 401: the phone signs out, if it still waits.
Refused(c) ==
    /\ calls' = calls \ {c}
    /\ IF c.live THEN SignOutLocally /\ flight' = NoFlight /\ req' = ReqFailed
                 ELSE UNCHANGED <<store, user, flight, req>>
    /\ UNCHANGED <<login, loading, leaving, faults>>

\* The row is gone or expired.
RefreshFindsNone(c) ==
    /\ c.stage = "sent" /\ ~Live(of[c.tok])
    /\ Refused(c)
    /\ UNCHANGED <<serverVars, authHistory>>

\* isCurrent, isRecentPrevious
IsCurrent(c) == c.tok = rows[of[c.tok]].cur
IsRecentPrevious(c) == c.tok = rows[of[c.tok]].prev /\ rows[of[c.tok]].fresh

\* An older token: taken for stolen, and the session ended.
RefreshFindsReplaced(c) ==
    /\ c.stage = "sent" /\ Live(of[c.tok])
    /\ ~IsCurrent(c) /\ ~IsRecentPrevious(c)
    /\ EndAll({of[c.tok]})
    /\ ended' = ended \cup {of[c.tok]}
    /\ Refused(c)
    /\ UNCHANGED <<owner, of, missed, overdue, mixed, strange>>

RefreshReads(c) ==
    /\ c.stage = "sent" /\ Live(of[c.tok])
    /\ IsCurrent(c) \/ IsRecentPrevious(c)
    /\ calls' = (calls \ {c}) \cup {[c EXCEPT !.stage = "read", !.snap = rows[of[c.tok]].cur]}
    /\ UNCHANGED <<serverVars, login, req, authPhone, faults, authHistory>>

\* Mutant: the write looks for the row by its id, and creates it when it is gone.
UnchangedUpsert(c) == TRUE

Unchanged(c) == Live(of[c.tok]) /\ rows[of[c.tok]].cur = c.snap

\* Mutant: the replaced token is not kept.
RefreshWritesOver(c) ==
    /\ c.stage = "read" /\ Unchanged(c) /\ Len(of) < MaxTok
    /\ of' = Append(of, of[c.tok])
    /\ rows' = [rows EXCEPT ![of[c.tok]].cur = Len(of) + 1]
    /\ calls' = (calls \ {c}) \cup
         (IF c.live THEN {[c EXCEPT !.stage = "done", !.new = Len(of) + 1]} ELSE {})
    /\ overdue' = IF c.live THEN overdue ELSE overdue \cup {of[c.tok]}
    /\ UNCHANGED <<owner, socks, login, req, authPhone, faults, ended, missed, mixed, strange>>

\* The conditional write: a retry in the grace period keeps `previous`.
RefreshWrites(c) ==
    /\ c.stage = "read" /\ Unchanged(c) /\ Len(of) < MaxTok
    /\ LET s == of[c.tok]
           t == Len(of) + 1 IN
        /\ of' = Append(of, s)
        /\ rows' = [rows EXCEPT ![s] =
             IF c.tok = c.snap
             THEN [live |-> TRUE, cur |-> t, prev |-> c.snap, fresh |-> TRUE]
             ELSE [@ EXCEPT !.live = TRUE, !.cur = t]]
        /\ calls' = (calls \ {c}) \cup
             (IF c.live THEN {[c EXCEPT !.stage = "done", !.new = t]} ELSE {})
        /\ overdue' = IF c.live THEN overdue ELSE overdue \cup {s}
    /\ UNCHANGED <<owner, socks, login, req, authPhone, faults, ended, missed, mixed, strange>>

\* Another refresh or the end of the session came in between: read again. (After
\* five times the answer is 409, which to the phone is one more GiveUpRefresh.)
RefreshAgain(c) ==
    /\ c.stage = "read" /\ ~Unchanged(c)
    /\ calls' = (calls \ {c}) \cup {[c EXCEPT !.stage = "sent", !.snap = 0]}
    /\ UNCHANGED <<serverVars, login, req, authPhone, faults, authHistory>>

\* REFRESH_GRACE_MS passes since rotatedAt.
GraceEnds(s) ==
    /\ rows[s].fresh
    /\ rows' = [rows EXCEPT ![s].fresh = FALSE]
    /\ UNCHANGED <<owner, of, socks, requests, authPhone, faults, authHistory>>

-----------------------------------------------------------------------------
(* Requests and sockets *)

\* The request interceptor adds the stored access token.
Ask ==
    /\ user # NoUser /\ req = NoReq /\ store.acc # 0
    /\ req' = [stage |-> "sent", sid |-> store.acc, by |-> user, retried |-> FALSE]
    /\ UNCHANGED <<serverVars, calls, login, authPhone, faults, authHistory>>

\* resolveAuthToken accepts the token, and the request is carried out.
Answered ==
    /\ req.stage = "sent" /\ Live(req.sid)
    /\ req' = NoReq
    /\ strange' = (strange \/ owner[req.sid] # req.by)
    /\ UNCHANGED <<serverVars, calls, login, authPhone, faults, ended, missed, overdue, mixed>>

\* 401: the token has expired or its session is gone. One refresh is tried for it,
\* or the one in flight waited for.
Unauthorized ==
    /\ req.stage = "sent" /\ ~req.retried
    /\ req' = [stage |-> "refreshing", by |-> req.by]
    /\ UNCHANGED <<serverVars, calls, login, authPhone, faults, authHistory>>

\* 401 again: the session has gone meanwhile.
UnauthorizedAgain ==
    /\ req.stage = "sent" /\ req.retried /\ ~Live(req.sid)
    /\ req' = NoReq
    /\ SignOutLocally
    /\ UNCHANGED <<serverVars, calls, login, loading, leaving, flight, faults, authHistory>>

\* A socket's first message is the token: it is looked up ...
SocketChecks ==
    /\ user # NoUser /\ Live(store.acc) /\ socks = {}
    /\ socks' = {[sid |-> store.acc, stage |-> "checked", raced |-> FALSE]}
    /\ UNCHANGED <<owner, of, rows, requests, authPhone, faults, authHistory>>

\* ... and the socket added to the user's.
SocketJoins(k) ==
    /\ k.stage = "checked"
    /\ socks' = (socks \ {k}) \cup {[k EXCEPT !.stage = "in"]}
    /\ UNCHANGED <<owner, of, rows, requests, authPhone, faults, authHistory>>

SocketCloses(k) ==
    /\ socks' = socks \ {k}
    /\ UNCHANGED <<owner, of, rows, requests, authPhone, faults, authHistory>>

-----------------------------------------------------------------------------
(* Signing out *)

\* The logout request: authMiddleware lets a live session through, and it is ended.
LogoutPosts ==
    /\ user # NoUser /\ ~leaving
    /\ leaving' = TRUE
    /\ EndAll({store.acc})
    /\ UNCHANGED <<owner, of, requests, store, user, loading, flight, faults, authHistory>>

\* The server is not reached, which is ignored.
LogoutUnreachable ==
    /\ user # NoUser /\ ~leaving /\ Fault
    /\ leaving' = TRUE
    /\ UNCHANGED <<serverVars, requests, store, user, loading, flight, authHistory>>

\* clearToken and setUser(null), whatever is in flight.
LogoutClears ==
    /\ leaving
    /\ leaving' = FALSE
    /\ SignOutLocally
    /\ UNCHANGED <<serverVars, requests, loading, flight, faults, authHistory>>

\* resetPassword or deleteAccount, from any device: every session is ended.
ResetPassword(u) ==
    /\ EndAll({s \in Issued : owner[s] = u})
    /\ UNCHANGED <<owner, of, requests, authPhone, faults, authHistory>>

\* The app is killed: memory goes, storage stays.
AppDies ==
    /\ Fault
    /\ user' = NoUser /\ loading' = TRUE /\ leaving' = FALSE /\ flight' = NoFlight
    /\ req' = NoReq /\ login' = NoLogin
    /\ calls' = {[c EXCEPT !.live = FALSE] : c \in {c \in calls : c.stage # "done"}}
    /\ missed' = missed \cup {of[c.tok] : c \in {c \in calls : c.live}}
                        \cup (IF flight.stage = "half" THEN {of[flight.tok]} ELSE {})
    /\ UNCHANGED <<serverVars, store, ended, overdue, mixed, strange>>

\* checkUser: the profile is read, or, offline, the cached user taken. (A refused
\* token first goes the way of StartRefresh.)
Boots(online) ==
    /\ loading /\ store.acc # 0
    /\ IF online
       THEN Live(store.acc) /\ user' = owner[store.acc] /\ store' = [store EXCEPT !.cached = user']
       ELSE store.cached # NoUser /\ user' = store.cached /\ UNCHANGED store
    /\ loading' = FALSE
    /\ UNCHANGED <<serverVars, requests, leaving, flight, faults, authHistory>>

\* No token, or an error: the sign-in screen, with the tokens kept.
BootsSignedOut ==
    /\ loading /\ (store.acc = 0 \/ store.cached = NoUser \/ faults < AuthFaults)
    /\ loading' = FALSE
    /\ UNCHANGED <<serverVars, requests, store, user, leaving, flight, faults, authHistory>>

-----------------------------------------------------------------------------
PhoneStep ==
    \/ LoginIssues \/ LoginStoresAccess \/ LoginStoresRefresh
    \/ StartRefresh \/ RefreshWithoutToken \/ RefreshStoresRefresh
    \/ \E c \in calls : RefreshStoresAccess(c)
    \/ Answered \/ UnauthorizedAgain \/ LogoutClears
    \/ \E k \in socks : SocketJoins(k)

RefreshStep ==
    \E c \in calls : RefreshFindsNone(c) \/ RefreshFindsReplaced(c) \/ RefreshReads(c)
                     \/ RefreshWrites(c) \/ RefreshAgain(c)

AuthNext ==
    \/ PhoneStep \/ RefreshStep
    \/ \E u \in Users : LoginChecks(u) \/ ResetPassword(u)
    \/ LoginFails
    \/ \E c \in calls : GiveUpRefresh(c) \/ CallLost(c)
    \/ \E s \in Issued : GraceEnds(s)
    \/ Ask \/ Unauthorized \/ SocketChecks \/ \E k \in socks : SocketCloses(k)
    \/ LogoutPosts \/ LogoutUnreachable \/ AppDies
    \/ BootsSignedOut \/ \E online \in BOOLEAN : Boots(online)

AuthSpec == AuthInit /\ [][AuthNext]_authVars

-----------------------------------------------------------------------------
(* Properties *)

\* The phone is not in the middle of storing tokens.
Settled == login = NoLogin /\ flight.stage # "half"

(***************************************************************************)
(* An honest phone's session ends as stolen only when a refresh's answer   *)
(* did not reach its storage: however many callers (interceptors, socket,  *)
(* start of the app) want a fresh token at once.                           *)
(***************************************************************************)
EndedOnlyWhenMissed == ended \subseteq missed

(***************************************************************************)
(* The refresh token a phone has stored is the current one or the one just *)
(* replaced, so a retry in the grace period succeeds, whatever was lost    *)
(* and wherever the app died; unless a refresh it had given up was carried *)
(* out after all.                                                          *)
(***************************************************************************)
StoredTokenIsUsable ==
    Settled /\ store.ref # 0 /\ Live(of[store.ref])
        => store.ref \in {rows[of[store.ref]].cur, rows[of[store.ref]].prev}
           \/ of[store.ref] \in overdue

(***************************************************************************)
(* The tokens a phone uses are those of the account it shows, and no       *)
(* request is carried out for another account than the one it was made by; *)
(* unless at a sign-in tokens, a refresh or a request of an earlier one    *)
(* were left. (An unauthorized request is repeated with the tokens of      *)
(* whoever has signed in since.)                                           *)
(***************************************************************************)
TokensAreUsers ==
    /\ user # NoUser /\ Settled /\ store.acc # 0 => owner[store.acc] = user \/ mixed
    /\ strange => mixed

(***************************************************************************)
(* After logout or a password reset no socket of the session receives      *)
(* messages, except one whose token was looked up just before.             *)
(***************************************************************************)
SocketsAreLive == \A k \in socks : k.stage = "in" => Live(k.sid) \/ k.raced

(***************************************************************************)
(* An ended session never comes back, whichever refresh was between its    *)
(* read and its write.                                                     *)
(***************************************************************************)
EndedStaysEnded == [][\A s \in Issued : ~rows[s].live => ~rows'[s].live]_authVars

=============================================================================
