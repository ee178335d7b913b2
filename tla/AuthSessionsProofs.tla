-------------------------- MODULE AuthSessionsProofs --------------------------
(***************************************************************************)
(* Machine-checked facts about AuthSessions, for every set of accounts and *)
(* every number of sessions, refresh tokens and faults.                    *)
(***************************************************************************)
EXTENDS AuthSessions, TLAPS

-----------------------------------------------------------------------------
(* Types *)

(***************************************************************************)
(* AuthTypeOK with the fields every record has: what is needed to know     *)
(* which session a login, a request or a refresh is about.                 *)
(***************************************************************************)
LoginType ==
    /\ login \in {NoLogin} \cup [stage : {"checked"}, user : Users]
                 \cup [stage : {"issued", "half"}, user : Users, sid : Issued, tok : Tokens]
    /\ login.stage = "checked" => Len(owner) < MaxSess

ReqType ==
    req \in {NoReq} \cup [stage : {"refreshing"}, by : Users]
            \cup [stage : {"sent"}, sid : Issued, by : Users, retried : BOOLEAN]

FlightType ==
    flight \in {NoFlight, [stage |-> "asked"]} \cup [stage : {"half"}, tok : Tokens]

CallsType ==
    /\ calls \subseteq [tok : Tokens, stage : {"sent", "read", "done"}, snap : Tokens \cup {0},
                        new : Tokens \cup {0}, live : BOOLEAN]
    /\ \A c \in calls : c.stage = "done" => c.new # 0

StoreType == store \in [acc : Issued \cup {0}, ref : Tokens \cup {0}, cached : Users \cup {NoUser}]

RowsType ==
    /\ owner \in Seq(Users) /\ Len(owner) <= MaxSess
    /\ of \in Seq(Issued) /\ Len(of) <= MaxTok
    /\ rows \in Seq([live : BOOLEAN, cur : Tokens, prev : Tokens \cup {0}, fresh : BOOLEAN])
    /\ Len(rows) = Len(owner)

SocksType == socks \subseteq [sid : Issued, stage : {"checked", "in"}, raced : BOOLEAN]

AppType ==
    /\ user \in Users \cup {NoUser} /\ loading \in BOOLEAN /\ leaving \in BOOLEAN
    /\ faults \in 0..AuthFaults

HistoryType ==
    /\ ended \subseteq Issued /\ missed \subseteq Issued /\ overdue \subseteq Issued
    /\ mixed \in BOOLEAN /\ strange \in BOOLEAN

Shapes ==
    /\ RowsType /\ SocksType /\ CallsType /\ LoginType /\ ReqType /\ FlightType /\ StoreType
    /\ AppType /\ HistoryType

LEMMA AuthBounds == MaxSess \in Nat /\ MaxTok \in Nat /\ AuthFaults \in Nat /\ NoUser \notin Users
BY AuthAssumption DEF AuthAssumption

LEMMA AppendOf ==
    ASSUME NEW S, NEW s \in Seq(S), NEW x \in S
    PROVE  /\ Append(s, x) \in Seq(S)
           /\ Len(Append(s, x)) = Len(s) + 1
           /\ DOMAIN Append(s, x) = DOMAIN s \cup {Len(s) + 1} /\ Len(s) + 1 \notin DOMAIN s
           /\ Append(s, x)[Len(s) + 1] = x
           /\ \A k \in DOMAIN s : Append(s, x)[k] = s[k]
OBVIOUS

\* A function on the positions of a sequence is a sequence.
LEMMA SameLength ==
    ASSUME NEW S, NEW T, NEW s \in Seq(S), NEW f \in [DOMAIN s -> T]
    PROVE  f \in Seq(T) /\ Len(f) = Len(s) /\ DOMAIN f = DOMAIN s
OBVIOUS

\* Tokens and sessions are positions; 0 is neither, and every session has a row.
LEMMA Positions ==
    ASSUME RowsType
    PROVE  /\ Issued = 1..Len(owner) /\ Tokens = 1..Len(of) /\ DOMAIN rows = Issued
           /\ 0 \notin Issued /\ 0 \notin Tokens
           /\ \A s \in Issued :
                /\ rows[s] \in [live : BOOLEAN, cur : Tokens, prev : Tokens \cup {0},
                                fresh : BOOLEAN]
                /\ owner[s] \in Users
           /\ \A t \in Tokens : of[t] \in Issued
<1>1. Issued = 1..Len(owner) /\ Tokens = 1..Len(of) /\ Len(owner) \in Nat /\ Len(of) \in Nat
  BY DEF RowsType, Issued, Tokens
<1>2. 0 \notin Issued /\ 0 \notin Tokens /\ DOMAIN rows = Issued
  BY <1>1 DEF RowsType
<1>3. \A s \in Issued : owner[s] \in Users
  BY <1>1 DEF RowsType
<1>4. \A t \in Tokens : of[t] \in Issued
  <2>1. of \in Seq(Issued)
    BY DEF RowsType
  <2>2. \A t \in 1..Len(of) : of[t] \in Issued
    BY ONLY <2>1
  <2> QED BY ONLY <1>1, <2>2
<1>5. \A s \in Issued : rows[s] \in [live : BOOLEAN, cur : Tokens, prev : Tokens \cup {0},
                                     fresh : BOOLEAN]
  <2> DEFINE RowSet == [live : BOOLEAN, cur : Tokens, prev : Tokens \cup {0}, fresh : BOOLEAN]
  <2>1. rows \in Seq(RowSet)
    BY DEF RowsType
  <2> HIDE DEF RowSet
  <2>2. \A s \in Issued : rows[s] \in RowSet
    BY <1>2, <2>1
  <2> QED BY <2>2 DEF RowSet
<1> QED BY <1>1, <1>2, <1>3, <1>4, <1>5

\* Nothing of what was issued is forgotten.
AuthGrows ==
    /\ Issued \subseteq Issued' /\ Tokens \subseteq Tokens'
    /\ \A s \in Issued : owner'[s] = owner[s]
    /\ \A t \in Tokens : of'[t] = of[t]

\* The end of sessions: their rows die, and the others stay as they are.
LEMMA EndAllRows ==
    ASSUME Shapes, NEW ss, EndAll(ss), UNCHANGED <<owner, of>>
    PROVE  /\ RowsType' /\ SocksType'
           /\ \A s \in Issued : /\ rows'[s].live = (rows[s].live /\ s \notin ss)
                                /\ rows'[s].cur = rows[s].cur /\ rows'[s].prev = rows[s].prev
<1>1. RowsType /\ SocksType
  BY DEF Shapes
<1> DEFINE RowSet == [live : BOOLEAN, cur : Tokens, prev : Tokens \cup {0}, fresh : BOOLEAN]
<1>2. rows \in Seq(RowSet) /\ DOMAIN rows = Issued /\ \A s \in Issued : rows[s] \in RowSet
  BY <1>1, Positions DEF RowsType
<1>3. rows' = [s \in Issued |-> [rows[s] EXCEPT !.live = @ /\ s \notin ss]]
  BY DEF EndAll
<1>4. rows' \in [DOMAIN rows -> RowSet]
  BY <1>2, <1>3
<1>8. \A s \in Issued : /\ rows'[s].live = (rows[s].live /\ s \notin ss)
                       /\ rows'[s].cur = rows[s].cur /\ rows'[s].prev = rows[s].prev
  BY <1>2, <1>3
<1> HIDE DEF RowSet
<1>5. rows' \in Seq(RowSet) /\ Len(rows') = Len(rows)
  BY <1>2, <1>4, SameLength
<1>6. RowsType'
  BY <1>1, <1>5 DEF RowsType, RowSet, Issued, Tokens
<1>7. SocksType'
  <2> SUFFICES ASSUME NEW j \in socks'
               PROVE  j \in [sid : Issued, stage : {"checked", "in"}, raced : BOOLEAN]
    BY DEF SocksType, Issued
  <2>1. PICK k \in socks : j = [k EXCEPT !.raced = k.raced \/ (k.sid \in ss /\ rows[k.sid].live)]
    BY DEF EndAll
  <2>2. k \in [sid : Issued, stage : {"checked", "in"}, raced : BOOLEAN]
    BY <1>1 DEF SocksType
  <2>3. (k.raced \/ (k.sid \in ss /\ rows[k.sid].live)) \in BOOLEAN
    OBVIOUS
  <2> QED BY <2>1, <2>2, <2>3
<1> QED BY <1>6, <1>7, <1>8

\* A new session and its first token.
LEMMA IssuedRows ==
    ASSUME Shapes, LoginIssues
    PROVE  /\ RowsType' /\ AuthGrows
           /\ \A s \in Issued : rows'[s] = rows[s]
           /\ Issued' = Issued \cup {Len(owner) + 1} /\ Len(owner) + 1 \notin Issued
           /\ Tokens' = Tokens \cup {Len(of) + 1} /\ Len(of) + 1 \notin Tokens
           /\ owner'[Len(owner) + 1] = login.user /\ of'[Len(of) + 1] = Len(owner) + 1
           /\ rows'[Len(owner) + 1].cur = Len(of) + 1
           /\ login \in [stage : {"checked"}, user : Users]
<1>1. RowsType /\ LoginType
  BY DEF Shapes
<1> DEFINE s == Len(owner) + 1
           t == Len(of) + 1
           r == [live |-> TRUE, cur |-> t, prev |-> 0, fresh |-> FALSE]
           RowSet == [live : BOOLEAN, cur : Tokens, prev : Tokens \cup {0}, fresh : BOOLEAN]
           NewRowSet == [live : BOOLEAN, cur : Tokens', prev : Tokens' \cup {0}, fresh : BOOLEAN]
<1>2. /\ owner' = Append(owner, login.user) /\ of' = Append(of, s) /\ rows' = Append(rows, r)
      /\ login.stage = "checked" /\ Len(of) < MaxTok
  BY DEF LoginIssues
<1>3. login \in [stage : {"checked"}, user : Users] /\ login.user \in Users /\ Len(owner) < MaxSess
  BY <1>1, <1>2 DEF LoginType, NoLogin
<1>4. /\ owner' \in Seq(Users) /\ Len(owner') = s /\ Issued' = Issued \cup {s} /\ s \notin Issued
      /\ owner'[s] = login.user /\ \A k \in Issued : owner'[k] = owner[k]
  BY <1>1, <1>2, <1>3, AppendOf DEF RowsType, Issued
<1>5. of \in Seq(Issued') /\ s \in Issued'
  BY <1>1, <1>4 DEF RowsType
<1>6. /\ of' \in Seq(Issued') /\ Len(of') = t /\ Tokens' = Tokens \cup {t} /\ t \notin Tokens
      /\ of'[t] = s /\ \A k \in Tokens : of'[k] = of[k]
  BY <1>2, <1>5, AppendOf DEF Tokens
<1>7. r \in NewRowSet /\ r.cur = t /\ RowSet \subseteq NewRowSet /\ rows \in Seq(RowSet)
  BY <1>1, <1>6 DEF RowsType
<1> HIDE DEF RowSet, NewRowSet, r
<1>8. rows \in Seq(NewRowSet)
  BY <1>7
<1>9. /\ rows' \in Seq(NewRowSet) /\ Len(rows') = Len(rows) + 1 /\ rows'[Len(rows) + 1] = r
      /\ \A k \in DOMAIN rows : rows'[k] = rows[k]
  BY <1>2, <1>7, <1>8, AppendOf
<1>10. Len(rows) = Len(owner) /\ DOMAIN rows = Issued
  BY <1>1, Positions DEF RowsType
<1>11. RowsType'
  <2>1. Len(owner') <= MaxSess /\ Len(of') <= MaxTok /\ Len(rows') = Len(owner')
    BY <1>1, <1>2, <1>3, <1>4, <1>6, <1>9, <1>10, AuthBounds DEF RowsType
  <2> QED BY <1>4, <1>6, <1>9, <2>1 DEF RowsType, NewRowSet
<1> QED BY <1>3, <1>4, <1>6, <1>7, <1>9, <1>10, <1>11 DEF AuthGrows

\* A refresh's write: a new token of the session, and a row that was live before.
LEMMA WrittenRows ==
    ASSUME Shapes, NEW c \in calls, RefreshWrites(c)
    PROVE  /\ RowsType' /\ AuthGrows /\ UNCHANGED owner
           /\ Tokens' = Tokens \cup {Len(of) + 1} /\ Len(of) + 1 \notin Tokens
           /\ of'[Len(of) + 1] = of[c.tok] /\ c.tok \in Tokens /\ of[c.tok] \in Issued
           /\ \A s \in Issued \ {of[c.tok]} : rows'[s] = rows[s]
           /\ rows[of[c.tok]].live /\ rows[of[c.tok]].cur = c.snap
           /\ rows'[of[c.tok]].live /\ rows'[of[c.tok]].cur = Len(of) + 1
           /\ rows'[of[c.tok]].prev = IF c.tok = c.snap THEN c.snap ELSE rows[of[c.tok]].prev
<1>1. RowsType /\ CallsType
  BY DEF Shapes
<1> DEFINE s == of[c.tok]
           t == Len(of) + 1
           r == IF c.tok = c.snap
                THEN [live |-> TRUE, cur |-> t, prev |-> c.snap, fresh |-> TRUE]
                ELSE [rows[s] EXCEPT !.live = TRUE, !.cur = t]
           RowSet == [live : BOOLEAN, cur : Tokens, prev : Tokens \cup {0}, fresh : BOOLEAN]
           NewRowSet == [live : BOOLEAN, cur : Tokens', prev : Tokens' \cup {0}, fresh : BOOLEAN]
<1>2. /\ of' = Append(of, s) /\ rows' = [rows EXCEPT ![s] = r] /\ UNCHANGED owner
      /\ rows[s].live /\ rows[s].cur = c.snap /\ Len(of) < MaxTok
  BY DEF RefreshWrites, Unchanged, Live
<1>3. c.tok \in Tokens /\ c.snap \in Tokens \cup {0} /\ s \in Issued /\ s \in DOMAIN rows
      /\ rows[s] \in RowSet
  BY <1>1, Positions DEF CallsType
<1>4. of \in Seq(Issued) /\ UNCHANGED Issued
  BY <1>1, <1>2 DEF RowsType, Issued
<1>5. /\ of' \in Seq(Issued) /\ Len(of') = t /\ Tokens' = Tokens \cup {t} /\ t \notin Tokens
      /\ of'[t] = s /\ \A k \in Tokens : of'[k] = of[k]
  BY <1>2, <1>3, <1>4, AppendOf DEF Tokens
<1>6. /\ r \in NewRowSet /\ RowSet \subseteq NewRowSet /\ rows \in Seq(RowSet)
      /\ r.live /\ r.cur = t /\ r.prev = IF c.tok = c.snap THEN c.snap ELSE rows[s].prev
  BY <1>1, <1>3, <1>5 DEF RowsType
<1> HIDE DEF RowSet, NewRowSet, r
<1>7. rows' \in [DOMAIN rows -> NewRowSet] /\ rows'[s] = r
      /\ \A k \in Issued \ {s} : rows'[k] = rows[k]
  BY <1>1, <1>2, <1>3, <1>6, Positions
<1>8. rows' \in Seq(NewRowSet) /\ Len(rows') = Len(rows)
  BY <1>6, <1>7, SameLength
<1>9. RowsType'
  <2>1. Len(owner') <= MaxSess /\ Len(of') <= MaxTok /\ Len(rows') = Len(owner')
    BY <1>1, <1>2, <1>5, <1>8, AuthBounds DEF RowsType
  <2>2. owner' \in Seq(Users) /\ of' \in Seq(Issued')
    BY <1>1, <1>2, <1>4, <1>5 DEF RowsType
  <2> QED BY <1>8, <2>1, <2>2 DEF RowsType, NewRowSet
<1> QED BY <1>2, <1>3, <1>4, <1>5, <1>6, <1>7, <1>9 DEF AuthGrows

LEMMA GraceRows ==
    ASSUME Shapes, NEW s \in Issued, GraceEnds(s)
    PROVE  /\ RowsType' /\ UNCHANGED <<owner, of>>
           /\ \A k \in Issued : /\ rows'[k].live = rows[k].live
                                /\ rows'[k].cur = rows[k].cur /\ rows'[k].prev = rows[k].prev
<1> DEFINE RowSet == [live : BOOLEAN, cur : Tokens, prev : Tokens \cup {0}, fresh : BOOLEAN]
<1>1. RowsType /\ rows' = [rows EXCEPT ![s].fresh = FALSE] /\ UNCHANGED <<owner, of>>
  BY DEF Shapes, GraceEnds
<1>2. rows \in Seq(RowSet) /\ DOMAIN rows = Issued /\ \A k \in Issued : rows[k] \in RowSet
  BY <1>1, Positions DEF RowsType
<1>3. rows' \in [DOMAIN rows -> RowSet]
  BY <1>1, <1>2
<1>4. \A k \in Issued : /\ rows'[k].live = rows[k].live
                       /\ rows'[k].cur = rows[k].cur /\ rows'[k].prev = rows[k].prev
  BY <1>1, <1>2
<1> HIDE DEF RowSet
<1>5. rows' \in Seq(RowSet) /\ Len(rows') = Len(rows)
  BY <1>2, <1>3, SameLength
<1>6. RowsType'
  BY <1>1, <1>5 DEF RowsType, RowSet, Issued, Tokens
<1> QED BY <1>1, <1>4, <1>6

\* What any step does to the rows: in particular, none brings one back to life.
LEMMA RowsStep ==
    ASSUME Shapes, [AuthNext]_authVars
    PROVE  /\ RowsType' /\ AuthGrows
           /\ \A s \in Issued : rows'[s].live => rows[s].live
           /\ \/ LoginIssues \/ \E c \in calls : RefreshWrites(c)
              \/ /\ UNCHANGED <<owner, of>>
                 /\ \A s \in Issued : rows'[s].cur = rows[s].cur /\ rows'[s].prev = rows[s].prev
<1>1. RowsType
  BY DEF Shapes
<1>2. CASE LoginIssues
  BY <1>2, IssuedRows
<1>3. ASSUME NEW c \in calls, RefreshWrites(c)
      PROVE  RowsType' /\ AuthGrows /\ \A s \in Issued : rows'[s].live => rows[s].live
  BY <1>3, WrittenRows
<1>4. ASSUME NEW ss, EndAll(ss), UNCHANGED <<owner, of>>
      PROVE  /\ RowsType' /\ AuthGrows
             /\ \A s \in Issued : /\ rows'[s].live => rows[s].live
                                  /\ rows'[s].cur = rows[s].cur /\ rows'[s].prev = rows[s].prev
  BY <1>4, EndAllRows DEF AuthGrows, Issued, Tokens
<1>5. ASSUME NEW s \in Issued, GraceEnds(s)
      PROVE  /\ RowsType' /\ AuthGrows /\ UNCHANGED <<owner, of>>
             /\ \A k \in Issued : /\ rows'[k].live => rows[k].live
                                  /\ rows'[k].cur = rows[k].cur /\ rows'[k].prev = rows[k].prev
  BY <1>5, GraceRows DEF AuthGrows, Issued, Tokens
<1>6. CASE UNCHANGED <<owner, of, rows>>
  BY <1>1, <1>6 DEF RowsType, AuthGrows, Issued, Tokens
<1>7. \/ LoginIssues \/ \E c \in calls : RefreshWrites(c)
      \/ \E ss : EndAll(ss) /\ UNCHANGED <<owner, of>>
      \/ \E s \in Issued : GraceEnds(s)
      \/ UNCHANGED <<owner, of, rows>>
  <2>1. CASE PhoneStep
    BY <2>1 DEF PhoneStep, LoginStoresAccess, LoginStoresRefresh, StartRefresh, RefreshWithoutToken,
       RefreshStoresRefresh, RefreshStoresAccess, Answered, UnauthorizedAgain, LogoutClears,
       SocketJoins, serverVars
  <2>2. CASE RefreshStep
    BY <2>2 DEF RefreshStep, RefreshFindsNone, RefreshFindsReplaced, RefreshReads, RefreshAgain,
       serverVars
  <2>3. ASSUME \/ \E u \in Users : LoginChecks(u) \/ ResetPassword(u)
               \/ LoginFails \/ \E c \in calls : GiveUpRefresh(c) \/ CallLost(c)
               \/ Ask \/ Unauthorized \/ SocketChecks \/ \E k \in socks : SocketCloses(k)
               \/ LogoutPosts \/ LogoutUnreachable \/ AppDies
               \/ BootsSignedOut \/ \E online \in BOOLEAN : Boots(online)
        PROVE  (\E ss : EndAll(ss) /\ UNCHANGED <<owner, of>>) \/ UNCHANGED <<owner, of, rows>>
    BY <2>3 DEF LoginChecks, ResetPassword, LoginFails, GiveUpRefresh, CallLost, Ask, Unauthorized,
       SocketChecks, SocketCloses, LogoutPosts, LogoutUnreachable, AppDies, BootsSignedOut, Boots,
       serverVars
  <2>4. UNCHANGED authVars => UNCHANGED <<owner, of, rows>>
    BY DEF authVars, serverVars
  <2> QED BY <2>1, <2>2, <2>3, <2>4 DEF AuthNext
<1> QED BY <1>2, <1>3, <1>4, <1>5, <1>6, <1>7

LEMMA LoginStep ==
    ASSUME Shapes, AuthGrows, [AuthNext]_authVars
    PROVE  LoginType'
<1> USE DEF Shapes
<1>1. CASE UNCHANGED <<login, owner>>
  BY <1>1 DEF LoginType, AuthGrows
<1>2. CASE login' = NoLogin
  BY <1>2 DEF LoginType, NoLogin
<1>3. ASSUME NEW u \in Users, LoginChecks(u) PROVE LoginType'
  <2>1. login' \in [stage : {"checked"}, user : Users] /\ Len(owner) < MaxSess /\ UNCHANGED owner
    BY <1>3 DEF LoginChecks, serverVars
  <2> QED BY <2>1 DEF LoginType
<1>4. CASE LoginIssues
  <2>1. login.user \in Users /\ Len(owner) + 1 \in Issued' /\ Len(of) + 1 \in Tokens'
    BY <1>4, IssuedRows
  <2>2. login' = [stage |-> "issued", user |-> login.user, sid |-> Len(owner) + 1,
                  tok |-> Len(of) + 1]
    BY <1>4 DEF LoginIssues
  <2> QED BY <2>1, <2>2 DEF LoginType
<1>5. CASE LoginStoresAccess
  <2>1. login.stage = "issued" /\ login' = [login EXCEPT !.stage = "half"]
    BY <1>5 DEF LoginStoresAccess
  <2>2. login \in [stage : {"issued", "half"}, user : Users, sid : Issued, tok : Tokens]
    BY <2>1 DEF LoginType, NoLogin
  <2>3. login' \in [stage : {"issued", "half"}, user : Users, sid : Issued', tok : Tokens']
        /\ login'.stage = "half"
    BY <2>1, <2>2 DEF AuthGrows
  <2> QED BY <2>3 DEF LoginType
<1>6. CASE PhoneStep
  <2>1. LoginStoresRefresh => login' = NoLogin
    BY DEF LoginStoresRefresh
  <2>2. ASSUME \/ StartRefresh \/ RefreshWithoutToken \/ RefreshStoresRefresh
               \/ \E c \in calls : RefreshStoresAccess(c)
               \/ Answered \/ UnauthorizedAgain \/ LogoutClears \/ \E k \in socks : SocketJoins(k)
        PROVE  UNCHANGED <<login, owner>>
    BY <2>2 DEF StartRefresh, RefreshWithoutToken, RefreshStoresRefresh, RefreshStoresAccess,
       Answered, UnauthorizedAgain, LogoutClears, SocketJoins, serverVars, requests
  <2> QED BY <1>1, <1>2, <1>4, <1>5, <1>6, <2>1, <2>2 DEF PhoneStep
<1>7. RefreshStep => UNCHANGED <<login, owner>>
  BY DEF RefreshStep, RefreshFindsNone, RefreshFindsReplaced, RefreshReads, RefreshWrites,
     RefreshAgain, Refused, serverVars
<1>8. ASSUME \/ \E u \in Users : ResetPassword(u)
             \/ LoginFails \/ \E c \in calls : GiveUpRefresh(c) \/ CallLost(c)
             \/ \E s \in Issued : GraceEnds(s)
             \/ Ask \/ Unauthorized \/ SocketChecks \/ \E k \in socks : SocketCloses(k)
             \/ LogoutPosts \/ LogoutUnreachable \/ AppDies
             \/ BootsSignedOut \/ \E online \in BOOLEAN : Boots(online)
             \/ UNCHANGED authVars
      PROVE  UNCHANGED <<login, owner>> \/ login' = NoLogin
  BY <1>8 DEF ResetPassword, LoginFails, GiveUpRefresh, CallLost, GraceEnds, Ask, Unauthorized,
     SocketChecks, SocketCloses, LogoutPosts, LogoutUnreachable, AppDies, BootsSignedOut, Boots,
     serverVars, requests, authVars
<1> QED BY <1>1, <1>2, <1>3, <1>6, <1>7, <1>8 DEF AuthNext

CallOf(T) == [tok : T, stage : {"sent", "read", "done"}, snap : T \cup {0}, new : T \cup {0},
              live : BOOLEAN]

\* How the calls change: one goes, one comes, or one goes on.
LEMMA CallsStep ==
    ASSUME Shapes, AuthGrows, [AuthNext]_authVars
    PROVE  CallsType'
<1>1. /\ calls \subseteq CallOf(Tokens') /\ \A c \in calls : c.stage = "done" => c.new # 0
      /\ calls \subseteq CallOf(Tokens) /\ 0 \notin Tokens
  <2>1. calls \subseteq CallOf(Tokens)
    BY DEF Shapes, CallsType, CallOf
  <2>2. CallOf(Tokens) \subseteq CallOf(Tokens')
    BY DEF AuthGrows, CallOf
  <2> QED BY <2>1, <2>2, Positions DEF Shapes, CallsType
<1> SUFFICES ASSUME NEW d \in calls'
             PROVE  d \in CallOf(Tokens') /\ (d.stage = "done" => d.new # 0)
  BY DEF CallsType, CallOf, Tokens
<1>2. CASE d \in calls
  BY <1>1, <1>2
<1>3. CASE StartRefresh /\ d = Asking(store.ref)
  <2>1. store.ref \in Tokens'
    BY <1>3 DEF StartRefresh, Shapes, StoreType, AuthGrows
  <2> QED BY <1>3, <2>1 DEF Asking, CallOf
<1>4. ASSUME NEW c \in calls, d = [c EXCEPT !.live = FALSE]
      PROVE  d \in CallOf(Tokens') /\ (d.stage = "done" => d.new # 0)
  <2>1. c \in CallOf(Tokens')
    BY <1>1
  <2>2. d \in CallOf(Tokens') /\ d.stage = c.stage /\ d.new = c.new
    BY <1>4, <2>1 DEF CallOf
  <2> QED BY <1>1, <2>2
<1>5. ASSUME NEW c \in calls, RefreshReads(c), d \notin calls
      PROVE  d \in CallOf(Tokens') /\ (d.stage = "done" => d.new # 0)
  <2>1. d = [c EXCEPT !.stage = "read", !.snap = rows[of[c.tok]].cur]
    BY <1>5 DEF RefreshReads
  <2>2. c.tok \in Tokens /\ c \in CallOf(Tokens') /\ RowsType
    BY <1>1 DEF CallOf, Shapes
  <2>3. rows[of[c.tok]].cur \in Tokens'
    BY <2>2, Positions DEF AuthGrows
  <2> QED BY <2>1, <2>2, <2>3 DEF CallOf
<1>6. ASSUME NEW c \in calls, RefreshWrites(c), d \notin calls
      PROVE  d \in CallOf(Tokens') /\ (d.stage = "done" => d.new # 0)
  <2>1. d = [c EXCEPT !.stage = "done", !.new = Len(of) + 1]
    BY <1>6 DEF RefreshWrites
  <2>2. c \in CallOf(Tokens') /\ Len(of) + 1 \in Tokens' /\ Len(of) + 1 # 0
    BY <1>1, <1>6, WrittenRows, Positions DEF Shapes
  <2> QED BY <2>1, <2>2 DEF CallOf
<1>7. ASSUME NEW c \in calls, RefreshAgain(c), d \notin calls
      PROVE  d \in CallOf(Tokens') /\ (d.stage = "done" => d.new # 0)
  <2>1. d = [c EXCEPT !.stage = "sent", !.snap = 0] /\ c \in CallOf(Tokens')
    BY <1>1, <1>7 DEF RefreshAgain
  <2> QED BY <2>1 DEF CallOf
<1>8. CASE PhoneStep
  BY <1>2, <1>3, <1>8
     DEF PhoneStep, LoginIssues, LoginStoresAccess, LoginStoresRefresh, StartRefresh,
     RefreshWithoutToken, RefreshStoresRefresh, RefreshStoresAccess, Answered, UnauthorizedAgain,
     LogoutClears, SocketJoins, requests
<1>9. CASE RefreshStep
  <2>1. ASSUME NEW c \in calls, RefreshFindsNone(c) \/ RefreshFindsReplaced(c) PROVE d \in calls
    BY <2>1 DEF RefreshFindsNone, RefreshFindsReplaced, Refused
  <2> QED BY <1>2, <1>5, <1>6, <1>7, <1>9, <2>1 DEF RefreshStep
<1>10. ASSUME \/ \E u \in Users : LoginChecks(u) \/ ResetPassword(u)
              \/ LoginFails \/ \E c \in calls : GiveUpRefresh(c) \/ CallLost(c)
              \/ \E s \in Issued : GraceEnds(s)
              \/ Ask \/ Unauthorized \/ SocketChecks \/ \E k \in socks : SocketCloses(k)
              \/ LogoutPosts \/ LogoutUnreachable \/ AppDies
              \/ BootsSignedOut \/ \E online \in BOOLEAN : Boots(online)
              \/ UNCHANGED authVars
       PROVE  d \in calls \/ \E c \in calls : d = [c EXCEPT !.live = FALSE]
  BY <1>10 DEF LoginChecks, ResetPassword, LoginFails, GiveUpRefresh, CallLost, GraceEnds, Ask,
     Unauthorized, SocketChecks, SocketCloses, LogoutPosts, LogoutUnreachable, AppDies,
     BootsSignedOut, Boots, requests, authVars
<1> QED BY <1>2, <1>4, <1>8, <1>9, <1>10 DEF AuthNext

LEMMA ReqStep ==
    ASSUME Shapes, AuthGrows, [AuthNext]_authVars
    PROVE  ReqType'
<1> DEFINE ReqSet == {NoReq} \cup [stage : {"refreshing"}, by : Users]
                     \cup [stage : {"sent"}, sid : Issued', by : Users, retried : BOOLEAN]
<1>1. req \in ReqSet
  BY DEF Shapes, ReqType, AuthGrows
<1>2. NoReq \in ReqSet /\ ReqFailed \in ReqSet
  BY <1>1 DEF ReqFailed
<1>3. store.acc \in Issued' \cup {0} /\ user \in Users \cup {NoUser}
  BY DEF Shapes, StoreType, AppType, AuthGrows
<1>4. ASSUME RefreshStoresRefresh PROVE req' \in ReqSet
  <2>1. CASE req.stage # "refreshing" \/ store.acc = 0
    BY <1>1, <1>2, <1>4, <2>1 DEF RefreshStoresRefresh
  <2>2. CASE req.stage = "refreshing" /\ store.acc # 0
    <3>1. req \in [stage : {"refreshing"}, by : Users]
      BY <2>2 DEF Shapes, ReqType, NoReq
    <3>2. req' = [stage |-> "sent", sid |-> store.acc, by |-> req.by, retried |-> TRUE]
      BY <1>4, <2>2 DEF RefreshStoresRefresh
    <3> QED BY <1>3, <2>2, <3>1, <3>2
  <2> QED BY <2>1, <2>2
<1>5. ASSUME Ask PROVE req' \in ReqSet
  BY <1>3, <1>5 DEF Ask
<1>6. ASSUME Unauthorized PROVE req' \in ReqSet
  <2>1. req \in [stage : {"sent"}, sid : Issued, by : Users, retried : BOOLEAN]
    BY <1>6 DEF Unauthorized, Shapes, ReqType, NoReq
  <2> QED BY <1>6, <2>1 DEF Unauthorized
<1>7. ASSUME PhoneStep \/ RefreshStep, ~RefreshStoresRefresh
      PROVE  req' \in {req, NoReq, ReqFailed}
  BY <1>7 DEF PhoneStep, LoginIssues, LoginStoresAccess, LoginStoresRefresh, StartRefresh,
     RefreshWithoutToken, RefreshStoresAccess, Answered, UnauthorizedAgain, LogoutClears,
     SocketJoins, requests, RefreshStep, RefreshFindsNone, RefreshFindsReplaced, RefreshReads,
     RefreshWrites, RefreshAgain, Refused
<1>8. ASSUME \/ \E u \in Users : LoginChecks(u) \/ ResetPassword(u)
             \/ LoginFails \/ \E c \in calls : GiveUpRefresh(c) \/ CallLost(c)
             \/ \E s \in Issued : GraceEnds(s)
             \/ SocketChecks \/ \E k \in socks : SocketCloses(k)
             \/ LogoutPosts \/ LogoutUnreachable \/ AppDies
             \/ BootsSignedOut \/ \E online \in BOOLEAN : Boots(online)
             \/ UNCHANGED authVars
      PROVE  req' \in {req, NoReq, ReqFailed}
  BY <1>8 DEF LoginChecks, ResetPassword, LoginFails, GiveUpRefresh, CallLost, GraceEnds,
     SocketChecks, SocketCloses, LogoutPosts, LogoutUnreachable, AppDies,
     BootsSignedOut, Boots, requests, authVars
<1>9. req' \in ReqSet
  <2> HIDE DEF ReqSet
  <2> QED BY <1>1, <1>2, <1>4, <1>5, <1>6, <1>7, <1>8 DEF AuthNext
<1> QED BY <1>9 DEF ReqType

LEMMA FlightStep ==
    ASSUME Shapes, AuthGrows, [AuthNext]_authVars
    PROVE  FlightType'
<1> DEFINE FlightSet == {NoFlight, [stage |-> "asked"]} \cup [stage : {"half"}, tok : Tokens']
<1>1. flight \in FlightSet /\ NoFlight \in FlightSet /\ [stage |-> "asked"] \in FlightSet
  BY DEF Shapes, FlightType, AuthGrows
<1>2. ASSUME NEW c \in calls, RefreshStoresAccess(c) PROVE flight' \in FlightSet
  <2>1. c.new \in Tokens' /\ c.new # 0
    BY <1>2 DEF RefreshStoresAccess, Shapes, CallsType, AuthGrows
  <2> QED BY <1>2, <2>1 DEF RefreshStoresAccess
<1>3. ASSUME PhoneStep \/ RefreshStep, ~\E c \in calls : RefreshStoresAccess(c)
      PROVE  flight' \in {flight, NoFlight, [stage |-> "asked"]}
  BY <1>3 DEF PhoneStep, LoginIssues, LoginStoresAccess, LoginStoresRefresh, StartRefresh,
     RefreshWithoutToken, RefreshStoresRefresh, Answered, UnauthorizedAgain, LogoutClears,
     SocketJoins, authPhone, RefreshStep, RefreshFindsNone, RefreshFindsReplaced, RefreshReads,
     RefreshWrites, RefreshAgain, Refused
<1>4. ASSUME \/ \E u \in Users : LoginChecks(u) \/ ResetPassword(u)
             \/ LoginFails \/ \E c \in calls : GiveUpRefresh(c) \/ CallLost(c)
             \/ \E s \in Issued : GraceEnds(s)
             \/ Ask \/ Unauthorized \/ SocketChecks \/ \E k \in socks : SocketCloses(k)
             \/ LogoutPosts \/ LogoutUnreachable \/ AppDies
             \/ BootsSignedOut \/ \E online \in BOOLEAN : Boots(online)
             \/ UNCHANGED authVars
      PROVE  flight' \in {flight, NoFlight}
  BY <1>4 DEF LoginChecks, ResetPassword, LoginFails, GiveUpRefresh, CallLost, GraceEnds, Ask,
     Unauthorized, SocketChecks, SocketCloses, LogoutPosts, LogoutUnreachable, AppDies,
     BootsSignedOut, Boots, authPhone, authVars
<1>5. flight' \in FlightSet
  <2> HIDE DEF FlightSet
  <2> QED BY <1>1, <1>2, <1>3, <1>4 DEF AuthNext
<1> QED BY <1>5 DEF FlightType

\* What is stored: nothing, or a token of a login or a refresh.
LEMMA StoreStep ==
    ASSUME Shapes, AuthGrows, [AuthNext]_authVars
    PROVE  StoreType'
<1> DEFINE StoreSet == [acc : Issued' \cup {0}, ref : Tokens' \cup {0},
                        cached : Users \cup {NoUser}]
<1>1. store \in StoreSet /\ Empty \in StoreSet
  BY DEF Shapes, StoreType, AuthGrows, Empty
<1>2. ASSUME LoginStoresAccess \/ LoginStoresRefresh PROVE store' \in StoreSet
  <2>1. login.stage \in {"issued", "half"}
    BY <1>2 DEF LoginStoresAccess, LoginStoresRefresh
  <2>2. login \in [stage : {"issued", "half"}, user : Users, sid : Issued, tok : Tokens]
    BY <2>1 DEF Shapes, LoginType, NoLogin
  <2> QED BY <1>1, <1>2, <2>2 DEF LoginStoresAccess, LoginStoresRefresh, AuthGrows
<1>3. ASSUME NEW c \in calls, RefreshStoresAccess(c) PROVE store' \in StoreSet
  <2>1. c.new \in Tokens /\ RowsType
    BY <1>3 DEF RefreshStoresAccess, Shapes, CallsType
  <2>2. of[c.new] \in Issued'
    BY <2>1, Positions DEF AuthGrows
  <2> QED BY <1>1, <1>3, <2>2 DEF RefreshStoresAccess
<1>4. ASSUME RefreshStoresRefresh PROVE store' \in StoreSet
  <2>1. flight.tok \in Tokens'
    BY <1>4 DEF RefreshStoresRefresh, Shapes, FlightType, NoFlight, AuthGrows
  <2> QED BY <1>1, <1>4, <2>1 DEF RefreshStoresRefresh
<1>5. ASSUME NEW online \in BOOLEAN, Boots(online) PROVE store' \in StoreSet
  <2>1. RowsType /\ (online => store.acc \in Issued)
    BY <1>5 DEF Boots, Live, Shapes
  <2>2. online => owner[store.acc] \in Users
    BY <2>1, Positions
  <2> QED BY <1>1, <1>5, <2>2 DEF Boots
<1>6. ASSUME PhoneStep \/ RefreshStep, ~LoginStoresAccess, ~LoginStoresRefresh,
             ~RefreshStoresRefresh, ~\E c \in calls : RefreshStoresAccess(c)
      PROVE  store' \in {store, Empty}
  BY <1>6 DEF PhoneStep, LoginIssues, StartRefresh, RefreshWithoutToken, Answered,
     UnauthorizedAgain, LogoutClears, SocketJoins, authPhone, RefreshStep, RefreshFindsNone,
     RefreshFindsReplaced, RefreshReads, RefreshWrites, RefreshAgain, Refused, SignOutLocally, Clear
<1>7. ASSUME \/ \E u \in Users : LoginChecks(u) \/ ResetPassword(u)
             \/ LoginFails \/ \E c \in calls : GiveUpRefresh(c) \/ CallLost(c)
             \/ \E s \in Issued : GraceEnds(s)
             \/ Ask \/ Unauthorized \/ SocketChecks \/ \E k \in socks : SocketCloses(k)
             \/ LogoutPosts \/ LogoutUnreachable \/ AppDies \/ BootsSignedOut
             \/ UNCHANGED authVars
      PROVE  store' = store
  BY <1>7 DEF LoginChecks, ResetPassword, LoginFails, GiveUpRefresh, CallLost, GraceEnds, Ask,
     Unauthorized, SocketChecks, SocketCloses, LogoutPosts, LogoutUnreachable, AppDies,
     BootsSignedOut, authPhone, authVars
<1>8. store' \in StoreSet
  <2> HIDE DEF StoreSet
  <2> QED BY <1>1, <1>2, <1>3, <1>4, <1>5, <1>6, <1>7 DEF AuthNext
<1> QED BY <1>8 DEF StoreType

\* A socket's session is one that was issued.
LEMMA SocksStep ==
    ASSUME Shapes, AuthGrows, [AuthNext]_authVars
    PROVE  SocksType'
<1> DEFINE SockSet == [sid : Issued', stage : {"checked", "in"}, raced : BOOLEAN]
<1>1. socks \subseteq SockSet
  BY DEF Shapes, SocksType, AuthGrows
<1>2. ASSUME NEW ss, EndAll(ss), UNCHANGED <<owner, of>> PROVE socks' \subseteq SockSet
  BY <1>2, EndAllRows DEF SocksType
<1>3. ASSUME SocketChecks PROVE socks' \subseteq SockSet
  BY <1>3 DEF SocketChecks, Live, AuthGrows
<1>4. ASSUME NEW k \in socks, SocketJoins(k) PROVE socks' \subseteq SockSet
  BY <1>1, <1>4 DEF SocketJoins
<1>5. ASSUME PhoneStep \/ RefreshStep
      PROVE  \/ \E k \in socks : SocketJoins(k)
             \/ \E ss : EndAll(ss) /\ UNCHANGED <<owner, of>>
             \/ socks' = socks
  BY <1>5 DEF PhoneStep, LoginIssues, LoginStoresAccess, LoginStoresRefresh, StartRefresh,
     RefreshWithoutToken, RefreshStoresRefresh, RefreshStoresAccess, Answered, UnauthorizedAgain,
     LogoutClears, serverVars, RefreshStep, RefreshFindsNone, RefreshFindsReplaced, RefreshReads,
     RefreshWrites, RefreshAgain
<1>6. ASSUME \/ \E u \in Users : LoginChecks(u) \/ ResetPassword(u)
             \/ LoginFails \/ \E c \in calls : GiveUpRefresh(c) \/ CallLost(c)
             \/ \E s \in Issued : GraceEnds(s)
             \/ Ask \/ Unauthorized \/ \E k \in socks : SocketCloses(k)
             \/ LogoutPosts \/ LogoutUnreachable \/ AppDies
             \/ BootsSignedOut \/ \E online \in BOOLEAN : Boots(online)
             \/ UNCHANGED authVars
      PROVE  (\E ss : EndAll(ss) /\ UNCHANGED <<owner, of>>) \/ socks' \subseteq socks
  BY <1>6 DEF LoginChecks, ResetPassword, LoginFails, GiveUpRefresh, CallLost, GraceEnds, Ask,
     Unauthorized, SocketCloses, LogoutPosts, LogoutUnreachable, AppDies,
     BootsSignedOut, Boots, serverVars, authVars
<1>7. socks' \subseteq SockSet
  <2> HIDE DEF SockSet
  <2> QED BY <1>1, <1>2, <1>3, <1>4, <1>5, <1>6 DEF AuthNext
<1> QED BY <1>7 DEF SocksType

LEMMA AppStep ==
    ASSUME Shapes, [AuthNext]_authVars
    PROVE  AppType'
<1> USE DEF AppType
<1>1. AppType /\ NoUser \in Users \cup {NoUser} /\ AuthFaults \in Nat
  BY AuthBounds DEF Shapes
<1>2. Fault => faults' \in 0..AuthFaults
  BY <1>1 DEF Fault
<1>3. ASSUME LoginStoresRefresh PROVE AppType'
  <2>1. login \in [stage : {"issued", "half"}, user : Users, sid : Issued, tok : Tokens]
    BY <1>3 DEF LoginStoresRefresh, Shapes, LoginType, NoLogin
  <2> QED BY <1>1, <1>3, <2>1 DEF LoginStoresRefresh
<1>4. ASSUME NEW online \in BOOLEAN, Boots(online) PROVE AppType'
  <2>1. online => owner[store.acc] \in Users
    BY <1>4, Positions DEF Boots, Live, Shapes
  <2>2. store.cached \in Users \cup {NoUser}
    BY DEF Shapes, StoreType
  <2>3. user' \in Users \cup {NoUser}
    BY <1>4, <2>1, <2>2 DEF Boots
  <2> QED BY <1>1, <1>4, <2>3 DEF Boots
<1>5. ASSUME PhoneStep \/ RefreshStep, ~LoginStoresRefresh
      PROVE  /\ user' \in {user, NoUser} /\ leaving' \in {leaving, FALSE}
             /\ UNCHANGED <<loading, faults>>
  BY <1>5 DEF PhoneStep, LoginIssues, LoginStoresAccess, StartRefresh,
     RefreshWithoutToken, RefreshStoresRefresh, RefreshStoresAccess, Answered, UnauthorizedAgain,
     LogoutClears, SocketJoins, authPhone, RefreshStep, RefreshFindsNone, RefreshFindsReplaced,
     RefreshReads, RefreshWrites, RefreshAgain, Refused, SignOutLocally
<1>6. ASSUME \/ \E u \in Users : LoginChecks(u) \/ ResetPassword(u)
             \/ LoginFails \/ \E c \in calls : GiveUpRefresh(c) \/ CallLost(c)
             \/ \E s \in Issued : GraceEnds(s)
             \/ Ask \/ Unauthorized \/ SocketChecks \/ \E k \in socks : SocketCloses(k)
             \/ LogoutPosts \/ LogoutUnreachable \/ AppDies
             \/ BootsSignedOut \/ UNCHANGED authVars
      PROVE  /\ user' \in {user, NoUser} /\ loading' \in {loading, TRUE, FALSE}
             /\ leaving' \in {leaving, TRUE, FALSE}
             /\ Fault \/ faults' = faults
  BY <1>6 DEF LoginChecks, ResetPassword, LoginFails, GiveUpRefresh, CallLost, GraceEnds, Ask,
     Unauthorized, SocketChecks, SocketCloses, LogoutPosts, LogoutUnreachable, AppDies,
     BootsSignedOut, authPhone, authVars
<1> QED BY <1>1, <1>2, <1>3, <1>4, <1>5, <1>6 DEF AuthNext

LEMMA HistoryStep ==
    ASSUME Shapes, AuthGrows, [AuthNext]_authVars
    PROVE  HistoryType'
<1>1. /\ ended \subseteq Issued' /\ missed \subseteq Issued' /\ overdue \subseteq Issued'
      /\ mixed \in BOOLEAN /\ strange \in BOOLEAN
  BY DEF Shapes, HistoryType, AuthGrows
<1>2. \A t \in Tokens : of[t] \in Issued'
  BY Positions DEF Shapes, AuthGrows
<1>3. \A c \in calls : c.tok \in Tokens
  BY DEF Shapes, CallsType
<1>4. flight.stage = "half" => flight.tok \in Tokens
  BY DEF Shapes, FlightType, NoFlight
<1>5. ASSUME PhoneStep \/ RefreshStep
      PROVE  /\ ended' = ended \/ \E c \in calls : ended' = ended \cup {of[c.tok]}
             /\ overdue' = overdue \/ \E c \in calls : overdue' = overdue \cup {of[c.tok]}
             /\ missed' = missed
             /\ mixed' \in {mixed, TRUE, FALSE} /\ strange' \in {strange, TRUE, FALSE}
  BY <1>5 DEF PhoneStep, LoginIssues, LoginStoresAccess, LoginStoresRefresh, StartRefresh,
     RefreshWithoutToken, RefreshStoresRefresh, RefreshStoresAccess, Answered, UnauthorizedAgain,
     LogoutClears, SocketJoins, authHistory, RefreshStep, RefreshFindsNone, RefreshFindsReplaced,
     RefreshReads, RefreshWrites, RefreshAgain
<1>6. ASSUME \/ \E u \in Users : LoginChecks(u) \/ ResetPassword(u)
             \/ LoginFails \/ \E c \in calls : CallLost(c)
             \/ \E s \in Issued : GraceEnds(s)
             \/ Ask \/ Unauthorized \/ SocketChecks \/ \E k \in socks : SocketCloses(k)
             \/ LogoutPosts \/ LogoutUnreachable
             \/ BootsSignedOut \/ \E online \in BOOLEAN : Boots(online)
             \/ UNCHANGED authVars
      PROVE  UNCHANGED authHistory
  BY <1>6 DEF LoginChecks, ResetPassword, LoginFails, CallLost, GraceEnds, Ask,
     Unauthorized, SocketChecks, SocketCloses, LogoutPosts, LogoutUnreachable,
     BootsSignedOut, Boots, authVars
<1>7. ASSUME NEW c \in calls, GiveUpRefresh(c)
      PROVE  missed' = missed \cup {of[c.tok]} /\ UNCHANGED <<ended, overdue, mixed, strange>>
  BY <1>7 DEF GiveUpRefresh
<1>8. ASSUME AppDies PROVE missed' \subseteq Issued' /\ UNCHANGED <<ended, overdue, mixed, strange>>
  BY <1>1, <1>2, <1>3, <1>4, <1>8 DEF AppDies
<1>9. /\ ended' \subseteq Issued' /\ missed' \subseteq Issued' /\ overdue' \subseteq Issued'
      /\ mixed' \in BOOLEAN /\ strange' \in BOOLEAN
  BY <1>1, <1>2, <1>3, <1>5, <1>6, <1>7, <1>8 DEF AuthNext, authHistory
<1> QED BY <1>9 DEF HistoryType

LEMMA ShapesInit == AuthInit => Shapes
<1> SUFFICES ASSUME AuthInit PROVE Shapes
  OBVIOUS
<1>1. RowsType
  BY AuthBounds DEF AuthInit, RowsType
<1>2. SocksType /\ CallsType /\ LoginType /\ ReqType /\ FlightType /\ StoreType /\ HistoryType
  BY DEF AuthInit, SocksType, CallsType, LoginType, ReqType, FlightType, StoreType, HistoryType,
     NoLogin, Empty
<1>3. AppType
  <2>1. 0 \in 0..AuthFaults
    BY AuthBounds
  <2> QED BY <2>1 DEF AuthInit, AppType
<1> QED BY <1>1, <1>2, <1>3 DEF Shapes

LEMMA ShapesStep == Shapes /\ [AuthNext]_authVars => Shapes' /\ AuthGrows
<1> SUFFICES ASSUME Shapes, [AuthNext]_authVars PROVE Shapes' /\ AuthGrows
  OBVIOUS
<1>1. RowsType' /\ AuthGrows
  BY RowsStep
<1>2. SocksType' /\ CallsType' /\ LoginType' /\ ReqType'
  BY <1>1, SocksStep, CallsStep, LoginStep, ReqStep
<1>3. FlightType' /\ StoreType' /\ AppType' /\ HistoryType'
  BY <1>1, FlightStep, StoreStep, AppStep, HistoryStep
<1> QED BY <1>1, <1>2, <1>3 DEF Shapes

LEMMA ShapesAlways == AuthSpec => []Shapes
BY ShapesInit, ShapesStep, PTL DEF AuthSpec

LEMMA ShapesAreTyped == Shapes => AuthTypeOK
<1> SUFFICES ASSUME Shapes PROVE AuthTypeOK
  OBVIOUS
<1>1. RowsType /\ Issued = 1..Len(owner) /\ Tokens = 1..Len(of) /\ Len(of) <= MaxTok
      /\ Len(of) \in Nat
  BY Positions DEF Shapes, RowsType
<1>2. Tokens \subseteq 1..MaxTok /\ Tokens \cup {0} \subseteq 0..MaxTok
  BY <1>1, AuthBounds
<1>3. DOMAIN rows = Issued /\ \A s \in Issued : rows[s] \in Row
  BY <1>1, <1>2, Positions DEF Row
<1>4. calls \subseteq Call
  BY <1>2 DEF Shapes, CallsType, Call
<1>5. /\ login.stage \in {"none", "checked", "issued", "half"}
      /\ req.stage \in {"none", "sent", "refreshing"} /\ flight.stage \in {"none", "asked", "half"}
  BY DEF Shapes, LoginType, NoLogin, ReqType, NoReq, FlightType, NoFlight
<1>6. /\ store.acc \in Issued \cup {0} /\ store.ref \in Tokens \cup {0}
      /\ store.cached \in Users \cup {NoUser}
  BY DEF Shapes, StoreType
<1> QED BY <1>1, <1>3, <1>4, <1>5, <1>6
        DEF AuthTypeOK, Shapes, RowsType, SocksType, AppType, HistoryType

(***************************************************************************)
(* AuthSessions stays within its types: in particular every token belongs  *)
(* to a session that was issued, and every session has exactly one row.    *)
(***************************************************************************)
THEOREM AuthTypeCorrect == AuthSpec => []AuthTypeOK
BY ShapesAlways, ShapesAreTyped, PTL

-----------------------------------------------------------------------------
(* Sessions that have ended *)

(***************************************************************************)
(* An ended session never comes back (EndedStaysEnded): the conditional    *)
(* write of a refresh finds no row to write to.                            *)
(***************************************************************************)
THEOREM AuthEndedStaysEnded == AuthSpec => EndedStaysEnded
<1>1. Shapes /\ [AuthNext]_authVars => [\A s \in Issued : ~rows[s].live => ~rows'[s].live]_authVars
  BY RowsStep
<1> QED BY <1>1, ShapesAlways, PTL DEF AuthSpec, EndedStaysEnded

SocksHold == \A k \in socks : Live(k.sid) \/ k.raced

LEMMA SocksHoldStep == Shapes /\ SocksHold /\ [AuthNext]_authVars => SocksHold'
<1> SUFFICES ASSUME Shapes, SocksHold, [AuthNext]_authVars PROVE SocksHold'
  OBVIOUS
<1>1. CASE UNCHANGED <<owner, of, rows>> /\ socks' \subseteq socks
  BY <1>1 DEF SocksHold, Live, Issued
<1>2. ASSUME NEW ss, EndAll(ss), UNCHANGED <<owner, of>> PROVE SocksHold'
  <2> SUFFICES ASSUME NEW j \in socks' PROVE Live(j.sid)' \/ j.raced
    BY DEF SocksHold
  <2>1. PICK k \in socks : j = [k EXCEPT !.raced = k.raced \/ (k.sid \in ss /\ rows[k.sid].live)]
    BY <1>2 DEF EndAll
  <2>2. k \in [sid : Issued, stage : {"checked", "in"}, raced : BOOLEAN]
    BY DEF Shapes, SocksType
  <2>3. j.sid = k.sid /\ j.raced = (k.raced \/ (k.sid \in ss /\ rows[k.sid].live))
    BY <2>1, <2>2
  <2>4. (rows[k.sid].live /\ k.sid \notin ss) \/ j.raced
    BY <2>3 DEF SocksHold, Live
  <2>5. Issued' = Issued
    BY <1>2 DEF Issued
  <2> QED BY <1>2, <2>2, <2>3, <2>4, <2>5, EndAllRows DEF Live
<1>3. ASSUME LoginIssues PROVE SocksHold'
  <2>1. \A s \in Issued : rows'[s] = rows[s] /\ s \in Issued'
    BY <1>3, IssuedRows DEF AuthGrows
  <2> QED BY <1>3, <2>1 DEF LoginIssues, SocksHold, Live
<1>4. ASSUME NEW c \in calls, RefreshWrites(c) PROVE SocksHold'
  <2>1. \A s \in Issued : rows[s].live => rows'[s].live /\ s \in Issued'
    BY <1>4, WrittenRows DEF AuthGrows
  <2> QED BY <1>4, <2>1 DEF RefreshWrites, SocksHold, Live
<1>5. ASSUME NEW s \in Issued, GraceEnds(s) PROVE SocksHold'
  <2>1. \A k \in Issued : rows'[k].live = rows[k].live /\ k \in Issued'
    BY <1>5, GraceRows DEF Issued
  <2> QED BY <1>5, <2>1 DEF GraceEnds, SocksHold, Live
<1>6. ASSUME NEW k \in socks, SocketJoins(k) PROVE SocksHold'
  <2>1. k \in [sid : Issued, stage : {"checked", "in"}, raced : BOOLEAN]
    BY DEF Shapes, SocksType
  <2>2. UNCHANGED <<owner, of, rows>> /\ socks' = (socks \ {k}) \cup {[k EXCEPT !.stage = "in"]}
    BY <1>6 DEF SocketJoins
  <2> QED BY <2>1, <2>2 DEF SocksHold, Live, Issued
<1>7. ASSUME SocketChecks PROVE SocksHold'
  BY <1>7 DEF SocketChecks, SocksHold, Live, Issued
<1>8. CASE PhoneStep
  <2>1. ASSUME \/ LoginStoresAccess \/ LoginStoresRefresh
               \/ StartRefresh \/ RefreshWithoutToken \/ RefreshStoresRefresh
               \/ \E c \in calls : RefreshStoresAccess(c)
               \/ Answered \/ UnauthorizedAgain \/ LogoutClears
        PROVE  UNCHANGED <<owner, of, rows, socks>>
    BY <2>1 DEF LoginStoresAccess, LoginStoresRefresh, StartRefresh,
       RefreshWithoutToken, RefreshStoresRefresh, RefreshStoresAccess, Answered,
       UnauthorizedAgain, LogoutClears, serverVars
  <2> QED BY <1>1, <1>3, <1>6, <1>8, <2>1 DEF PhoneStep
<1>9. CASE RefreshStep
  <2>1. ASSUME NEW c \in calls, RefreshFindsReplaced(c)
        PROVE  \E ss : EndAll(ss) /\ UNCHANGED <<owner, of>>
    BY <2>1 DEF RefreshFindsReplaced
  <2>2. ASSUME NEW c \in calls, RefreshFindsNone(c) \/ RefreshReads(c) \/ RefreshAgain(c)
        PROVE  UNCHANGED <<owner, of, rows, socks>>
    BY <2>2 DEF RefreshFindsNone, RefreshReads, RefreshAgain, serverVars
  <2> QED BY <1>1, <1>2, <1>4, <1>9, <2>1, <2>2 DEF RefreshStep
<1>10. ASSUME \/ \E u \in Users : LoginChecks(u) \/ ResetPassword(u)
              \/ LoginFails \/ \E c \in calls : GiveUpRefresh(c) \/ CallLost(c)
              \/ Ask \/ Unauthorized \/ \E k \in socks : SocketCloses(k)
              \/ LogoutPosts \/ LogoutUnreachable \/ AppDies
              \/ BootsSignedOut \/ \E online \in BOOLEAN : Boots(online)
              \/ UNCHANGED authVars
       PROVE  SocksHold'
  <2>1. \/ \E ss : EndAll(ss) /\ UNCHANGED <<owner, of>>
        \/ UNCHANGED <<owner, of, rows>> /\ socks' \subseteq socks
    BY <1>10 DEF LoginChecks, ResetPassword, LoginFails, GiveUpRefresh, CallLost, Ask,
       Unauthorized, SocketCloses, LogoutPosts, LogoutUnreachable, AppDies,
       BootsSignedOut, Boots, serverVars, authVars
  <2> QED BY <1>1, <1>2, <2>1
<1> QED BY <1>5, <1>7, <1>8, <1>9, <1>10 DEF AuthNext

(***************************************************************************)
(* After logout or a password reset no socket of the session receives      *)
(* messages, except one whose token was looked up just before              *)
(* (SocketsAreLive). Inductive with the sockets still being checked.       *)
(***************************************************************************)
THEOREM AuthSocketsAreLive == AuthSpec => []SocketsAreLive
<1>1. AuthInit => SocksHold
  BY DEF AuthInit, SocksHold
<1>2. SocksHold => SocketsAreLive
  BY DEF SocksHold, SocketsAreLive
<1> QED BY <1>1, <1>2, SocksHoldStep, ShapesAlways, PTL DEF AuthSpec

-----------------------------------------------------------------------------
(* Whose tokens the phone holds *)

\* One refresh is waited for at a time, and refreshInFlight stands for it.
OneRefresh ==
    /\ \A c \in calls : c.live => flight.stage = "asked"
    /\ \A c, d \in calls : c.live /\ d.live => c = d

\* A login in its second half knows its session, a refresh keeps to its own.
LoginOwns ==
    login.stage \in {"issued", "half"} => /\ of[login.tok] = login.sid
                                          /\ owner[login.sid] = login.user

RefreshKeeps == \A c \in calls : c.stage = "done" => of[c.new] = of[c.tok]

LEMMA OneRefreshStep == Shapes /\ OneRefresh /\ [AuthNext]_authVars => OneRefresh'
<1> SUFFICES ASSUME Shapes, OneRefresh, [AuthNext]_authVars PROVE OneRefresh'
  OBVIOUS
<1> USE DEF OneRefresh
<1>0. \A c \in calls : c \in CallOf(Tokens)
  BY DEF Shapes, CallsType, CallOf
<1>1. CASE flight' = flight /\ \A d \in calls' : d.live => d \in calls
  BY <1>1
<1>2. CASE \A d \in calls' : ~d.live
  BY <1>2
<1>3. ASSUME NEW c \in calls, NEW d, d.live => c.live, flight' = flight,
             calls' \subseteq (calls \ {c}) \cup {d}
      PROVE  OneRefresh'
  BY <1>3
<1>4. ASSUME StartRefresh PROVE OneRefresh'
  <2>1. /\ \A c \in calls : ~c.live
        /\ calls' = calls \cup {Asking(store.ref)} /\ flight'.stage = "asked"
    BY <1>4 DEF StartRefresh, NoFlight
  <2> QED BY <2>1
<1>5. ASSUME NEW c \in calls, GiveUpRefresh(c) PROVE OneRefresh'
  <2>1. \A d \in calls \ {c} : ~d.live
    BY <1>5 DEF GiveUpRefresh
  <2>2. ~[c EXCEPT !.live = FALSE].live
    BY <1>0 DEF CallOf
  <2>3. \A d \in calls' : ~d.live
    BY <1>5, <2>1, <2>2 DEF GiveUpRefresh
  <2> QED BY <1>2, <2>3
<1>6. ASSUME NEW c \in calls, RefreshStoresAccess(c) PROVE OneRefresh'
  BY <1>2, <1>6 DEF RefreshStoresAccess
<1>7. ASSUME NEW c \in calls, RefreshFindsNone(c) \/ RefreshFindsReplaced(c) PROVE OneRefresh'
  <2>1. calls' = calls \ {c} /\ (~c.live => flight' = flight)
    BY <1>7 DEF RefreshFindsNone, RefreshFindsReplaced, Refused
  <2>2. CASE c.live
    BY <1>2, <2>1, <2>2
  <2> QED BY <1>1, <2>1, <2>2
<1>8. ASSUME NEW c \in calls, RefreshReads(c) \/ RefreshWrites(c) \/ RefreshAgain(c)
      PROVE  OneRefresh'
  <2>1. PICK d : calls' \subseteq (calls \ {c}) \cup {d} /\ (d.live => c.live)
    <3>1. CASE RefreshReads(c)
      <4>1. [c EXCEPT !.stage = "read", !.snap = rows[of[c.tok]].cur].live = c.live
        BY <1>0 DEF CallOf
      <4> QED BY <3>1, <4>1 DEF RefreshReads
    <3>2. CASE RefreshWrites(c)
      <4>1. [c EXCEPT !.stage = "done", !.new = Len(of) + 1].live = c.live
        BY <1>0 DEF CallOf
      <4> QED BY <3>2, <4>1 DEF RefreshWrites
    <3>3. CASE RefreshAgain(c)
      <4>1. [c EXCEPT !.stage = "sent", !.snap = 0].live = c.live
        BY <1>0 DEF CallOf
      <4> QED BY <3>3, <4>1 DEF RefreshAgain
    <3> QED BY <1>8, <3>1, <3>2, <3>3
  <2>2. flight' = flight
    BY <1>8 DEF RefreshReads, RefreshWrites, RefreshAgain, authPhone
  <2> QED BY <1>3, <2>1, <2>2
<1>9. ASSUME AppDies PROVE OneRefresh'
  <2>1. \A c \in calls : ~[c EXCEPT !.live = FALSE].live
    BY <1>0 DEF CallOf
  <2>2. \A d \in calls' : ~d.live
    BY <1>9, <2>1 DEF AppDies
  <2> QED BY <1>2, <2>2
<1>10. ASSUME \/ LoginIssues \/ LoginStoresAccess \/ LoginStoresRefresh
              \/ RefreshWithoutToken \/ Answered \/ UnauthorizedAgain \/ LogoutClears
              \/ \E k \in socks : SocketJoins(k)
              \/ \E u \in Users : LoginChecks(u) \/ ResetPassword(u)
              \/ LoginFails \/ \E c \in calls : CallLost(c)
              \/ \E s \in Issued : GraceEnds(s)
              \/ Ask \/ Unauthorized \/ SocketChecks \/ \E k \in socks : SocketCloses(k)
              \/ LogoutPosts \/ LogoutUnreachable
              \/ BootsSignedOut \/ \E online \in BOOLEAN : Boots(online)
              \/ UNCHANGED authVars
       PROVE  flight' = flight /\ calls' \subseteq calls
  BY <1>10 DEF LoginIssues, LoginStoresAccess, LoginStoresRefresh, RefreshWithoutToken, Answered,
     UnauthorizedAgain, LogoutClears, SocketJoins, LoginChecks, ResetPassword, LoginFails, CallLost,
     GraceEnds, Ask, Unauthorized, SocketChecks, SocketCloses, LogoutPosts, LogoutUnreachable,
     BootsSignedOut, Boots, requests, authPhone, authVars
<1>11. ASSUME RefreshStoresRefresh PROVE OneRefresh'
  BY <1>2, <1>11 DEF RefreshStoresRefresh
<1> HIDE DEF OneRefresh
<1> QED BY <1>1, <1>4, <1>5, <1>6, <1>7, <1>8, <1>9, <1>10, <1>11
        DEF AuthNext, PhoneStep, RefreshStep

LEMMA LoginOwnsStep == Shapes /\ LoginOwns /\ [AuthNext]_authVars => LoginOwns'
<1> SUFFICES ASSUME Shapes, LoginOwns, [AuthNext]_authVars PROVE LoginOwns'
  OBVIOUS
<1>0. AuthGrows
  BY ShapesStep
<1>1. CASE login' = login
  <2>1. login.stage \in {"issued", "half"} => login.sid \in Issued /\ login.tok \in Tokens
    BY DEF Shapes, LoginType, NoLogin
  <2> QED BY <1>0, <1>1, <2>1 DEF LoginOwns, AuthGrows
<1>2. CASE login'.stage \in {"none", "checked"}
  BY <1>2 DEF LoginOwns
<1>3. ASSUME LoginIssues PROVE LoginOwns'
  <2>1. login' = [stage |-> "issued", user |-> login.user, sid |-> Len(owner) + 1,
                  tok |-> Len(of) + 1]
    BY <1>3 DEF LoginIssues
  <2> QED BY <1>3, <2>1, IssuedRows DEF LoginOwns
<1>4. ASSUME LoginStoresAccess PROVE LoginOwns'
  <2>1. /\ login \in [stage : {"issued", "half"}, user : Users, sid : Issued, tok : Tokens]
        /\ login' = [login EXCEPT !.stage = "half"]
    BY <1>4 DEF LoginStoresAccess, Shapes, LoginType, NoLogin
  <2> QED BY <1>0, <2>1 DEF LoginOwns, AuthGrows
<1>5. ASSUME \/ LoginStoresRefresh \/ LoginFails \/ AppDies \/ \E u \in Users : LoginChecks(u)
      PROVE  login'.stage \in {"none", "checked"}
  BY <1>5 DEF LoginStoresRefresh, LoginFails, AppDies, LoginChecks, NoLogin
<1>6. ASSUME \/ PhoneStep /\ ~LoginIssues /\ ~LoginStoresAccess /\ ~LoginStoresRefresh
             \/ RefreshStep \/ \E u \in Users : ResetPassword(u)
             \/ \E c \in calls : GiveUpRefresh(c) \/ CallLost(c)
             \/ \E s \in Issued : GraceEnds(s)
             \/ Ask \/ Unauthorized \/ SocketChecks \/ \E k \in socks : SocketCloses(k)
             \/ LogoutPosts \/ LogoutUnreachable
             \/ BootsSignedOut \/ \E online \in BOOLEAN : Boots(online)
             \/ UNCHANGED authVars
      PROVE  login' = login
  BY <1>6 DEF PhoneStep, RefreshWithoutToken, Answered, UnauthorizedAgain, LogoutClears,
     SocketJoins, ResetPassword, GiveUpRefresh, CallLost, StartRefresh, RefreshStoresRefresh,
     RefreshStoresAccess, RefreshStep, RefreshFindsNone, RefreshFindsReplaced, RefreshReads,
     RefreshWrites, RefreshAgain, Refused, GraceEnds, Ask, Unauthorized, SocketChecks,
     SocketCloses, LogoutPosts, LogoutUnreachable, BootsSignedOut, Boots, requests, authVars
<1> QED BY <1>1, <1>2, <1>3, <1>4, <1>5, <1>6 DEF AuthNext, PhoneStep

LEMMA RefreshKeepsStep == Shapes /\ RefreshKeeps /\ [AuthNext]_authVars => RefreshKeeps'
<1> SUFFICES ASSUME Shapes, RefreshKeeps, [AuthNext]_authVars,
                    NEW d \in calls', d.stage = "done"
             PROVE  of'[d.new] = of'[d.tok]
  BY DEF RefreshKeeps
<1>0. AuthGrows /\ \A c \in calls : c \in CallOf(Tokens) /\ (c.stage = "done" => c.new # 0)
  BY ShapesStep DEF Shapes, CallsType, CallOf
<1>1. ASSUME NEW c \in calls, c.stage = "done", d.new = c.new, d.tok = c.tok
      PROVE  of'[d.new] = of'[d.tok]
  <2>1. c.new \in Tokens /\ c.tok \in Tokens
    BY <1>0, <1>1 DEF CallOf
  <2> QED BY <1>0, <1>1, <2>1 DEF RefreshKeeps, AuthGrows
<1>2. ASSUME NEW c \in calls, RefreshWrites(c), d \notin calls PROVE of'[d.new] = of'[d.tok]
  <2>1. d = [c EXCEPT !.stage = "done", !.new = Len(of) + 1]
    BY <1>2 DEF RefreshWrites
  <2>2. d.tok = c.tok /\ d.new = Len(of) + 1 /\ c.tok \in Tokens
    BY <1>0, <2>1 DEF CallOf
  <2> QED BY <1>2, <2>2, WrittenRows DEF AuthGrows
<1>3. ASSUME NEW c \in calls, d = [c EXCEPT !.live = FALSE] PROVE of'[d.new] = of'[d.tok]
  BY <1>0, <1>1, <1>3 DEF CallOf
<1>4. ASSUME NEW c \in calls, RefreshReads(c) \/ RefreshAgain(c) PROVE d \in calls
  <2>1. /\ [c EXCEPT !.stage = "read", !.snap = rows[of[c.tok]].cur].stage = "read"
        /\ [c EXCEPT !.stage = "sent", !.snap = 0].stage = "sent"
    BY <1>0 DEF CallOf
  <2> QED BY <1>4, <2>1 DEF RefreshReads, RefreshAgain
<1>5. ASSUME StartRefresh PROVE d \in calls
  BY <1>5 DEF StartRefresh, Asking
<1>6. ASSUME NEW c \in calls, \/ RefreshStoresAccess(c) \/ RefreshFindsNone(c)
                              \/ RefreshFindsReplaced(c) \/ CallLost(c)
      PROVE  d \in calls
  BY <1>6 DEF RefreshStoresAccess, RefreshFindsNone, RefreshFindsReplaced, Refused, CallLost
<1>7. ASSUME AppDies \/ \E c \in calls : GiveUpRefresh(c)
      PROVE  d \in calls \/ \E c \in calls : d = [c EXCEPT !.live = FALSE]
  BY <1>7 DEF AppDies, GiveUpRefresh
<1>8. ASSUME \/ LoginIssues \/ LoginStoresAccess \/ LoginStoresRefresh \/ RefreshStoresRefresh
             \/ RefreshWithoutToken \/ Answered \/ UnauthorizedAgain \/ LogoutClears
             \/ \E k \in socks : SocketJoins(k)
             \/ \E u \in Users : LoginChecks(u) \/ ResetPassword(u)
             \/ LoginFails \/ \E s \in Issued : GraceEnds(s)
             \/ Ask \/ Unauthorized \/ SocketChecks \/ \E k \in socks : SocketCloses(k)
             \/ LogoutPosts \/ LogoutUnreachable
             \/ BootsSignedOut \/ \E online \in BOOLEAN : Boots(online)
             \/ UNCHANGED authVars
      PROVE  d \in calls
  BY <1>8 DEF LoginIssues, LoginStoresAccess, LoginStoresRefresh, RefreshWithoutToken, Answered,
     UnauthorizedAgain, LogoutClears, SocketJoins, LoginChecks, ResetPassword, LoginFails,
     RefreshStoresRefresh, GraceEnds, Ask, Unauthorized, SocketChecks, SocketCloses, LogoutPosts,
     LogoutUnreachable, BootsSignedOut, Boots, requests, authPhone, authVars
<1>9. d \in calls => of'[d.new] = of'[d.tok]
  BY <1>1
<1> QED BY <1>2, <1>3, <1>4, <1>5, <1>6, <1>7, <1>8, <1>9 DEF AuthNext, PhoneStep, RefreshStep

\* While a login is under way nobody is shown, and a user is cached with tokens only.
AtRest ==
    /\ login # NoLogin => ~loading /\ user = NoUser
    /\ store.acc = 0 /\ store.ref = 0 => store.cached = NoUser

LEMMA AtRestStep == Shapes /\ AtRest /\ [AuthNext]_authVars => AtRest'
<1> SUFFICES ASSUME Shapes, AtRest, [AuthNext]_authVars PROVE AtRest'
  OBVIOUS
<1> USE DEF AtRest
<1>0. /\ store \in [acc : Issued \cup {0}, ref : Tokens \cup {0}, cached : Users \cup {NoUser}]
      /\ 0 \notin Issued /\ 0 \notin Tokens
  BY Positions DEF Shapes, StoreType
<1>1. CASE /\ login' \in {login, NoLogin} /\ (loading' => loading) /\ user' \in {user, NoUser}
           /\ store' \in {store, Empty}
  BY <1>1 DEF Empty
<1>2. ASSUME NEW u \in Users, LoginChecks(u) PROVE AtRest'
  BY <1>2 DEF LoginChecks, authPhone
<1>3. ASSUME LoginIssues PROVE AtRest'
  BY <1>3 DEF LoginIssues, NoLogin, authPhone
<1>4. ASSUME LoginStoresAccess \/ LoginStoresRefresh PROVE AtRest'
  <2>1. login \in [stage : {"issued", "half"}, user : Users, sid : Issued, tok : Tokens]
    BY <1>4 DEF LoginStoresAccess, LoginStoresRefresh, Shapes, LoginType, NoLogin
  <2>2. store'.acc # 0 \/ store'.ref # 0
    BY <1>0, <1>4, <2>1 DEF LoginStoresAccess, LoginStoresRefresh
  <2>3. login # NoLogin
    BY <1>4 DEF LoginStoresAccess, LoginStoresRefresh, NoLogin
  <2>4. LoginStoresAccess => UNCHANGED <<user, loading>>
    BY DEF LoginStoresAccess
  <2>5. LoginStoresRefresh => login' = NoLogin
    BY DEF LoginStoresRefresh
  <2> QED BY <1>4, <2>2, <2>3, <2>4, <2>5
<1>5. ASSUME NEW c \in calls, RefreshStoresAccess(c) PROVE AtRest'
  <2>1. c.new \in Tokens
    BY <1>5 DEF RefreshStoresAccess, Shapes, CallsType
  <2>2. store'.acc # 0
    BY <1>0, <1>5, <2>1, Positions DEF RefreshStoresAccess, Shapes
  <2> QED BY <1>5, <2>2 DEF RefreshStoresAccess
<1>6. ASSUME RefreshStoresRefresh PROVE AtRest'
  <2>1. flight.tok \in Tokens
    BY <1>6 DEF RefreshStoresRefresh, Shapes, FlightType, NoFlight
  <2>2. store'.ref # 0
    BY <1>0, <1>6, <2>1 DEF RefreshStoresRefresh
  <2> QED BY <1>6, <2>2 DEF RefreshStoresRefresh
<1>7. ASSUME NEW online \in BOOLEAN, Boots(online) PROVE AtRest'
  <2>1. login = NoLogin /\ login' = login /\ store'.acc # 0
    BY <1>0, <1>7 DEF Boots, requests
  <2> QED BY <2>1
<1>8. ASSUME AppDies PROVE AtRest'
  BY <1>8 DEF AppDies
<1>9. ASSUME PhoneStep \/ RefreshStep, ~LoginIssues, ~LoginStoresAccess, ~LoginStoresRefresh,
             ~RefreshStoresRefresh, ~\E c \in calls : RefreshStoresAccess(c)
      PROVE  /\ login' = login /\ loading' = loading /\ user' \in {user, NoUser}
             /\ store' \in {store, Empty}
  BY <1>9 DEF PhoneStep, StartRefresh, RefreshWithoutToken, Answered, UnauthorizedAgain,
     LogoutClears, SocketJoins, requests, authPhone, RefreshStep, RefreshFindsNone,
     RefreshFindsReplaced, RefreshReads, RefreshWrites, RefreshAgain, Refused, SignOutLocally, Clear
<1>10. ASSUME \/ \E u \in Users : ResetPassword(u)
              \/ LoginFails \/ \E c \in calls : GiveUpRefresh(c) \/ CallLost(c)
              \/ \E s \in Issued : GraceEnds(s)
              \/ Ask \/ Unauthorized \/ SocketChecks \/ \E k \in socks : SocketCloses(k)
              \/ LogoutPosts \/ LogoutUnreachable \/ UNCHANGED authVars
       PROVE  login' \in {login, NoLogin} /\ UNCHANGED <<loading, user, store>>
  BY <1>10 DEF ResetPassword, LoginFails, GiveUpRefresh, CallLost, GraceEnds, Ask, Unauthorized,
     SocketChecks, SocketCloses, LogoutPosts, LogoutUnreachable, requests, authPhone, authVars
<1>11. ASSUME BootsSignedOut PROVE AtRest'
  BY <1>11 DEF BootsSignedOut, requests
<1>12. user' = user => user' \in {user, NoUser}
  OBVIOUS
<1>13. loading' = loading => (loading' => loading)
  OBVIOUS
<1> HIDE DEF AtRest
<1> QED BY <1>1, <1>2, <1>3, <1>4, <1>5, <1>6, <1>7, <1>8, <1>9, <1>10, <1>11, <1>12, <1>13
    DEF AuthNext

\* All the phone holds is one account's.
BelongsTo(u) ==
    /\ store.acc # 0 => owner[store.acc] = u
    /\ store.ref # 0 => owner[of[store.ref]] = u
    /\ store.cached \in {NoUser, u} /\ user \in {NoUser, u}
    /\ \A c \in calls : c.live => owner[of[c.tok]] = u
    /\ flight.stage = "half" => owner[of[flight.tok]] = u
    /\ req # NoReq => req.by = u /\ (req.stage = "sent" => owner[req.sid] = u)
    /\ login.stage = "half" => login.user = u

OneAccount == mixed \/ (~strange /\ \E u \in Users \cup {NoUser} : BelongsTo(u))

\* Steps in which the phone gets hold of nothing new.
NothingNew ==
    /\ store' \in {store, Empty} /\ user' \in {user, NoUser}
    /\ \A d \in calls' : d.live => \E c \in calls : c.live /\ c.tok = d.tok
    /\ flight' \in {flight, NoFlight} /\ req' \in {req, NoReq}
    /\ login' = login \/ login'.stage # "half"
    /\ UNCHANGED <<mixed, strange>>

LEMMA PhoneShapes ==
    ASSUME Shapes
    PROVE  /\ store \in [acc : Issued \cup {0}, ref : Tokens \cup {0}, cached : Users \cup {NoUser}]
           /\ store.ref # 0 => of[store.ref] \in Issued
           /\ \A c \in calls : c \in CallOf(Tokens) /\ of[c.tok] \in Issued
           /\ flight.stage = "half" => flight.tok \in Tokens /\ of[flight.tok] \in Issued
           /\ req.stage = "sent" => req.sid \in Issued
           /\ login.stage \in {"issued", "half"} => login.sid \in Issued /\ login.tok \in Tokens
                                                    /\ login.user \in Users
           /\ user \in Users \cup {NoUser}
<1>1. StoreType /\ RowsType /\ FlightType /\ ReqType /\ LoginType /\ CallsType
  BY DEF Shapes
<1>2. \A t \in Tokens : of[t] \in Issued
  BY <1>1, Positions
<1>3. store \in [acc : Issued \cup {0}, ref : Tokens \cup {0}, cached : Users \cup {NoUser}]
      /\ (store.ref # 0 => of[store.ref] \in Issued)
  BY <1>1, <1>2 DEF StoreType
<1>4. \A c \in calls : c \in CallOf(Tokens) /\ of[c.tok] \in Issued
  BY <1>1, <1>2 DEF CallsType, CallOf
<1>5. flight.stage = "half" => flight.tok \in Tokens /\ of[flight.tok] \in Issued
  BY <1>1, <1>2 DEF FlightType, NoFlight
<1>6. req.stage = "sent" => req.sid \in Issued
  BY <1>1 DEF ReqType, NoReq
<1>7. login.stage \in {"issued", "half"} => login.sid \in Issued /\ login.tok \in Tokens
                                            /\ login.user \in Users
  BY <1>1 DEF LoginType, NoLogin
<1> QED BY <1>3, <1>4, <1>5, <1>6, <1>7 DEF Shapes, AppType

LEMMA StillOf ==
    ASSUME Shapes, AuthGrows, NEW u, BelongsTo(u)
    PROVE  /\ store.acc # 0 => owner'[store.acc] = u
           /\ store.ref # 0 => owner'[of'[store.ref]] = u
           /\ \A c \in calls : c.live => owner'[of'[c.tok]] = u
           /\ flight.stage = "half" => owner'[of'[flight.tok]] = u
           /\ req # NoReq => req.by = u /\ (req.stage = "sent" => owner'[req.sid] = u)
BY PhoneShapes DEF AuthGrows, BelongsTo, CallOf

LEMMA NothingNewKeeps ==
    ASSUME Shapes, AuthGrows, NothingNew, NEW u, BelongsTo(u)
    PROVE  BelongsTo(u)'
<1>1. store'.acc # 0 => owner'[store'.acc] = u
  BY StillOf DEF NothingNew, Empty
<1>2. store'.ref # 0 => owner'[of'[store'.ref]] = u
  BY StillOf DEF NothingNew, Empty
<1>3. store'.cached \in {NoUser, u} /\ user' \in {NoUser, u}
  BY DEF NothingNew, Empty, BelongsTo
<1>4. \A c \in calls' : c.live => owner'[of'[c.tok]] = u
  BY StillOf DEF NothingNew
<1>5. flight'.stage = "half" => owner'[of'[flight'.tok]] = u
  BY StillOf DEF NothingNew, NoFlight
<1>6. req' # NoReq => req'.by = u /\ (req'.stage = "sent" => owner'[req'.sid] = u)
  BY StillOf DEF NothingNew
<1>7. login'.stage = "half" => login'.user = u
  BY DEF NothingNew, BelongsTo
<1> QED BY <1>1, <1>2, <1>3, <1>4, <1>5, <1>6, <1>7 DEF BelongsTo

LEMMA NothingNewSteps ==
    ASSUME Shapes, [AuthNext]_authVars,
           ~LoginStoresAccess, ~LoginStoresRefresh, ~StartRefresh, ~RefreshStoresRefresh,
           ~\E c \in calls : RefreshStoresAccess(c), ~Answered, ~Ask, ~Unauthorized,
           ~\E online \in BOOLEAN : Boots(online)
    PROVE  NothingNew
<1>0. \A c \in calls : c \in CallOf(Tokens)
  BY PhoneShapes
<1>1. /\ store' \in {store, Empty} /\ user' \in {user, NoUser}
      /\ flight' \in {flight, NoFlight} /\ req' \in {req, NoReq}
  <2>1. ASSUME PhoneStep \/ RefreshStep
        PROVE  /\ store' \in {store, Empty} /\ user' \in {user, NoUser}
               /\ flight' \in {flight, NoFlight} /\ req' \in {req, NoReq}
    BY <2>1 DEF PhoneStep, LoginIssues, RefreshWithoutToken, UnauthorizedAgain, LogoutClears,
       SocketJoins, requests, authPhone, RefreshStep, RefreshFindsNone, RefreshFindsReplaced,
       RefreshReads, RefreshWrites, RefreshAgain, Refused, SignOutLocally, Clear, ReqFailed
  <2>2. ASSUME \/ \E u \in Users : LoginChecks(u) \/ ResetPassword(u)
               \/ LoginFails \/ \E c \in calls : GiveUpRefresh(c) \/ CallLost(c)
               \/ \E s \in Issued : GraceEnds(s)
               \/ SocketChecks \/ \E k \in socks : SocketCloses(k)
               \/ LogoutPosts \/ LogoutUnreachable \/ AppDies \/ BootsSignedOut
               \/ UNCHANGED authVars
        PROVE  /\ store' \in {store, Empty} /\ user' \in {user, NoUser}
               /\ flight' \in {flight, NoFlight} /\ req' \in {req, NoReq}
    BY <2>2 DEF LoginChecks, ResetPassword, LoginFails, GiveUpRefresh, CallLost, GraceEnds,
       SocketChecks, SocketCloses, LogoutPosts, LogoutUnreachable, AppDies, BootsSignedOut,
       requests, authPhone, authVars, ReqFailed
  <2> QED BY <2>1, <2>2 DEF AuthNext
<1>2. login' = login \/ login'.stage # "half"
  <2>1. ASSUME \/ LoginIssues \/ LoginFails \/ AppDies \/ \E u \in Users : LoginChecks(u)
        PROVE  login'.stage # "half"
    BY <2>1 DEF LoginIssues, LoginFails, AppDies, LoginChecks, NoLogin
  <2>2. ASSUME PhoneStep \/ RefreshStep, ~LoginIssues PROVE login' = login
    BY <2>2 DEF PhoneStep, RefreshWithoutToken, UnauthorizedAgain, LogoutClears,
       SocketJoins, requests, RefreshStep, RefreshFindsNone, RefreshFindsReplaced,
       RefreshReads, RefreshWrites, RefreshAgain, Refused
  <2>3. ASSUME \/ \E u \in Users : ResetPassword(u)
               \/ \E c \in calls : GiveUpRefresh(c) \/ CallLost(c)
               \/ \E s \in Issued : GraceEnds(s)
               \/ SocketChecks \/ \E k \in socks : SocketCloses(k)
               \/ LogoutPosts \/ LogoutUnreachable \/ BootsSignedOut
               \/ UNCHANGED authVars
        PROVE  login' = login
    BY <2>3 DEF ResetPassword, GiveUpRefresh, CallLost, GraceEnds, SocketChecks, SocketCloses,
       LogoutPosts, LogoutUnreachable, BootsSignedOut, requests, authVars
  <2> QED BY <2>1, <2>2, <2>3 DEF AuthNext
<1>4. UNCHANGED <<mixed, strange>>
  <2>1. ASSUME PhoneStep \/ RefreshStep
        PROVE  UNCHANGED <<mixed, strange>>
    BY <2>1 DEF PhoneStep, LoginIssues, RefreshWithoutToken, UnauthorizedAgain, LogoutClears,
       SocketJoins, authHistory, RefreshStep, RefreshFindsNone, RefreshFindsReplaced,
       RefreshReads, RefreshWrites, RefreshAgain, Refused
  <2>2. ASSUME \/ \E u \in Users : LoginChecks(u) \/ ResetPassword(u)
               \/ LoginFails \/ \E c \in calls : GiveUpRefresh(c) \/ CallLost(c)
               \/ \E s \in Issued : GraceEnds(s)
               \/ SocketChecks \/ \E k \in socks : SocketCloses(k)
               \/ LogoutPosts \/ LogoutUnreachable \/ AppDies \/ BootsSignedOut
               \/ UNCHANGED authVars
        PROVE  UNCHANGED <<mixed, strange>>
    BY <2>2 DEF LoginChecks, ResetPassword, LoginFails, GiveUpRefresh, CallLost, GraceEnds,
       SocketChecks, SocketCloses, LogoutPosts, LogoutUnreachable, AppDies, BootsSignedOut,
       authHistory, authVars
  <2> QED BY <2>1, <2>2 DEF AuthNext
<1>3. ASSUME NEW d \in calls', d.live PROVE \E c \in calls : c.live /\ c.tok = d.tok
  <2>1. ASSUME NEW c \in calls, \/ RefreshReads(c) \/ RefreshWrites(c) \/ RefreshAgain(c)
        PROVE  \E b \in calls : b.live /\ b.tok = d.tok
    <3>1. CASE d \in calls
      BY <1>3, <3>1
    <3>2. CASE d \notin calls
      <4>1. \/ d = [c EXCEPT !.stage = "read", !.snap = rows[of[c.tok]].cur]
            \/ d = [c EXCEPT !.stage = "done", !.new = Len(of) + 1]
            \/ d = [c EXCEPT !.stage = "sent", !.snap = 0]
        BY <2>1, <3>2 DEF RefreshReads, RefreshWrites, RefreshAgain
      <4>2. d.live = c.live /\ d.tok = c.tok
        BY <1>0, <4>1 DEF CallOf
      <4> QED BY <1>3, <4>2
    <3> QED BY <3>1, <3>2
  <2>2. \A c \in calls : ~[c EXCEPT !.live = FALSE].live
    BY <1>0 DEF CallOf
  <2>3. ASSUME AppDies \/ \E c \in calls : GiveUpRefresh(c) PROVE d \in calls
    <3>1. CASE AppDies
      BY <1>3, <2>2, <3>1 DEF AppDies
    <3>2. ASSUME NEW c \in calls, GiveUpRefresh(c) PROVE d \in calls
      <4>1. calls' \subseteq calls \cup {[c EXCEPT !.live = FALSE]}
        BY <3>2 DEF GiveUpRefresh
      <4> QED BY <1>3, <2>2, <4>1
    <3> QED BY <2>3, <3>1, <3>2
  <2>4. ASSUME NEW c \in calls, \/ RefreshFindsNone(c) \/ RefreshFindsReplaced(c) \/ CallLost(c)
        PROVE  d \in calls
    BY <2>4 DEF RefreshFindsNone, RefreshFindsReplaced, Refused, CallLost
  <2>5. ASSUME \/ LoginIssues \/ RefreshWithoutToken \/ UnauthorizedAgain \/ LogoutClears
               \/ \E k \in socks : SocketJoins(k)
               \/ \E u \in Users : LoginChecks(u) \/ ResetPassword(u)
               \/ LoginFails \/ \E s \in Issued : GraceEnds(s)
               \/ SocketChecks \/ \E k \in socks : SocketCloses(k)
               \/ LogoutPosts \/ LogoutUnreachable \/ BootsSignedOut \/ UNCHANGED authVars
        PROVE  d \in calls
    BY <2>5 DEF LoginIssues, RefreshWithoutToken, UnauthorizedAgain, LogoutClears, SocketJoins,
       LoginChecks, ResetPassword, LoginFails, GraceEnds, SocketChecks, SocketCloses, LogoutPosts,
       LogoutUnreachable, BootsSignedOut, requests, authPhone, authVars
  <2>6. d \in calls => \E c \in calls : c.live /\ c.tok = d.tok
    BY <1>3
  <2> QED BY <2>1, <2>3, <2>4, <2>5, <2>6 DEF AuthNext, PhoneStep, RefreshStep
<1> QED BY <1>1, <1>2, <1>3, <1>4 DEF NothingNew

LEMMA OneAccountStep ==
    ASSUME Shapes, OneRefresh, LoginOwns, RefreshKeeps, AtRest, OneAccount, [AuthNext]_authVars
    PROVE  OneAccount'
<1>0. /\ AuthGrows /\ 0 \notin Issued /\ 0 \notin Tokens
      /\ store \in [acc : Issued \cup {0}, ref : Tokens \cup {0}, cached : Users \cup {NoUser}]
  BY ShapesStep, Positions, PhoneShapes DEF Shapes
<1>1. ASSUME mixed PROVE OneAccount'
  <2>1. mixed'
    <3>1. CASE LoginStoresAccess \/ LoginStoresRefresh
      BY <1>1, <3>1 DEF LoginStoresAccess, LoginStoresRefresh
    <3>2. CASE NothingNew
      BY <1>1, <3>2 DEF NothingNew
    <3>3. CASE \/ StartRefresh \/ RefreshStoresRefresh \/ \E c \in calls : RefreshStoresAccess(c)
               \/ Answered \/ Ask \/ Unauthorized \/ \E online \in BOOLEAN : Boots(online)
      BY <1>1, <3>3 DEF StartRefresh, RefreshStoresRefresh, RefreshStoresAccess, Answered, Ask,
         Unauthorized, Boots, authHistory
    <3> QED BY <3>1, <3>2, <3>3, NothingNewSteps
  <2> QED BY <2>1 DEF OneAccount
<1> SUFFICES ASSUME ~mixed, ~mixed' PROVE OneAccount'
  BY <1>1 DEF OneAccount
<1>2. PICK u \in Users \cup {NoUser} : BelongsTo(u)
  BY DEF OneAccount
<1>3. ~strange
  BY DEF OneAccount
<1>4. ASSUME UNCHANGED strange, BelongsTo(u)' PROVE OneAccount'
  BY <1>3, <1>4 DEF OneAccount
<1> USE StillOf, <1>0, <1>2
<1>5. ASSUME NothingNew PROVE OneAccount'
  BY <1>4, <1>5, NothingNewKeeps DEF NothingNew
<1>6. ASSUME LoginStoresAccess PROVE OneAccount'
  <2> DEFINE w == login.user
  <2>1. /\ login.stage = "issued" /\ login' = [login EXCEPT !.stage = "half"]
        /\ store' = [store EXCEPT !.acc = login.sid]
        /\ flight = NoFlight /\ req = NoReq /\ store.acc = 0 /\ store.ref = 0
        /\ UNCHANGED <<owner, of, calls, req, user, flight, strange>>
    BY <1>6 DEF LoginStoresAccess, serverVars
  <2>2. /\ login \in [stage : {"issued", "half"}, user : Users, sid : Issued, tok : Tokens]
        /\ login # NoLogin
    BY <2>1 DEF Shapes, LoginType, NoLogin
  <2>3. user = NoUser /\ store.cached = NoUser
    BY <2>1, <2>2 DEF AtRest
  <2>4. \A c \in calls : ~c.live
    BY <2>1 DEF OneRefresh, NoFlight
  <2>5. owner[login.sid] = w
    BY <2>1 DEF LoginOwns
  <2>6. store'.acc = login.sid /\ store'.ref = 0 /\ store'.cached = NoUser /\ login'.user = w
    BY <2>1, <2>2, <2>3
  <2>7. BelongsTo(w)'
    BY <2>1, <2>3, <2>4, <2>5, <2>6 DEF BelongsTo, NoFlight
  <2> QED BY <1>3, <2>1, <2>2, <2>7 DEF OneAccount
<1>7. ASSUME LoginStoresRefresh PROVE OneAccount'
  <2>1. /\ login.stage = "half" /\ login' = NoLogin /\ user' = login.user
        /\ store' = [store EXCEPT !.ref = login.tok, !.cached = login.user]
        /\ UNCHANGED <<owner, of, calls, req, flight, strange>>
    BY <1>7 DEF LoginStoresRefresh, serverVars
  <2>2. login.user = u /\ owner[of[login.tok]] = u
    BY <2>1 DEF LoginOwns, BelongsTo
  <2>3. store'.acc = store.acc /\ store'.ref = login.tok /\ store'.cached = u
    BY <2>1, <2>2
  <2>4. BelongsTo(u)'
    BY <2>1, <2>2, <2>3 DEF BelongsTo, NoLogin
  <2> QED BY <1>4, <2>1, <2>4
<1>8. ASSUME StartRefresh PROVE OneAccount'
  <2>1. /\ calls' = calls \cup {Asking(store.ref)} /\ store.ref # 0 /\ flight' = [stage |-> "asked"]
        /\ Asking(store.ref).tok = store.ref
        /\ UNCHANGED <<owner, of, login, req, store, user, strange>>
    BY <1>8 DEF StartRefresh, serverVars, authHistory, Asking
  <2>2. \A c \in calls' : c.live => owner[of[c.tok]] = u
    BY <2>1 DEF BelongsTo
  <2>3. BelongsTo(u)'
    BY <2>1, <2>2 DEF BelongsTo
  <2> QED BY <1>4, <2>1, <2>3
<1>9. ASSUME NEW c \in calls, RefreshStoresAccess(c) PROVE OneAccount'
  <2>1. /\ c.live /\ c.stage = "done" /\ calls' = calls \ {c}
        /\ store' = [store EXCEPT !.acc = of[c.new]] /\ flight' = [stage |-> "half", tok |-> c.new]
        /\ UNCHANGED <<owner, of, login, req, user, strange>>
    BY <1>9 DEF RefreshStoresAccess, serverVars, authHistory
  <2>2. owner[of[c.new]] = u
    BY <2>1 DEF RefreshKeeps, BelongsTo
  <2>3. store'.acc = of[c.new] /\ store'.ref = store.ref /\ store'.cached = store.cached
    BY <2>1
  <2>4. BelongsTo(u)'
    BY <2>1, <2>2, <2>3 DEF BelongsTo
  <2> QED BY <1>4, <2>1, <2>4
<1>10. ASSUME RefreshStoresRefresh PROVE OneAccount'
  <2>1. /\ flight.stage = "half" /\ store' = [store EXCEPT !.ref = flight.tok] /\ flight' = NoFlight
        /\ UNCHANGED <<owner, of, calls, login, user, strange>>
        /\ \/ req' \in {req, NoReq}
           \/ /\ req' = [stage |-> "sent", sid |-> store.acc, by |-> req.by, retried |-> TRUE]
              /\ store.acc # 0 /\ req.stage = "refreshing"
    BY <1>10 DEF RefreshStoresRefresh, serverVars, authHistory
  <2>2. store'.acc = store.acc /\ store'.ref = flight.tok /\ store'.cached = store.cached
    BY <2>1
  <2>3. req' # NoReq => req'.by = u /\ (req'.stage = "sent" => owner[req'.sid] = u)
    <3>1. CASE req' \in {req, NoReq}
      BY <3>1 DEF BelongsTo
    <3>2. CASE /\ req' = [stage |-> "sent", sid |-> store.acc, by |-> req.by, retried |-> TRUE]
               /\ store.acc # 0 /\ req.stage = "refreshing"
      BY <3>2 DEF BelongsTo, NoReq
    <3> QED BY <2>1, <3>1, <3>2
  <2>4. BelongsTo(u)'
    BY <2>1, <2>2, <2>3 DEF BelongsTo, NoFlight
  <2> QED BY <1>4, <2>1, <2>4
<1>11. ASSUME Answered PROVE OneAccount'
  <2>1. /\ req.stage = "sent" /\ req' = NoReq /\ strange' = (strange \/ owner[req.sid] # req.by)
        /\ UNCHANGED <<owner, of, calls, login, store, user, flight>>
    BY <1>11 DEF Answered, serverVars, authPhone
  <2>2. owner[req.sid] = req.by
    BY <2>1 DEF BelongsTo, NoReq
  <2>3. BelongsTo(u)'
    BY <2>1 DEF BelongsTo
  <2> QED BY <1>3, <2>1, <2>2, <2>3 DEF OneAccount
<1>12. ASSUME Ask PROVE OneAccount'
  <2>1. /\ user # NoUser /\ store.acc # 0
        /\ req' = [stage |-> "sent", sid |-> store.acc, by |-> user, retried |-> FALSE]
        /\ UNCHANGED <<owner, of, calls, login, store, user, flight, strange>>
    BY <1>12 DEF Ask, serverVars, authPhone, authHistory
  <2>2. req'.by = u /\ owner[req'.sid] = u
    BY <2>1 DEF BelongsTo
  <2>3. BelongsTo(u)'
    BY <2>1, <2>2 DEF BelongsTo
  <2> QED BY <1>4, <2>1, <2>3
<1>13. ASSUME Unauthorized PROVE OneAccount'
  <2>1. /\ req.stage = "sent" /\ req' = [stage |-> "refreshing", by |-> req.by]
        /\ UNCHANGED <<owner, of, calls, login, store, user, flight, strange>>
    BY <1>13 DEF Unauthorized, serverVars, authPhone, authHistory
  <2>2. req'.by = u /\ req'.stage # "sent"
    BY <2>1 DEF BelongsTo, NoReq
  <2>3. BelongsTo(u)'
    BY <2>1, <2>2 DEF BelongsTo
  <2> QED BY <1>4, <2>1, <2>3
<1>14. ASSUME NEW online \in BOOLEAN, Boots(online) PROVE OneAccount'
  <2>1. /\ store.acc # 0 /\ UNCHANGED <<owner, of, calls, login, req, flight, strange>>
        /\ \/ user' = owner[store.acc] /\ store' = [store EXCEPT !.cached = user']
           \/ user' = store.cached /\ store' = store
    BY <1>14 DEF Boots, serverVars, requests, authHistory
  <2>2. user' \in {NoUser, u} /\ store'.cached \in {NoUser, u}
    BY <2>1 DEF BelongsTo
  <2>3. store'.acc = store.acc /\ store'.ref = store.ref
    BY <2>1
  <2>4. BelongsTo(u)'
    BY <2>1, <2>2, <2>3 DEF BelongsTo
  <2> QED BY <1>4, <2>1, <2>4
<1> QED
  BY <1>5, <1>6, <1>7, <1>8, <1>9, <1>10, <1>11, <1>12, <1>13, <1>14, NothingNewSteps

(***************************************************************************)
(* The tokens a phone uses are those of the account it shows, and no       *)
(* request is carried out for another account than the one it was made by, *)
(* unless a sign-in found work of an earlier one (TokensAreUsers). The     *)
(* inductive invariant says it of every place a token can be in: storage,  *)
(* the refresh in flight, the waiting request, the login being stored.     *)
(***************************************************************************)
THEOREM AuthTokensAreUsers == AuthSpec => []TokensAreUsers
<1> DEFINE IInv == Shapes /\ OneRefresh /\ LoginOwns /\ RefreshKeeps /\ AtRest /\ OneAccount
<1>1. AuthInit => IInv
  <2> SUFFICES ASSUME AuthInit PROVE IInv
    OBVIOUS
  <2>1. Shapes
    BY ShapesInit
  <2>2. OneRefresh /\ LoginOwns /\ RefreshKeeps
    BY DEF AuthInit, OneRefresh, LoginOwns, RefreshKeeps, NoLogin
  <2>3. AtRest
    BY DEF AuthInit, AtRest, Empty
  <2>4. BelongsTo(NoUser) /\ ~strange
    BY DEF AuthInit, BelongsTo, Empty, NoFlight, NoLogin
  <2> QED BY <2>1, <2>2, <2>3, <2>4 DEF OneAccount
<1>2. IInv /\ [AuthNext]_authVars => IInv'
  BY ShapesStep, OneRefreshStep, LoginOwnsStep, RefreshKeepsStep, AtRestStep, OneAccountStep
<1>3. IInv => TokensAreUsers
  BY DEF OneAccount, BelongsTo, TokensAreUsers
<1> QED BY <1>1, <1>2, <1>3, PTL DEF AuthSpec

-----------------------------------------------------------------------------
(* Rotation *)

\* t is the newest token of its session, or nobody will ask for it again.
Fresh(t) == ~rows[of[t]].live \/ of[t] \in overdue \/ rows[of[t]].cur = t
Usable(t) == ~rows[of[t]].live \/ of[t] \in overdue \/ t \in {rows[of[t]].cur, rows[of[t]].prev}

\* Until a login is stored nothing else is of its session.
LoginAlone ==
    login.stage \in {"issued", "half"} =>
        /\ rows[login.sid].cur = login.tok
        /\ \A c \in calls : of[c.tok] # login.sid
        /\ store.ref # 0 => of[store.ref] # login.sid
        /\ flight.stage = "half" => of[flight.tok] # login.sid

\* The token a refresh was asked with stays stored until the refresh's is.
TokenKept ==
    \A c \in calls : c.live /\ store.ref # 0 /\ of[store.ref] = of[c.tok] => store.ref = c.tok

DoneIsFresh == \A c \in calls : c.stage = "done" => c.live /\ Fresh(c.new)
HalfIsFresh == flight.stage = "half" => Fresh(flight.tok)
StoredIsUsable == store.ref # 0 => Usable(store.ref)

\* What a refresh has read allows it to replace its own token only.
ReadIsUsable ==
    \A c \in calls : c.stage = "read" /\ rows[of[c.tok]].cur = c.snap
                        => c.tok \in {c.snap, rows[of[c.tok]].prev}

LateIsMissed == overdue \subseteq missed /\ \A c \in calls : ~c.live => of[c.tok] \in missed

\* The stored token is the current one, or the current one is on its way to storage.
StoredOrOnItsWay ==
    store.ref # 0 /\ of[store.ref] \notin missed /\ rows[of[store.ref]].live =>
        \/ store.ref = rows[of[store.ref]].cur
        \/ \E c \in calls : c.stage = "done" /\ c.tok = store.ref
        \/ flight.stage = "half" /\ of[flight.tok] = of[store.ref]

AskedIsCurrent ==
    \A c \in calls : c.live /\ c.stage # "done" /\ of[c.tok] \notin missed /\ rows[of[c.tok]].live
                        => c.tok = rows[of[c.tok]].cur

Rotation ==
    /\ LoginAlone /\ TokenKept /\ DoneIsFresh /\ HalfIsFresh /\ StoredIsUsable /\ ReadIsUsable
    /\ LateIsMissed /\ StoredOrOnItsWay /\ AskedIsCurrent

RotationBase == Shapes /\ OneRefresh /\ LoginOwns /\ RefreshKeeps /\ Rotation

\* Without a refresh's write no token of a session is replaced.
TokensSettle ==
    /\ AuthGrows /\ overdue' = overdue
    /\ \A s \in Issued : rows'[s].cur = rows[s].cur
    /\ \A t \in Tokens : /\ rows'[of[t]].cur = rows[of[t]].cur
                         /\ rows'[of[t]].prev = rows[of[t]].prev
                         /\ rows'[of[t]].live => rows[of[t]].live
                         /\ Fresh(t) => Fresh(t)'
                         /\ Usable(t) => Usable(t)'

LEMMA OverdueStep ==
    ASSUME [AuthNext]_authVars, ~\E c \in calls : RefreshWrites(c)
    PROVE  overdue' = overdue
<1>1. ASSUME PhoneStep \/ RefreshStep PROVE overdue' = overdue
  BY <1>1 DEF PhoneStep, LoginIssues, LoginStoresAccess, LoginStoresRefresh, StartRefresh,
     RefreshWithoutToken, RefreshStoresRefresh, RefreshStoresAccess, Answered, UnauthorizedAgain,
     LogoutClears, SocketJoins, authHistory, RefreshStep, RefreshFindsNone, RefreshFindsReplaced,
     RefreshReads, RefreshAgain
<1>2. ASSUME \/ \E u \in Users : LoginChecks(u) \/ ResetPassword(u)
             \/ LoginFails \/ \E c \in calls : GiveUpRefresh(c) \/ CallLost(c)
             \/ \E s \in Issued : GraceEnds(s)
             \/ Ask \/ Unauthorized \/ SocketChecks \/ \E k \in socks : SocketCloses(k)
             \/ LogoutPosts \/ LogoutUnreachable \/ AppDies
             \/ BootsSignedOut \/ \E online \in BOOLEAN : Boots(online)
             \/ UNCHANGED authVars
      PROVE  overdue' = overdue
  BY <1>2 DEF LoginChecks, ResetPassword, LoginFails, GiveUpRefresh, CallLost, GraceEnds, Ask,
     Unauthorized, SocketChecks, SocketCloses, LogoutPosts, LogoutUnreachable, AppDies,
     BootsSignedOut, Boots, authHistory, authVars
<1> QED BY <1>1, <1>2 DEF AuthNext

LEMMA SettlesWithoutWrites ==
    ASSUME Shapes, [AuthNext]_authVars, ~\E c \in calls : RefreshWrites(c)
    PROVE  TokensSettle
<1>1. AuthGrows /\ \A s \in Issued : /\ rows'[s].live => rows[s].live
                                     /\ rows'[s].cur = rows[s].cur /\ rows'[s].prev = rows[s].prev
  BY RowsStep, IssuedRows
<1>2. overdue' = overdue /\ \A t \in Tokens : of[t] \in Issued /\ of'[t] = of[t]
  BY <1>1, OverdueStep, Positions DEF Shapes, AuthGrows
<1>3. ASSUME NEW t \in Tokens
      PROVE  (Fresh(t) => Fresh(t)') /\ (Usable(t) => Usable(t)')
  BY <1>1, <1>2 DEF Fresh, Usable
<1> QED BY <1>1, <1>2, <1>3 DEF TokensSettle

\* Steps that neither bring a token to the phone nor a refresh further.
Calm ==
    /\ calls' \subseteq calls /\ store'.ref \in {store.ref, 0}
    /\ \/ flight' = flight
       \/ flight' = NoFlight /\ store'.ref = 0
    /\ \A c \in calls : c.stage = "done" => c \in calls' \/ store'.ref = 0
    /\ login'.stage \in {"issued", "half"} =>
         /\ login.stage \in {"issued", "half"} /\ login'.sid = login.sid /\ login'.tok = login.tok
    /\ missed' = missed

LEMMA CalmRotates == RotationBase /\ TokensSettle /\ Calm => Rotation'
<1> SUFFICES ASSUME RotationBase, TokensSettle, Calm PROVE Rotation'
  OBVIOUS
<1>1. /\ store.ref # 0 => store.ref \in Tokens /\ of'[store.ref] = of[store.ref]
      /\ \A c \in calls : /\ c.tok \in Tokens /\ of'[c.tok] = of[c.tok]
                          /\ c.stage = "done" => c.new \in Tokens
      /\ flight.stage = "half" => flight.tok \in Tokens /\ of'[flight.tok] = of[flight.tok]
      /\ login.stage \in {"issued", "half"} => login.sid \in Issued
  BY PhoneShapes DEF RotationBase, TokensSettle, AuthGrows, CallOf, Shapes, CallsType
<1>2. flight'.stage = "half" => flight' = flight
  BY DEF Calm, NoFlight
<1>3. LoginAlone'
  <2> SUFFICES ASSUME login'.stage \in {"issued", "half"}
               PROVE  /\ rows'[login'.sid].cur = login'.tok
                      /\ \A c \in calls' : of'[c.tok] # login'.sid
                      /\ store'.ref # 0 => of'[store'.ref] # login'.sid
                      /\ flight'.stage = "half" => of'[flight'.tok] # login'.sid
    BY DEF LoginAlone
  <2>1. /\ login.stage \in {"issued", "half"} /\ login'.sid = login.sid /\ login'.tok = login.tok
        /\ LoginAlone
    BY DEF Calm, RotationBase, Rotation
  <2> QED BY <1>1, <1>2, <2>1 DEF LoginAlone, Calm, TokensSettle
<1>4. TokenKept'
  BY <1>1 DEF TokenKept, Calm, RotationBase, Rotation
<1>5. DoneIsFresh'
  BY <1>1 DEF DoneIsFresh, Calm, TokensSettle, RotationBase, Rotation
<1>6. HalfIsFresh'
  BY <1>1, <1>2 DEF HalfIsFresh, TokensSettle, RotationBase, Rotation
<1>7. StoredIsUsable'
  BY <1>1 DEF StoredIsUsable, Calm, TokensSettle, RotationBase, Rotation
<1>8. ReadIsUsable'
  BY <1>1 DEF ReadIsUsable, Calm, TokensSettle, RotationBase, Rotation
<1>9. LateIsMissed'
  BY <1>1 DEF LateIsMissed, Calm, TokensSettle, RotationBase, Rotation
<1>10. StoredOrOnItsWay'
  BY <1>1, <1>2 DEF StoredOrOnItsWay, Calm, TokensSettle, RotationBase, Rotation, NoFlight
<1>11. AskedIsCurrent'
  BY <1>1 DEF AskedIsCurrent, Calm, TokensSettle, RotationBase, Rotation
<1> QED BY <1>3, <1>4, <1>5, <1>6, <1>7, <1>8, <1>9, <1>10, <1>11 DEF Rotation

LEMMA CalmSteps ==
    ASSUME RotationBase, [AuthNext]_authVars,
           ~LoginIssues, ~LoginStoresRefresh, ~StartRefresh, ~RefreshStoresRefresh, ~AppDies,
           ~\E c \in calls : \/ RefreshStoresAccess(c) \/ GiveUpRefresh(c) \/ RefreshReads(c)
                             \/ RefreshWrites(c) \/ RefreshAgain(c)
    PROVE  Calm
<1>0. Shapes /\ OneRefresh
  BY DEF RotationBase
<1>1. ASSUME NEW c \in calls, RefreshFindsNone(c) \/ RefreshFindsReplaced(c) PROVE Calm
  <2>1. /\ c.stage = "sent" /\ calls' = calls \ {c} /\ login' = login /\ missed' = missed
        /\ IF c.live THEN store' = Empty /\ flight' = NoFlight ELSE UNCHANGED <<store, flight>>
    BY <1>1 DEF RefreshFindsNone, RefreshFindsReplaced, Refused, SignOutLocally, Clear, authHistory
  <2> QED BY <2>1 DEF Calm, Empty
<1>2. ASSUME NEW c \in calls, CallLost(c) PROVE Calm
  <2>1. c.stage = "sent" /\ calls' = calls \ {c} /\ UNCHANGED <<store, flight, login, missed>>
    BY <1>2 DEF CallLost, authPhone, authHistory
  <2> QED BY <2>1 DEF Calm
<1>3. ASSUME NEW u \in Users, LoginChecks(u) PROVE Calm
  BY <1>3 DEF LoginChecks, Calm, authPhone, authHistory
<1>4. ASSUME LoginFails PROVE Calm
  BY <1>4 DEF LoginFails, Calm, NoLogin, authPhone, authHistory
<1>5. ASSUME LoginStoresAccess PROVE Calm
  <2>1. /\ login.stage = "issued" /\ login' = [login EXCEPT !.stage = "half"]
        /\ store' = [store EXCEPT !.acc = login.sid] /\ UNCHANGED <<calls, flight, missed>>
    BY <1>5 DEF LoginStoresAccess
  <2>2. login'.sid = login.sid /\ login'.tok = login.tok /\ store'.ref = store.ref
    BY <1>0, <2>1, PhoneShapes DEF Shapes, LoginType, NoLogin
  <2> QED BY <2>1, <2>2 DEF Calm
<1>6. ASSUME \/ RefreshWithoutToken \/ Answered \/ UnauthorizedAgain \/ LogoutClears
             \/ \E k \in socks : SocketJoins(k)
      PROVE  /\ UNCHANGED <<calls, flight, login, missed>>
             /\ store' = store \/ store' = Empty
  BY <1>6 DEF RefreshWithoutToken, Answered, UnauthorizedAgain, LogoutClears, SocketJoins,
     SignOutLocally, Clear, requests, authPhone, authHistory
<1>7. ASSUME \/ \E u \in Users : ResetPassword(u)
             \/ \E s \in Issued : GraceEnds(s)
             \/ Ask \/ Unauthorized \/ SocketChecks \/ \E k \in socks : SocketCloses(k)
             \/ LogoutPosts \/ LogoutUnreachable
             \/ BootsSignedOut \/ UNCHANGED authVars
      PROVE  UNCHANGED <<calls, flight, login, missed, store>>
  BY <1>7 DEF ResetPassword, GraceEnds, Ask, Unauthorized, SocketChecks, SocketCloses, LogoutPosts,
     LogoutUnreachable, BootsSignedOut, requests, authPhone, authHistory, authVars
<1>8. ASSUME NEW online \in BOOLEAN, Boots(online) PROVE Calm
  <2>1. /\ UNCHANGED <<calls, flight, login, missed>>
        /\ store' = store \/ store' = [store EXCEPT !.cached = user']
    BY <1>8 DEF Boots, requests, authHistory
  <2>2. store'.ref = store.ref
    BY <1>0, <2>1, PhoneShapes
  <2> QED BY <2>1, <2>2 DEF Calm
<1>9. ASSUME UNCHANGED <<calls, flight, login, missed>>, store' = store \/ store' = Empty PROVE Calm
  BY <1>9 DEF Calm, Empty
<1> QED BY <1>1, <1>2, <1>3, <1>4, <1>5, <1>6, <1>7, <1>8, <1>9 DEF AuthNext, PhoneStep, RefreshStep

\* What the lemmas below know of the tokens the phone holds.
LEMMA HeldTokens ==
    ASSUME RotationBase, TokensSettle
    PROVE  /\ store.ref # 0 => store.ref \in Tokens /\ of'[store.ref] = of[store.ref]
                               /\ of[store.ref] \in Issued
           /\ \A c \in calls : /\ c.tok \in Tokens /\ of'[c.tok] = of[c.tok] /\ of[c.tok] \in Issued
                               /\ c.stage = "done" => c.new \in Tokens /\ of[c.new] = of[c.tok]
                                                      /\ of'[c.new] = of[c.new]
           /\ flight.stage = "half" => flight.tok \in Tokens /\ of'[flight.tok] = of[flight.tok]
                                       /\ of[flight.tok] \in Issued
           /\ login.stage \in {"issued", "half"} => /\ login.sid \in Issued /\ login.tok \in Tokens
                                                    /\ of[login.tok] = login.sid
<1>1. Shapes /\ LoginOwns /\ RefreshKeeps /\ AuthGrows
  BY DEF RotationBase, TokensSettle
<1>2. \A c \in calls : c.tok \in Tokens /\ (c.stage = "done" => c.new \in Tokens)
  BY <1>1 DEF Shapes, CallsType
<1>3. \A t \in Tokens : of'[t] = of[t]
  BY <1>1 DEF AuthGrows
<1> QED BY <1>1, <1>2, <1>3, PhoneShapes DEF LoginOwns, RefreshKeeps

LEMMA LoginIssuesRotates == RotationBase /\ TokensSettle /\ LoginIssues => Rotation'
<1> SUFFICES ASSUME RotationBase, TokensSettle, LoginIssues PROVE Rotation'
  OBVIOUS
<1>0. /\ UNCHANGED <<calls, store, flight, missed>> /\ Shapes /\ OneRefresh
      /\ login' = [stage |-> "issued", user |-> login.user, sid |-> Len(owner) + 1,
                   tok |-> Len(of) + 1]
  BY DEF LoginIssues, authPhone, authHistory, RotationBase
<1> USE HeldTokens
<1>1. LoginAlone'
  <2>1. Len(owner) + 1 \notin Issued /\ rows'[Len(owner) + 1].cur = Len(of) + 1
    BY <1>0, IssuedRows
  <2> QED BY <1>0, <2>1 DEF LoginAlone
<1>2. TokenKept' /\ DoneIsFresh' /\ HalfIsFresh' /\ StoredIsUsable'
  BY <1>0 DEF TokenKept, DoneIsFresh, HalfIsFresh, StoredIsUsable, TokensSettle, RotationBase,
     Rotation
<1>3. ReadIsUsable' /\ LateIsMissed'
  BY <1>0 DEF ReadIsUsable, LateIsMissed, TokensSettle, RotationBase, Rotation
<1>4. StoredOrOnItsWay' /\ AskedIsCurrent'
  BY <1>0 DEF StoredOrOnItsWay, AskedIsCurrent, TokensSettle, RotationBase, Rotation
<1> QED BY <1>1, <1>2, <1>3, <1>4 DEF Rotation

LEMMA LoginStoresRotates == RotationBase /\ TokensSettle /\ LoginStoresRefresh => Rotation'
<1> SUFFICES ASSUME RotationBase, TokensSettle, LoginStoresRefresh PROVE Rotation'
  OBVIOUS
<1>0. /\ UNCHANGED <<calls, flight, missed>> /\ Shapes /\ login' = NoLogin /\ login.stage = "half"
      /\ store' = [store EXCEPT !.ref = login.tok, !.cached = login.user]
  BY DEF LoginStoresRefresh, RotationBase
<1> USE HeldTokens
<1>1. /\ store'.ref = login.tok /\ of[login.tok] = login.sid /\ rows[login.sid].cur = login.tok
      /\ \A c \in calls : of[c.tok] # login.sid
      /\ flight.stage = "half" => of[flight.tok] # login.sid
  BY <1>0, PhoneShapes DEF RotationBase, Rotation, LoginAlone
<1>2. LoginAlone'
  BY <1>0 DEF LoginAlone, NoLogin
<1>3. TokenKept'
  BY <1>0, <1>1 DEF TokenKept, TokensSettle, AuthGrows
<1>4. StoredIsUsable'
  BY <1>0, <1>1 DEF StoredIsUsable, TokensSettle, Usable
<1>5. DoneIsFresh' /\ HalfIsFresh' /\ ReadIsUsable' /\ LateIsMissed'
  BY <1>0 DEF DoneIsFresh, HalfIsFresh, ReadIsUsable, LateIsMissed, TokensSettle, RotationBase,
     Rotation
<1>6. StoredOrOnItsWay'
  BY <1>0, <1>1 DEF StoredOrOnItsWay, TokensSettle, AuthGrows
<1>7. AskedIsCurrent'
  BY <1>0 DEF AskedIsCurrent, TokensSettle, RotationBase, Rotation
<1> QED BY <1>2, <1>3, <1>4, <1>5, <1>6, <1>7 DEF Rotation

LEMMA StartRotates == RotationBase /\ TokensSettle /\ StartRefresh => Rotation'
<1> SUFFICES ASSUME RotationBase, TokensSettle, StartRefresh PROVE Rotation'
  OBVIOUS
<1> DEFINE n == Asking(store.ref)
<1>0. /\ UNCHANGED <<store, login, missed>> /\ flight = NoFlight /\ flight' = [stage |-> "asked"]
      /\ store.ref # 0 /\ calls' = calls \cup {n}
      /\ n.tok = store.ref /\ n.stage = "sent" /\ n.live = TRUE
      /\ \A c \in calls : ~c.live
  BY DEF StartRefresh, authHistory, Asking, RotationBase, OneRefresh, NoFlight
<1> HIDE DEF n
<1> USE HeldTokens
<1>1. LoginAlone'
  BY <1>0 DEF LoginAlone, TokensSettle, RotationBase, Rotation
<1>2. TokenKept'
  BY <1>0 DEF TokenKept, RotationBase, Rotation
<1>3. DoneIsFresh' /\ HalfIsFresh' /\ StoredIsUsable'
  BY <1>0 DEF DoneIsFresh, HalfIsFresh, StoredIsUsable, TokensSettle, RotationBase, Rotation
<1>4. ReadIsUsable' /\ LateIsMissed'
  BY <1>0 DEF ReadIsUsable, LateIsMissed, TokensSettle, RotationBase, Rotation
<1>5. of[store.ref] \notin missed /\ rows[of[store.ref]].live => store.ref = rows[of[store.ref]].cur
  BY <1>0 DEF StoredOrOnItsWay, DoneIsFresh, RotationBase, Rotation, NoFlight
<1>6. StoredOrOnItsWay' /\ AskedIsCurrent'
  BY <1>0, <1>5 DEF StoredOrOnItsWay, AskedIsCurrent, TokensSettle
<1> QED BY <1>1, <1>2, <1>3, <1>4, <1>6 DEF Rotation

LEMMA GiveUpRotates ==
    ASSUME RotationBase, TokensSettle, NEW c \in calls, GiveUpRefresh(c)
    PROVE  Rotation'
<1> DEFINE n == [c EXCEPT !.live = FALSE]
<1>0. /\ UNCHANGED <<store, login>> /\ flight' = NoFlight /\ c.live
      /\ calls' = (calls \ {c}) \cup (IF c.stage = "done" THEN {} ELSE {n})
      /\ missed' = missed \cup {of[c.tok]}
      /\ \A d \in calls : d.live => d = c
  BY DEF GiveUpRefresh, RotationBase, OneRefresh
<1>00. n.tok = c.tok /\ n.stage = c.stage /\ n.snap = c.snap /\ n.new = c.new /\ ~n.live
  BY PhoneShapes DEF RotationBase, CallOf
<1> HIDE DEF n
<1> USE HeldTokens
<1>1. LoginAlone'
  BY <1>0, <1>00 DEF LoginAlone, TokensSettle, RotationBase, Rotation, NoFlight
<1>2. TokenKept'
  BY <1>0, <1>00 DEF TokenKept, RotationBase, Rotation
<1>3. DoneIsFresh' /\ HalfIsFresh' /\ StoredIsUsable'
  BY <1>0, <1>00 DEF DoneIsFresh, HalfIsFresh, StoredIsUsable, TokensSettle, RotationBase, Rotation,
     NoFlight
<1>4. ReadIsUsable'
  BY <1>0, <1>00 DEF ReadIsUsable, TokensSettle, RotationBase, Rotation
<1>5. LateIsMissed'
  BY <1>0, <1>00 DEF LateIsMissed, TokensSettle, RotationBase, Rotation
<1>6. StoredOrOnItsWay'
  <2>1. \A d \in calls : d.stage = "done" => d \in calls' \/ of[d.tok] \in missed'
    BY <1>0, <1>00
  <2>2. flight.stage # "half"
    BY <1>0 DEF RotationBase, OneRefresh
  <2> QED BY <1>0, <2>1, <2>2 DEF StoredOrOnItsWay, TokensSettle, RotationBase, Rotation
<1>7. AskedIsCurrent'
  BY <1>0, <1>00 DEF AskedIsCurrent, TokensSettle, RotationBase, Rotation
<1> QED BY <1>1, <1>2, <1>3, <1>4, <1>5, <1>6, <1>7 DEF Rotation

LEMMA StoresAccessRotates ==
    ASSUME RotationBase, TokensSettle, NEW c \in calls, RefreshStoresAccess(c)
    PROVE  Rotation'
<1>0. /\ UNCHANGED <<login, missed>> /\ flight' = [stage |-> "half", tok |-> c.new]
      /\ c.live /\ c.stage = "done" /\ calls' = calls \ {c}
      /\ store' = [store EXCEPT !.acc = of[c.new]]
      /\ \A d \in calls : d.live => d = c
  BY DEF RefreshStoresAccess, authHistory, RotationBase, OneRefresh
<1>00. store'.ref = store.ref
  BY <1>0, PhoneShapes DEF RotationBase
<1> USE HeldTokens
<1>1. LoginAlone'
  BY <1>0, <1>00 DEF LoginAlone, TokensSettle, RotationBase, Rotation
<1>2. TokenKept' /\ DoneIsFresh'
  BY <1>0, <1>00 DEF TokenKept, DoneIsFresh, TokensSettle, RotationBase, Rotation
<1>3. HalfIsFresh'
  BY <1>0 DEF HalfIsFresh, DoneIsFresh, TokensSettle, RotationBase, Rotation
<1>4. StoredIsUsable' /\ ReadIsUsable' /\ LateIsMissed'
  BY <1>0, <1>00 DEF StoredIsUsable, ReadIsUsable, LateIsMissed, TokensSettle, RotationBase,
     Rotation
<1>5. StoredOrOnItsWay'
  <2>1. \A d \in calls : d.stage = "done" => d = c
    BY <1>0 DEF DoneIsFresh, RotationBase, Rotation
  <2>2. flight.stage # "half"
    BY <1>0 DEF RotationBase, OneRefresh
  <2> QED BY <1>0, <1>00, <2>1, <2>2 DEF StoredOrOnItsWay, TokensSettle, RotationBase, Rotation
<1>6. AskedIsCurrent'
  BY <1>0, <1>00 DEF AskedIsCurrent, TokensSettle, RotationBase, Rotation
<1> QED BY <1>1, <1>2, <1>3, <1>4, <1>5, <1>6 DEF Rotation

LEMMA StoresRefreshRotates == RotationBase /\ TokensSettle /\ RefreshStoresRefresh => Rotation'
<1> SUFFICES ASSUME RotationBase, TokensSettle, RefreshStoresRefresh PROVE Rotation'
  OBVIOUS
<1>0. /\ UNCHANGED <<calls, login, missed>> /\ flight' = NoFlight /\ flight.stage = "half"
      /\ store' = [store EXCEPT !.ref = flight.tok]
      /\ \A d \in calls : ~d.live
  BY DEF RefreshStoresRefresh, authHistory, RotationBase, OneRefresh
<1>00. store'.ref = flight.tok /\ Fresh(flight.tok)
  BY <1>0, PhoneShapes DEF RotationBase, Rotation, HalfIsFresh
<1> USE HeldTokens
<1>1. LoginAlone'
  BY <1>0, <1>00 DEF LoginAlone, TokensSettle, RotationBase, Rotation, NoFlight
<1>2. TokenKept' /\ DoneIsFresh' /\ HalfIsFresh'
  BY <1>0, <1>00 DEF TokenKept, DoneIsFresh, HalfIsFresh, TokensSettle, RotationBase, Rotation,
     NoFlight
<1>3. StoredIsUsable'
  BY <1>0, <1>00 DEF StoredIsUsable, TokensSettle, Fresh, Usable
<1>4. ReadIsUsable' /\ LateIsMissed'
  BY <1>0, <1>00 DEF ReadIsUsable, LateIsMissed, TokensSettle, RotationBase, Rotation
<1>5. StoredOrOnItsWay'
  <2>1. overdue \subseteq missed
    BY DEF LateIsMissed, RotationBase, Rotation
  <2> QED BY <1>0, <1>00, <2>1 DEF StoredOrOnItsWay, TokensSettle, Fresh
<1>6. AskedIsCurrent'
  BY <1>0, <1>00 DEF AskedIsCurrent, TokensSettle, RotationBase, Rotation
<1> QED BY <1>1, <1>2, <1>3, <1>4, <1>5, <1>6 DEF Rotation

\* A refresh goes on, without a write: what is known of it stays true.
LEMMA GoesOnRotates ==
    ASSUME RotationBase, TokensSettle, NEW c \in calls, NEW n,
           UNCHANGED <<store, login, flight, missed>>, calls' = (calls \ {c}) \cup {n},
           c.stage # "done", n.stage # "done", n.tok = c.tok, n.live = c.live,
           n.stage = "read" /\ rows[of[c.tok]].cur = n.snap
               => c.tok \in {n.snap, rows[of[c.tok]].prev}
    PROVE  Rotation'
<1> USE HeldTokens
<1>1. LoginAlone' /\ TokenKept'
  BY DEF LoginAlone, TokenKept, TokensSettle, RotationBase, Rotation
<1>2. DoneIsFresh' /\ HalfIsFresh' /\ StoredIsUsable'
  BY DEF DoneIsFresh, HalfIsFresh, StoredIsUsable, TokensSettle, RotationBase, Rotation
<1>3. ReadIsUsable' /\ LateIsMissed'
  BY DEF ReadIsUsable, LateIsMissed, TokensSettle, RotationBase, Rotation
<1>4. StoredOrOnItsWay'
  BY DEF StoredOrOnItsWay, TokensSettle, RotationBase, Rotation
<1>5. AskedIsCurrent'
  BY DEF AskedIsCurrent, TokensSettle, RotationBase, Rotation
<1> QED BY <1>1, <1>2, <1>3, <1>4, <1>5 DEF Rotation

LEMMA ReadsRotates ==
    ASSUME RotationBase, TokensSettle, NEW c \in calls, RefreshReads(c) \/ RefreshAgain(c)
    PROVE  Rotation'
<1>1. c \in CallOf(Tokens) /\ UNCHANGED <<store, login, flight, missed>>
  BY PhoneShapes DEF RotationBase, RefreshReads, RefreshAgain, authPhone, authHistory
<1>2. CASE RefreshReads(c)
  <2> DEFINE n == [c EXCEPT !.stage = "read", !.snap = rows[of[c.tok]].cur]
  <2>1. /\ n.stage = "read" /\ n.snap = rows[of[c.tok]].cur /\ n.tok = c.tok /\ n.live = c.live
        /\ c.stage = "sent" /\ calls' = (calls \ {c}) \cup {n}
        /\ c.tok \in {rows[of[c.tok]].cur, rows[of[c.tok]].prev}
    BY <1>1, <1>2 DEF RefreshReads, CallOf, IsCurrent, IsRecentPrevious
  <2> HIDE DEF n
  <2> QED BY <1>1, <2>1, GoesOnRotates
<1>3. CASE RefreshAgain(c)
  <2> DEFINE n == [c EXCEPT !.stage = "sent", !.snap = 0]
  <2>1. /\ n.stage = "sent" /\ n.tok = c.tok /\ n.live = c.live
        /\ c.stage = "read" /\ calls' = (calls \ {c}) \cup {n}
    BY <1>1, <1>3 DEF RefreshAgain, CallOf
  <2> HIDE DEF n
  <2> QED BY <1>1, <2>1, GoesOnRotates
<1> QED BY <1>2, <1>3

LEMMA DiesRotates == RotationBase /\ TokensSettle /\ AppDies => Rotation'
<1> SUFFICES ASSUME RotationBase, TokensSettle, AppDies PROVE Rotation'
  OBVIOUS
<1>0. /\ UNCHANGED store /\ flight' = NoFlight /\ login' = NoLogin
      /\ calls' = {[c EXCEPT !.live = FALSE] : c \in {c \in calls : c.stage # "done"}}
      /\ missed' = missed \cup {of[c.tok] : c \in {c \in calls : c.live}}
                          \cup (IF flight.stage = "half" THEN {of[flight.tok]} ELSE {})
  BY DEF AppDies
<1> USE HeldTokens
<1>1. \A n \in calls' : \E c \in calls : /\ c.stage # "done" /\ ~n.live /\ n.stage = c.stage
                                         /\ n.tok = c.tok /\ n.snap = c.snap
  <2> SUFFICES ASSUME NEW n \in calls'
               PROVE  \E c \in calls : /\ c.stage # "done" /\ ~n.live /\ n.stage = c.stage
                                       /\ n.tok = c.tok /\ n.snap = c.snap
    OBVIOUS
  <2>1. PICK c \in calls : c.stage # "done" /\ n = [c EXCEPT !.live = FALSE]
    BY <1>0
  <2>2. c \in CallOf(Tokens)
    BY PhoneShapes DEF RotationBase
  <2> QED BY <2>1, <2>2 DEF CallOf
<1>2. /\ \A c \in calls : c.live => of[c.tok] \in missed'
      /\ flight.stage = "half" => of[flight.tok] \in missed'
      /\ missed \subseteq missed'
  BY <1>0
<1>3. LoginAlone' /\ HalfIsFresh'
  BY <1>0 DEF LoginAlone, HalfIsFresh, NoLogin, NoFlight
<1>4. TokenKept' /\ DoneIsFresh' /\ AskedIsCurrent'
  BY <1>1 DEF TokenKept, DoneIsFresh, AskedIsCurrent
<1>5. StoredIsUsable'
  BY <1>0 DEF StoredIsUsable, TokensSettle, RotationBase, Rotation
<1>6. ReadIsUsable'
  BY <1>1 DEF ReadIsUsable, TokensSettle, RotationBase, Rotation
<1>7. LateIsMissed'
  BY <1>1, <1>2 DEF LateIsMissed, TokensSettle, RotationBase, Rotation
<1>8. StoredOrOnItsWay'
  <2>1. \A c \in calls : c.stage = "done" => of[c.tok] \in missed'
    BY <1>2 DEF DoneIsFresh, RotationBase, Rotation
  <2> QED BY <1>0, <1>2, <2>1 DEF StoredOrOnItsWay, TokensSettle, RotationBase, Rotation
<1> QED BY <1>3, <1>4, <1>5, <1>6, <1>7, <1>8 DEF Rotation

\* The write: it replaces the token the refresh was asked with, or the one after it.
LEMMA WritesRotates ==
    ASSUME RotationBase, NEW c \in calls, RefreshWrites(c)
    PROVE  Rotation'
<1> DEFINE s == of[c.tok]
           t == Len(of) + 1
           n == [c EXCEPT !.stage = "done", !.new = t]
<1>0. /\ Shapes /\ OneRefresh /\ LoginOwns /\ RefreshKeeps
      /\ LoginAlone /\ TokenKept /\ DoneIsFresh /\ HalfIsFresh /\ StoredIsUsable /\ ReadIsUsable
      /\ LateIsMissed /\ StoredOrOnItsWay /\ AskedIsCurrent
  BY DEF RotationBase, Rotation
<1>1. /\ UNCHANGED <<store, login, flight, missed>> /\ c.stage = "read"
      /\ calls' = (calls \ {c}) \cup (IF c.live THEN {n} ELSE {})
      /\ overdue' = IF c.live THEN overdue ELSE overdue \cup {s}
  BY DEF RefreshWrites, authPhone
<1>2. n.tok = c.tok /\ n.new = t /\ n.stage = "done" /\ n.live = c.live
  BY <1>0, PhoneShapes DEF CallOf
<1>3. /\ t \notin Tokens /\ of'[t] = s /\ rows'[s].live /\ rows'[s].cur = t /\ s \in Issued
      /\ rows[s].live /\ rows[s].cur = c.snap
      /\ rows'[s].prev = IF c.tok = c.snap THEN c.snap ELSE rows[s].prev
      /\ \A r \in Issued \ {s} : rows'[r] = rows[r]
      /\ \A k \in Tokens : of'[k] = of[k] /\ of[k] \in Issued
  BY <1>0, WrittenRows, Positions DEF AuthGrows, Shapes
<1>4. c.tok \in {c.snap, rows[s].prev}
  BY <1>0, <1>1, <1>3 DEF ReadIsUsable
<1>5. \A d \in calls : d.live /\ c.live => d = c
  BY <1>0 DEF OneRefresh
<1>6. /\ store.ref # 0 => store.ref \in Tokens
      /\ \A d \in calls : /\ d.tok \in Tokens /\ d.snap \in Tokens \cup {0}
                          /\ d.stage = "done" => d.new \in Tokens /\ of[d.new] = of[d.tok]
      /\ flight.stage = "half" => flight.tok \in Tokens
      /\ login.stage \in {"issued", "half"} => login.sid \in Issued /\ login.tok \in Tokens
      /\ t # 0
  <2>1. \A d \in calls : d.tok \in Tokens /\ d.snap \in Tokens \cup {0}
                         /\ (d.stage = "done" => d.new \in Tokens)
    BY <1>0 DEF Shapes, CallsType
  <2>2. t # 0
    BY <1>0, Positions, WrittenRows DEF Shapes
  <2> QED BY <1>0, <2>1, <2>2, PhoneShapes DEF RefreshKeeps
<1> HIDE DEF n, t, s
<1>7. c.tok \in Tokens /\ s = of[c.tok]
  BY <1>6 DEF s
<1>8. LoginAlone'
  BY <1>0, <1>1, <1>2, <1>3, <1>6, <1>7 DEF LoginAlone
<1>9. TokenKept'
  BY <1>0, <1>1, <1>2, <1>3, <1>6, <1>7 DEF TokenKept
\* For another session, or for one with a late refresh, nothing changes.
<1>10. ASSUME NEW k \in Tokens, of[k] # s \/ ~c.live
       PROVE  (Fresh(k) => Fresh(k)') /\ (Usable(k) => Usable(k)')
  BY <1>1, <1>3, <1>10 DEF Fresh, Usable
<1>11. DoneIsFresh'
  <2>1. ASSUME NEW k, k = t PROVE Fresh(k)'
    BY <1>3, <2>1 DEF Fresh
  <2>2. ASSUME NEW d \in calls, d.stage = "done", d # c PROVE d.live /\ Fresh(d.new)'
    BY <1>0, <1>5, <1>6, <1>10, <2>2 DEF DoneIsFresh
  <2> QED BY <1>1, <1>2, <2>1, <2>2 DEF DoneIsFresh
<1>12. HalfIsFresh'
  BY <1>0, <1>1, <1>6, <1>10 DEF HalfIsFresh, OneRefresh
<1>13. StoredIsUsable'
  <2> SUFFICES ASSUME NEW k, k = store.ref, k # 0 PROVE Usable(k)'
    BY <1>1 DEF StoredIsUsable
  <2>1. CASE of[k] # s \/ ~c.live
    BY <1>0, <1>6, <1>10, <2>1 DEF StoredIsUsable
  <2>2. CASE of[k] = s /\ c.live
    <3>1. k = c.tok
      BY <1>0, <1>7, <2>2 DEF TokenKept
    <3> QED BY <1>3, <1>4, <1>7, <3>1 DEF Usable
  <2> QED BY <2>1, <2>2
<1>14. ReadIsUsable'
  <2> SUFFICES ASSUME NEW d \in calls, d.stage = "read", rows'[of[d.tok]].cur = d.snap
               PROVE  d.tok \in {d.snap, rows'[of[d.tok]].prev}
    BY <1>1, <1>2, <1>3, <1>6 DEF ReadIsUsable
  <2>1. of[d.tok] # s
    BY <1>3, <1>6
  <2> QED BY <1>0, <1>3, <1>6, <2>1 DEF ReadIsUsable
<1>15. LateIsMissed'
  BY <1>0, <1>1, <1>2, <1>3, <1>6, <1>7 DEF LateIsMissed
<1>16. StoredOrOnItsWay'
  <2> SUFFICES ASSUME store.ref # 0, of[store.ref] \notin missed, rows'[of[store.ref]].live
               PROVE  \/ store.ref = rows'[of[store.ref]].cur
                      \/ \E d \in calls' : d.stage = "done" /\ d.tok = store.ref
                      \/ flight.stage = "half" /\ of[flight.tok] = of[store.ref]
    BY <1>1, <1>3, <1>6 DEF StoredOrOnItsWay
  <2>1. CASE of[store.ref] = s
    <3>1. c.live
      BY <1>0, <1>7, <2>1 DEF LateIsMissed
    <3>2. store.ref = c.tok
      BY <1>0, <1>7, <2>1, <3>1 DEF TokenKept
    <3> QED BY <1>1, <1>2, <3>1, <3>2
  <2>2. CASE of[store.ref] # s
    <3>1. rows'[of[store.ref]] = rows[of[store.ref]]
      BY <1>3, <1>6, <2>2
    <3>2. \A d \in calls : d.stage = "done" => d \in calls'
      BY <1>1
    <3> QED BY <1>0, <3>1, <3>2 DEF StoredOrOnItsWay
  <2> QED BY <2>1, <2>2
<1>17. AskedIsCurrent'
  <2> SUFFICES ASSUME NEW d \in calls, d # c, d.live, d.stage # "done", of[d.tok] \notin missed,
                      rows'[of[d.tok]].live
               PROVE  d.tok = rows'[of[d.tok]].cur
    BY <1>1, <1>2, <1>3, <1>6 DEF AskedIsCurrent
  <2>1. of[d.tok] # s
    BY <1>0, <1>5, <1>7 DEF LateIsMissed
  <2> QED BY <1>0, <1>3, <1>6, <2>1 DEF AskedIsCurrent
<1> QED BY <1>8, <1>9, <1>11, <1>12, <1>13, <1>14, <1>15, <1>16, <1>17 DEF Rotation

LEMMA RotationStep == RotationBase /\ [AuthNext]_authVars => RotationBase'
<1> SUFFICES ASSUME RotationBase, [AuthNext]_authVars PROVE RotationBase'
  OBVIOUS
<1>1. Shapes' /\ OneRefresh' /\ LoginOwns' /\ RefreshKeeps'
  BY ShapesStep, OneRefreshStep, LoginOwnsStep, RefreshKeepsStep DEF RotationBase
<1>2. CASE \E c \in calls : RefreshWrites(c)
  BY <1>1, <1>2, WritesRotates DEF RotationBase
<1>3. CASE ~\E c \in calls : RefreshWrites(c)
  <2> SUFFICES Rotation'
    BY <1>1 DEF RotationBase
  <2>1. TokensSettle
    BY <1>3, SettlesWithoutWrites DEF RotationBase
  <2>2. CASE LoginIssues \/ LoginStoresRefresh \/ StartRefresh \/ RefreshStoresRefresh \/ AppDies
    BY <2>1, <2>2, LoginIssuesRotates, LoginStoresRotates, StartRotates, StoresRefreshRotates,
       DiesRotates
  <2>3. CASE \E c \in calls : \/ RefreshStoresAccess(c) \/ GiveUpRefresh(c) \/ RefreshReads(c)
                              \/ RefreshAgain(c)
    BY <2>1, <2>3, StoresAccessRotates, GiveUpRotates, ReadsRotates
  <2>4. CASE Calm
    BY <2>1, <2>4, CalmRotates
  <2> QED BY <1>3, <2>2, <2>3, <2>4, CalmSteps
<1> QED BY <1>2, <1>3

LEMMA RotationInit == AuthInit => RotationBase
<1> SUFFICES ASSUME AuthInit PROVE RotationBase
  OBVIOUS
<1>1. Shapes
  BY ShapesInit
<1>2. /\ calls = {} /\ flight.stage = "none" /\ login.stage = "none" /\ store.ref = 0
      /\ overdue = {}
  BY DEF AuthInit, NoFlight, NoLogin, Empty
<1>3. OneRefresh /\ LoginOwns /\ RefreshKeeps
  BY <1>2 DEF OneRefresh, LoginOwns, RefreshKeeps
<1>4. Rotation
  BY <1>2 DEF Rotation, LoginAlone, TokenKept, DoneIsFresh, HalfIsFresh, StoredIsUsable,
     ReadIsUsable, LateIsMissed, StoredOrOnItsWay, AskedIsCurrent
<1> QED BY <1>1, <1>3, <1>4 DEF RotationBase

LEMMA RotationAlways == AuthSpec => []RotationBase
BY RotationInit, RotationStep, PTL DEF AuthSpec

(***************************************************************************)
(* The refresh token a phone has stored is the current one of its session  *)
(* or the one just replaced, whatever was lost and wherever the app died,  *)
(* unless a refresh it had given up was carried out after all              *)
(* (StoredTokenIsUsable).                                                  *)
(***************************************************************************)
THEOREM AuthStoredTokenIsUsable == AuthSpec => []StoredTokenIsUsable
<1>1. RotationBase => StoredTokenIsUsable
  BY DEF RotationBase, Rotation, StoredIsUsable, Usable, StoredTokenIsUsable, Live
<1> QED BY <1>1, RotationAlways, PTL

\* Only a refresh that finds its token replaced ends a session as stolen.
LEMMA EndedStep ==
    RotationBase /\ ended \subseteq missed /\ [AuthNext]_authVars => (ended \subseteq missed)'
<1> SUFFICES ASSUME RotationBase, ended \subseteq missed, [AuthNext]_authVars
             PROVE  ended' \subseteq missed'
  OBVIOUS
<1>1. ASSUME NEW c \in calls, RefreshFindsReplaced(c) PROVE ended' \subseteq missed'
  <2>1. /\ c.stage = "sent" /\ rows[of[c.tok]].live /\ c.tok # rows[of[c.tok]].cur
        /\ ended' = ended \cup {of[c.tok]} /\ missed' = missed
    BY <1>1 DEF RefreshFindsReplaced, Live, IsCurrent
  <2>2. of[c.tok] \in missed
    BY <2>1 DEF RotationBase, Rotation, LateIsMissed, AskedIsCurrent
  <2> QED BY <2>1, <2>2
<1>2. ASSUME PhoneStep \/ RefreshStep, ~\E c \in calls : RefreshFindsReplaced(c)
      PROVE  ended' = ended /\ missed' = missed
  BY <1>2 DEF PhoneStep, LoginIssues, LoginStoresAccess, LoginStoresRefresh, StartRefresh,
     RefreshWithoutToken, RefreshStoresRefresh, RefreshStoresAccess, Answered, UnauthorizedAgain,
     LogoutClears, SocketJoins, authHistory, RefreshStep, RefreshFindsNone, RefreshReads,
     RefreshWrites, RefreshAgain
<1>3. ASSUME \/ \E u \in Users : LoginChecks(u) \/ ResetPassword(u)
             \/ LoginFails \/ \E c \in calls : GiveUpRefresh(c) \/ CallLost(c)
             \/ \E s \in Issued : GraceEnds(s)
             \/ Ask \/ Unauthorized \/ SocketChecks \/ \E k \in socks : SocketCloses(k)
             \/ LogoutPosts \/ LogoutUnreachable \/ AppDies
             \/ BootsSignedOut \/ \E online \in BOOLEAN : Boots(online)
             \/ UNCHANGED authVars
      PROVE  ended' = ended /\ missed \subseteq missed'
  BY <1>3 DEF LoginChecks, ResetPassword, LoginFails, GiveUpRefresh, CallLost, GraceEnds, Ask,
     Unauthorized, SocketChecks, SocketCloses, LogoutPosts, LogoutUnreachable, AppDies,
     BootsSignedOut, Boots, authHistory, authVars
<1> QED BY <1>1, <1>2, <1>3 DEF AuthNext

(***************************************************************************)
(* An honest phone's session ends as stolen only when a refresh's answer   *)
(* did not reach its storage (EndedOnlyWhenMissed): the token a waiting    *)
(* refresh was asked with is the current one until its answer is stored.   *)
(***************************************************************************)
THEOREM AuthEndedOnlyWhenMissed == AuthSpec => []EndedOnlyWhenMissed
<1>1. AuthInit => ended \subseteq missed
  BY DEF AuthInit
<1> QED BY <1>1, EndedStep, RotationAlways, PTL DEF AuthSpec, EndedOnlyWhenMissed
=============================================================================
