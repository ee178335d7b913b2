----------------------------- MODULE PushTokens -----------------------------
(***************************************************************************)
(* Which sign-in session has the push token of one phone: the phone        *)
(* registers it whenever somebody is signed in as the app starts, and at   *)
(* every sign-in (pushNotifications.ts); the server keeps it in the        *)
(* Session row (registerPushToken of AuthController.js) and sends pushes   *)
(* to every token of a user's rows (pushService.js). Asking for permission *)
(* may take any time, and a registration that is given up may still be     *)
(* carried out.                                                            *)
(***************************************************************************)
EXTENDS Naturals, Sequences, FiniteSets

CONSTANTS
    MaxSignIns, \* bound: sessions of this phone
    MaxRegs,    \* bound: registrations under way
    MaxInstalls \* bound: installs, each with a token of its own

ASSUME PushAssumption == {MaxSignIns, MaxRegs} \subseteq Nat /\ MaxInstalls \in Nat \ {0}

VARIABLES
    device,  \* the session this phone is signed in with (0: none)
    token,   \* its push token, the number of its install
    tokenOf, \* the pushToken of each session this phone has had (0: none)
    revoked, \* sessions whose row is gone
    regs,    \* registrations under way
    push,    \* tokens a push has been sent to, and its tickets not read
    \* history
    unheard, \* sessions the phone left without the server hearing of it
    belated, \* sessions registered after the phone had left them
    enrolled \* the phone's session has been registered

pushVars == <<device, token, tokenOf, revoked, regs, push, unheard, belated, enrolled>>

Signed == DOMAIN tokenOf
Tokens0 == 0..MaxInstalls
NoPush == [sent |-> FALSE, to |-> {}]
Rowed(s) == s \in Signed \ revoked

PushTypeOK ==
    /\ device \in Signed \cup {0} /\ token \in 1..MaxInstalls
    /\ tokenOf \in Seq(Tokens0) /\ Len(tokenOf) <= MaxSignIns
    /\ regs \subseteq [stage : {"asking", "posted", "checked", "cleared"},
                       sid : Signed \cup {0}, tok : Tokens0]
    /\ Cardinality(regs) <= MaxRegs
    /\ push \in [sent : BOOLEAN, to : SUBSET (1..MaxInstalls)]
    /\ {revoked, unheard, belated} \subseteq SUBSET Signed
    /\ \A s \in revoked : tokenOf[s] = 0
    /\ enrolled \in BOOLEAN

PushInit ==
    /\ device = 0 /\ token = 1 /\ tokenOf = << >> /\ revoked = {}
    /\ regs = {} /\ push = NoPush
    /\ unheard = {} /\ belated = {} /\ enrolled = FALSE

-----------------------------------------------------------------------------
(* Signing in and out *)

Asking == [stage |-> "asking", sid |-> 0, tok |-> token']

\* usePushNotifications: somebody is signed in.
AsksToRegister == regs' = regs \cup {Asking} /\ Cardinality(regs') <= MaxRegs

PhoneSignsIn ==
    /\ device = 0 /\ Len(tokenOf) < MaxSignIns
    /\ tokenOf' = Append(tokenOf, 0)
    /\ device' = Len(tokenOf')
    /\ enrolled' = FALSE
    /\ UNCHANGED token
    /\ AsksToRegister
    /\ UNCHANGED <<revoked, push, unheard, belated>>

\* The Session row goes, and its token with it.
Revokes(s) ==
    /\ revoked' = revoked \cup {s}
    /\ tokenOf' = [tokenOf EXCEPT ![s] = 0]

\* logout: reached the server ...
PhoneSignsOut ==
    /\ device # 0
    /\ Revokes(device)
    /\ device' = 0 /\ enrolled' = FALSE
    /\ UNCHANGED <<token, regs, push, unheard, belated>>

\* ... or not.
PhoneSignsOutUnheard ==
    /\ device # 0
    /\ device' = 0 /\ enrolled' = FALSE
    /\ unheard' = unheard \cup {device}
    /\ UNCHANGED <<token, tokenOf, revoked, regs, push, belated>>

\* A password reset, or an expiry, of whichever session. The phone signs out when it
\* hears of it.
SessionGoes(s) ==
    /\ Rowed(s)
    /\ Revokes(s)
    /\ UNCHANGED <<device, token, regs, push, unheard, belated, enrolled>>

PhoneHears ==
    /\ device \in revoked
    /\ device' = 0 /\ enrolled' = FALSE
    /\ UNCHANGED <<token, tokenOf, revoked, regs, push, unheard, belated>>

\* What the app was doing ends, not what the server is doing.
AppStarts ==
    /\ device # 0
    /\ UNCHANGED token
    /\ regs' = {r \in regs : r.stage # "asking"} \cup {Asking}
    /\ Cardinality(regs') <= MaxRegs
    /\ UNCHANGED <<device, tokenOf, revoked, push, unheard, belated, enrolled>>

\* The app is removed and installed again, with another token.
AppReinstalled ==
    /\ token < MaxInstalls
    /\ token' = token + 1
    /\ device' = 0 /\ enrolled' = FALSE
    /\ unheard' = IF device = 0 THEN unheard ELSE unheard \cup {device}
    /\ regs' = {r \in regs : r.stage # "asking"}
    /\ UNCHANGED <<tokenOf, revoked, push, belated>>

-----------------------------------------------------------------------------
(* Registering *)

\* registerForPushNotifications has permission and the token. The request goes out as
\* whoever is signed in by then.
RegisterPosts(r) ==
    /\ r.stage = "asking"
    /\ regs' = (regs \ {r}) \cup
               (IF device = 0 THEN {} ELSE {[r EXCEPT !.stage = "posted", !.sid = device]})
    /\ UNCHANGED <<device, token, tokenOf, revoked, push, unheard, belated, enrolled>>

\* No permission; the request is lost, or refused.
RegisterFails(r) ==
    /\ regs' = regs \ {r}
    /\ UNCHANGED <<device, token, tokenOf, revoked, push, unheard, belated, enrolled>>

\* authMiddleware
RegisterChecks(r) ==
    /\ r.stage = "posted" /\ Rowed(r.sid)
    /\ regs' = (regs \ {r}) \cup {[r EXCEPT !.stage = "checked"]}
    /\ UNCHANGED <<device, token, tokenOf, revoked, push, unheard, belated, enrolled>>

Belated(r) == belated' = IF r.sid = device THEN belated ELSE belated \cup {r.sid}

\* Mutant: the other sessions keep the token.
RegisterClearsNone(r) ==
    /\ r.stage = "checked"
    /\ regs' = (regs \ {r}) \cup {[r EXCEPT !.stage = "cleared"]}
    /\ Belated(r)
    /\ UNCHANGED <<device, token, tokenOf, revoked, push, unheard, enrolled>>

\* The token is taken from every other session ...
RegisterClears(r) ==
    /\ r.stage = "checked"
    /\ tokenOf' = [s \in Signed |-> IF s # r.sid /\ tokenOf[s] = r.tok THEN 0 ELSE tokenOf[s]]
    /\ regs' = (regs \ {r}) \cup {[r EXCEPT !.stage = "cleared"]}
    /\ Belated(r)
    /\ UNCHANGED <<device, token, revoked, push, unheard, enrolled>>

\* ... and set on this one, if it is still there.
RegisterSets(r) ==
    /\ r.stage = "cleared"
    /\ tokenOf' = IF Rowed(r.sid) THEN [tokenOf EXCEPT ![r.sid] = r.tok] ELSE tokenOf
    /\ regs' = regs \ {r}
    /\ Belated(r)
    /\ enrolled' = (enrolled \/ (r.sid = device /\ r.tok = token))
    /\ UNCHANGED <<device, token, revoked, push, unheard>>

-----------------------------------------------------------------------------
(* Pushes *)

\* pushToUser, of a user with some of the sessions.
PushIsSent ==
    /\ push = NoPush
    /\ \E ss \in SUBSET (Signed \ revoked) :
         push' = [sent |-> TRUE, to |-> {tokenOf[s] : s \in ss} \ {0}]
    /\ push'.to # {}
    /\ UNCHANGED <<device, token, tokenOf, revoked, regs, unheard, belated, enrolled>>

\* The tickets: tokens of removed apps are forgotten.
TicketsAreRead ==
    /\ push.sent
    /\ tokenOf' = [s \in Signed |->
                     IF tokenOf[s] \in push.to \ {token} THEN 0 ELSE tokenOf[s]]
    /\ push' = NoPush
    /\ UNCHANGED <<device, token, revoked, regs, unheard, belated, enrolled>>

PushFails ==
    /\ push.sent
    /\ push' = NoPush
    /\ UNCHANGED <<device, token, tokenOf, revoked, regs, unheard, belated, enrolled>>

-----------------------------------------------------------------------------
PushNext ==
    \/ PhoneSignsIn \/ PhoneSignsOut \/ PhoneSignsOutUnheard \/ PhoneHears
    \/ AppStarts \/ AppReinstalled \/ \E s \in Signed : SessionGoes(s)
    \/ \E r \in regs :
        \/ RegisterPosts(r) \/ RegisterFails(r) \/ RegisterChecks(r)
        \/ RegisterClears(r) \/ RegisterSets(r)
    \/ PushIsSent \/ TicketsAreRead \/ PushFails

PushSpec == PushInit /\ [][PushNext]_pushVars

-----------------------------------------------------------------------------
(***************************************************************************)
(* "A device belongs to the account signed in on it now"                   *)
(* (AuthController.js:722): the phone gets the pushes of the session it is *)
(* signed in with, once it has registered, and of no other, however        *)
(* sign-ins, restarts, registrations and tickets meet; unless the server   *)
(* never heard that a session was left, and either the next one has not    *)
(* registered yet or a registration of the old one was still on its way.   *)
(***************************************************************************)
PushesFollowTheUser ==
    /\ \A s \in Signed : tokenOf[s] = token /\ s # device =>
          s \in unheard /\ (enrolled => s \in belated)
    /\ enrolled /\ Rowed(device) /\ belated = {} => tokenOf[device] = token
=============================================================================
