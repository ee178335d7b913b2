----------------------------- MODULE PeerTrust -----------------------------
(***************************************************************************)
(* What one phone believes about one contact: the trusted identity         *)
(* (localStore.ts), the sessions with the contact's installs               *)
(* (sessionCipher.ts) and the way both are used when a message is sent     *)
(* (prepareSession, transmit and onSendRejected of engine.ts).             *)
(*                                                                         *)
(* The contact is the environment: it reinstalls, starts sessions, answers *)
(* on those it has, and what it sent may arrive in any order (pushed, or   *)
(* drained after a newer push).                                            *)
(***************************************************************************)
EXTENDS Naturals, Sequences, FiniteSets

CONSTANTS
    MaxArchived, \* MAX_ARCHIVED_SESSIONS (5)
    MaxInst,     \* bound: installs of the contact's app
    MaxSess,     \* bound: sessions started, by either side
    MaxFrames    \* bound: messages under way in one direction

ASSUME TrustAssumption ==
    /\ {MaxInst, MaxSess} \subseteq Nat \ {0}
    /\ {MaxArchived, MaxFrames} \subseteq Nat

VARIABLES
    \* the contact and the server
    inst,      \* the contact's present install, whose bundle is published
    under,     \* the install each session is with: a session is named by its position
    ours,      \* sessions this phone started
    incoming,  \* messages of the contact on their way
    outgoing,  \* messages of this phone on their way
    accepted,  \* messages of this phone the server stored
    \* the phone
    trust,     \* the trusted_identities row (id 0: no row)
    active, archived, \* the session record (active 0: none)
    opened,    \* sessions this phone ever held
    start,     \* the session prepareSession is starting
    \* history
    newest,    \* the newest install ever trusted
    owed,      \* a verified contact's identity changed and the user has not been heard since
    again,     \* ... and it changed once more after that
    late       \* an older install became trusted after a newer one

serverVars == <<inst, outgoing, accepted>>
history == <<newest, owed, again, late>>
vars == <<serverVars, under, ours, incoming, trust, active, archived, opened, start, history>>

Installs == 1..MaxInst
Sessions == 1..MaxSess
None == 0
Known == DOMAIN under
Incoming == [sess : Known, kind : {"prekey", "whisper"}]
\* `to` is recipientRegistrationId; what the phone believed is kept with it.
Outgoing == [to : Installs, sess : Sessions, trusted : 0..MaxInst, owed : BOOLEAN,
             again : BOOLEAN, overtaken : BOOLEAN, late : BOOLEAN]
Idle == [stage |-> "idle", inst |-> 0, wasVerified |-> FALSE]
Starting == {Idle} \cup [stage : {"fetched"}, inst : Installs, wasVerified : BOOLEAN]

Archived == {archived[k] : k \in DOMAIN archived}

TypeOK ==
    /\ inst \in Installs
    /\ under \in Seq(Installs) /\ Len(under) <= MaxSess
    /\ ours \subseteq Known /\ opened \subseteq Known
    /\ incoming \subseteq Incoming
    /\ outgoing \subseteq Outgoing /\ accepted \subseteq Outgoing
    /\ trust \in [id : 0..MaxInst, verified : BOOLEAN, needsAck : BOOLEAN]
    /\ active \in opened \cup {None}
    /\ archived \in Seq(opened) /\ Len(archived) <= MaxArchived
    /\ start \in Starting
    /\ newest \in 0..MaxInst
    /\ owed \in BOOLEAN /\ again \in BOOLEAN /\ late \in BOOLEAN

Init ==
    /\ inst = 1 /\ under = << >> /\ ours = {}
    /\ incoming = {} /\ outgoing = {} /\ accepted = {}
    /\ trust = [id |-> 0, verified |-> FALSE, needsAck |-> FALSE]
    /\ active = None /\ archived = << >> /\ opened = {} /\ start = Idle
    /\ newest = 0 /\ owed = FALSE /\ again = FALSE /\ late = FALSE

-----------------------------------------------------------------------------
(* The two records *)

Firsts(s, n) == SubSeq(s, 1, IF Len(s) < n THEN Len(s) ELSE n)

\* q without s, which it holds at most once (RecordIsSet).
Without(q, s) ==
    IF \E k \in DOMAIN q : q[k] = s
    THEN LET k == CHOOSE k \in DOMAIN q : q[k] = s IN
         SubSeq(q, 1, k - 1) \o SubSeq(q, k + 1, Len(q))
    ELSE q

\* The sessions of the record, the active one first.
Held == (IF active = None THEN << >> ELSE <<active>>) \o archived

\* Mutant: the archive is not cut.
ArchiveUncut ==
    /\ active' = None
    /\ archived' = Held

\* archiveActiveSession
Archive ==
    /\ active' = None
    /\ archived' = IF active = None THEN archived ELSE Firsts(Held, MaxArchived)

\* Mutant: an archived session that becomes active stays in the archive as well.
ActivateTwice(s) ==
    /\ active' = s
    /\ archived' = Firsts((IF active \in {None, s} THEN << >> ELSE <<active>>) \o archived,
                          MaxArchived)

\* withActive
Activate(s) ==
    /\ active' = s
    /\ archived' = Firsts(Without(Held, s), MaxArchived)

\* trustIdentity: a change clears `verified`, and is flagged if that was set.
Trusts(k) ==
    LET changed == trust.id # 0 /\ trust.id # k IN
    /\ trust' = CASE trust.id = 0 -> [trust EXCEPT !.id = k]
                  [] changed -> [id |-> k, verified |-> FALSE, needsAck |-> trust.verified]
                  [] OTHER -> trust
    /\ owed' = (owed \/ (changed /\ trust.verified))
    /\ again' = (again \/ (changed /\ owed))
    /\ newest' = IF k > newest THEN k ELSE newest
    /\ late' = (late \/ k < newest)

-----------------------------------------------------------------------------
(* The contact *)

Reinstalls ==
    /\ inst < MaxInst
    /\ inst' = inst + 1
    /\ UNCHANGED <<outgoing, accepted, under, ours, incoming, trust, active, archived, opened,
                   start, history>>

Posted(f) ==
    /\ Cardinality(incoming) < MaxFrames
    /\ incoming' = incoming \cup {f}

\* A first message, on a session of the contact's own.
ContactStarts ==
    /\ Len(under) < MaxSess
    /\ under' = Append(under, inst)
    /\ Posted([sess |-> Len(under) + 1, kind |-> "prekey"])
    /\ UNCHANGED <<serverVars, ours, trust, active, archived, opened, start, history>>

\* A further message on a session of its present install: still a prekey message
\* until this phone has answered, and on a session of this phone only once the
\* contact has got it.
ContactWrites(s) ==
    /\ under[s] = inst
    /\ LET answered == \E f \in accepted : f.sess = s IN
        \/ s \notin ours /\ Posted([sess |-> s, kind |-> "prekey"])
        \/ answered /\ Posted([sess |-> s, kind |-> "whisper"])
    /\ UNCHANGED <<serverVars, under, ours, trust, active, archived, opened, start, history>>

-----------------------------------------------------------------------------
(* Receiving, under the peer's lock (decryptMessage and the commit) *)

Unlocked == start.stage = "idle"

\* A prekey message of a session the record has, of one never seen before, or of
\* a dropped one that was started when this phone had no one-time prekey left: its
\* session becomes active and its identity trusted, how old ever.
ReceivePreKey(f) ==
    /\ Unlocked /\ f.kind = "prekey"
    /\ incoming' = incoming \ {f}
    /\ Activate(f.sess)
    /\ opened' = opened \cup {f.sess}
    /\ Trusts(under[f.sess])
    /\ UNCHANGED <<serverVars, under, ours, start>>

\* A message of a session the record has: the session becomes active.
ReceiveWhisper(f) ==
    /\ Unlocked /\ f.kind = "whisper"
    /\ f.sess \in Archived \cup {active}
    /\ incoming' = incoming \ {f}
    /\ Activate(f.sess)
    /\ UNCHANGED <<serverVars, under, ours, trust, opened, start, history>>

\* The session is not in the record, and its prekeys are used up or replaced.
ReceiveUnreadable(f) ==
    /\ Unlocked
    /\ f.sess \notin Archived \cup {active}
    /\ incoming' = incoming \ {f}
    /\ UNCHANGED <<serverVars, under, ours, trust, active, archived, opened, start, history>>

\* identity_changed or session_reset arrives: the next message starts a session.
ArchiveSession ==
    /\ Unlocked /\ active # None
    /\ Archive
    /\ UNCHANGED <<serverVars, under, ours, incoming, trust, opened, start, history>>

-----------------------------------------------------------------------------
(* Sending, under the peer's lock *)

\* The message goes out on session s, with what the phone believes after this step.
Sent(s, k, overtaken) ==
    /\ Cardinality(outgoing) < MaxFrames
    /\ outgoing' = outgoing \cup
         {[to |-> k, sess |-> s, trusted |-> trust'.id, owed |-> owed', again |-> again',
           overtaken |-> overtaken, late |-> late']}

\* Mutant: the flag is not looked at when there is a session.
SendOnActiveUnasked ==
    /\ Unlocked /\ active # None
    /\ UNCHANGED <<trust, history>>
    /\ Sent(active, under[active], FALSE)
    /\ UNCHANGED <<inst, accepted, under, ours, incoming, active, archived, opened, start>>

\* prepareSession found an active session.
SendOnActive ==
    /\ Unlocked /\ ~trust.needsAck /\ active # None
    /\ UNCHANGED <<trust, history>>
    /\ Sent(active, under[active], FALSE)
    /\ UNCHANGED <<inst, accepted, under, ours, incoming, active, archived, opened, start>>

\* It found none: the bundle is fetched, and the row read that the check needs.
FetchBundle ==
    /\ Unlocked /\ ~trust.needsAck /\ active = None
    /\ start' = [stage |-> "fetched", inst |-> inst, wasVerified |-> trust.verified]
    /\ UNCHANGED <<serverVars, under, ours, incoming, trust, active, archived, opened, history>>

\* The bundle shows a new identity: it is recorded, and the message held if the
\* contact was verified. (Otherwise the session is saved next, unless the phone
\* dies in between.)
RecordIdentity ==
    /\ start.stage = "fetched" /\ trust.id \notin {0, start.inst}
    /\ Trusts(start.inst)
    /\ start' = Idle
    /\ UNCHANGED <<serverVars, under, ours, incoming, active, archived, opened>>

\* Mutant: the commit of a new session does not carry the identity.
SendOnNewUnrecorded ==
    /\ start.stage = "fetched" /\ ~(start.wasVerified /\ trust.id # start.inst)
    /\ Len(under) < MaxSess
    /\ LET s == Len(under) + 1 IN
        /\ under' = Append(under, start.inst)
        /\ ours' = ours \cup {s} /\ opened' = opened \cup {s}
        /\ Activate(s)
        /\ UNCHANGED <<trust, history>>
        /\ Sent(s, start.inst, trust.verified /\ ~start.wasVerified)
    /\ start' = Idle
    /\ UNCHANGED <<inst, accepted, incoming>>

\* Otherwise the identity is recorded with the new session, and the message sent.
SendOnNew ==
    /\ start.stage = "fetched" /\ ~(start.wasVerified /\ trust.id # start.inst)
    /\ Len(under) < MaxSess
    /\ LET s == Len(under) + 1 IN
        /\ under' = Append(under, start.inst)
        /\ ours' = ours \cup {s} /\ opened' = opened \cup {s}
        /\ Activate(s)
        /\ Trusts(start.inst)
        /\ Sent(s, start.inst, trust.verified /\ ~start.wasVerified)
    /\ start' = Idle
    /\ UNCHANGED <<inst, accepted, incoming>>

\* The request fails, or the phone dies before anything is written.
AbandonStart ==
    /\ start.stage = "fetched"
    /\ start' = Idle
    /\ UNCHANGED <<serverVars, under, ours, incoming, trust, active, archived, opened, history>>

-----------------------------------------------------------------------------
(* The server's answer, and the user *)

Accept(f) ==
    /\ f.to = inst
    /\ outgoing' = outgoing \ {f} /\ accepted' = accepted \cup {f}
    /\ UNCHANGED <<inst, under, ours, incoming, trust, active, archived, opened, start, history>>

\* recipient_keys_changed: the session is archived before the one retry. (A second
\* refusal of the same message only fails it, which is Lost.)
Refuse(f) ==
    /\ Unlocked /\ f.to # inst
    /\ outgoing' = outgoing \ {f}
    /\ Archive
    /\ UNCHANGED <<inst, accepted, under, ours, incoming, trust, opened, start, history>>

Lost(f) ==
    /\ outgoing' = outgoing \ {f}
    /\ UNCHANGED <<inst, accepted, under, ours, incoming, trust, active, archived, opened, start,
                   history>>

\* The user has been heard: nothing is owed any more.
Heard == owed' = FALSE /\ again' = FALSE /\ UNCHANGED <<newest, late>>

\* setVerified and acknowledgeIdentity, which do not take the peer's lock.
SetVerified(v) ==
    /\ trust.id # 0 /\ trust.verified # v
    /\ trust' = [trust EXCEPT !.verified = v, !.needsAck = FALSE]
    /\ Heard
    /\ UNCHANGED <<serverVars, under, ours, incoming, active, archived, opened, start>>

Acknowledge ==
    /\ trust.needsAck
    /\ trust' = [trust EXCEPT !.needsAck = FALSE]
    /\ Heard
    /\ UNCHANGED <<serverVars, under, ours, incoming, active, archived, opened, start>>

-----------------------------------------------------------------------------
Next ==
    \/ Reinstalls \/ ContactStarts \/ \E s \in Known : ContactWrites(s)
    \/ \E f \in incoming : ReceivePreKey(f) \/ ReceiveWhisper(f) \/ ReceiveUnreadable(f)
    \/ ArchiveSession
    \/ SendOnActive \/ FetchBundle \/ RecordIdentity \/ SendOnNew \/ AbandonStart
    \/ \E f \in outgoing : Accept(f) \/ Refuse(f) \/ Lost(f)
    \/ \E v \in BOOLEAN : SetVerified(v)
    \/ Acknowledge

Spec == Init /\ [][Next]_vars

-----------------------------------------------------------------------------
(* Properties *)

(***************************************************************************)
(* The session record is a set: no session twice, none both active and     *)
(* archived, so archiving never drops a session early.                     *)
(***************************************************************************)
RecordIsSet ==
    /\ active \notin Archived
    /\ Cardinality(Archived) = Len(archived)

(***************************************************************************)
(* Sending pauses after a verified contact's key changed, until the user   *)
(* acknowledges it, verifies again or clears the mark. (A message that was *)
(* fetching the new key when the user verified the old one is let go.)     *)
(***************************************************************************)
PausedUntilAcknowledged == \A f \in outgoing : f.owed => f.overtaken

(***************************************************************************)
(* ... unless the key changed once more meanwhile: trustIdentity then      *)
(* takes the flag down, as the mark it looks at is gone. Nothing else a    *)
(* phone does, in any order of pushed and drained messages, lets one out.  *)
(***************************************************************************)
PausedUnlessChangedAgain == \A f \in outgoing : f.owed => f.overtaken \/ f.again

(***************************************************************************)
(* What the server stored went to the identity this phone trusted then     *)
(* (the one the safety number shows), unless a message of a replaced       *)
(* install had arrived late and made that one trusted again: whichever     *)
(* session was revived by whichever message.                               *)
(***************************************************************************)
AcceptedIsTrusted == \A f \in accepted : f.to = f.trusted \/ f.late
=============================================================================
