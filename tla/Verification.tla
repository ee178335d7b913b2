---------------------------- MODULE Verification ----------------------------
(***************************************************************************)
(* How a contact gets verified: the contact's trusted_identities row       *)
(* (localStore.ts), the engine's cached safety number (engine.ts), the     *)
(* screen that shows the number and takes the user's mark                  *)
(* (SafetyNumber.tsx), and the chat with its shield and its banner         *)
(* (chatroom.tsx). Every read and write of the database is awaited, so a   *)
(* change of the contact's identity may come at any point.                 *)
(*                                                                         *)
(* An identity is the install of the contact it belongs to. PeerTrust says *)
(* when messages change it; here it changes at any time.                   *)
(***************************************************************************)
EXTENDS Naturals, FiniteSets

CONSTANTS
    MaxIdentities, \* bound: installs of the contact
    MaxReads       \* bound: reads for the two screens under way

ASSUME VerificationAssumption ==
    MaxIdentities \in Nat \ {0} /\ MaxReads \in Nat

VARIABLES
    contact,  \* the contact's present identity, in the code its phone shows
    row,      \* the trusted_identities row (id 0: none)
    cached,   \* the safetyCache entry (0: none)
    due,      \* a change of the row is written, and not yet announced
    mark,     \* the user's mark or acknowledgement under way
    screen,   \* SafetyNumber: the number (the identity it is of, 0: none) and the mark shown
    chat,     \* chatroom: verified and identityNeedsAck
    reads,    \* reads for the screens under way
    \* history
    compared, \* identities whose number the user compared
    hasty,    \* the row's identity changed around the user's comparison of it
    overlapped   \* since the last change: one was announced while a screen was reading

verifyVars == <<contact, row, cached, due, mark, screen, chat, reads, compared, hasty, overlapped>>

Identities == 1..MaxIdentities
NoMark == [stage |-> "none", as |-> "none"]
Closed == [open |-> FALSE, number |-> 0, verified |-> FALSE]

VerifyTypeOK ==
    /\ contact \in Identities
    /\ row \in [id : 0..MaxIdentities, verified : BOOLEAN, needsAck : BOOLEAN]
    /\ cached \in 0..MaxIdentities /\ due \in BOOLEAN
    /\ mark \in {NoMark} \cup
                [stage : {"asked", "written"}, as : {"verified", "cleared", "acknowledged"}]
    /\ screen \in [open : BOOLEAN, number : 0..MaxIdentities, verified : BOOLEAN]
    /\ chat \in [verified : BOOLEAN, needsAck : BOOLEAN]
    /\ Cardinality(reads) <= MaxReads
    /\ compared \subseteq Identities /\ hasty \in BOOLEAN /\ overlapped \in BOOLEAN

VerifyInit ==
    /\ contact = 1
    /\ row = [id |-> 0, verified |-> FALSE, needsAck |-> FALSE]
    /\ cached = 0 /\ due = FALSE /\ mark = NoMark
    /\ screen = Closed /\ chat = [verified |-> FALSE, needsAck |-> FALSE]
    /\ reads = {}
    /\ compared = {} /\ hasty = FALSE /\ overlapped = FALSE

-----------------------------------------------------------------------------
(* The contact's identity *)

ContactReinstalls ==
    /\ contact < MaxIdentities
    /\ contact' = contact + 1
    /\ UNCHANGED <<row, cached, due, mark, screen, chat, reads, compared, hasty, overlapped>>

\* trustIdentity
Changed(k) ==
    IF row.id = 0 THEN [row EXCEPT !.id = k]
    ELSE [id |-> k, verified |-> FALSE, needsAck |-> row.verified]

\* A message or a bundle with another identity, also an older one that comes late. It
\* is written under the peer's lock, and announced before the next. (A first
\* identity is not announced, as nothing is changed by it.)
IdentityIsRecorded(k) ==
    /\ ~due /\ k <= contact /\ k # row.id
    /\ row' = Changed(k)
    /\ due' = (row.id # 0)
    /\ hasty' = (mark.stage = "asked")
    /\ UNCHANGED <<contact, cached, mark, screen, chat, reads, compared, overlapped>>

ChatRead == [view |-> "chat", id |-> 0, got |-> "trust", trust |-> "unread", ack |-> FALSE]
NumberRead == [view |-> "screen", id |-> 0, got |-> "unread", trust |-> "unread", ack |-> FALSE]

\* A `trust` event: the chat reads the row again, and the safety number screen, if open.
Announced ==
    /\ reads' = reads \cup {ChatRead} \cup (IF screen.open THEN {NumberRead} ELSE {})
    /\ Cardinality(reads') <= MaxReads

\* Mutant: the cached number is not dropped.
IdentityIsAnnouncedOnly ==
    /\ due
    /\ due' = FALSE
    /\ Announced
    /\ overlapped' = (reads # {})
    /\ UNCHANGED <<contact, row, cached, mark, screen, chat, compared, hasty>>

IdentityIsAnnounced ==
    /\ due
    /\ due' = FALSE
    /\ cached' = 0
    /\ Announced
    /\ overlapped' = (reads # {})
    /\ UNCHANGED <<contact, row, mark, screen, chat, compared, hasty>>

-----------------------------------------------------------------------------
(* Reading for the screens *)

OpenScreen ==
    /\ ~screen.open
    /\ screen' = [Closed EXCEPT !.open = TRUE]
    /\ reads' = reads \cup {NumberRead} /\ Cardinality(reads') <= MaxReads
    /\ UNCHANGED <<contact, row, cached, due, mark, chat, compared, hasty, overlapped>>

\* Its reads go on, but show nothing: a number may still get cached.
CloseScreen ==
    /\ screen.open
    /\ screen' = Closed
    /\ reads' = {r \in reads : r.view # "screen"}
               \cup {[r EXCEPT !.view = "gone", !.trust = "plain"] :
                        r \in {x \in reads : x.view = "screen" /\ x.got # "number"}}
    /\ UNCHANGED <<contact, row, cached, due, mark, chat, compared, hasty, overlapped>>

\* getTrust
ReadsTrust(r) ==
    /\ r.trust = "unread"
    /\ reads' = (reads \ {r}) \cup
         {[r EXCEPT !.trust = IF row.verified THEN "verified" ELSE "plain",
                    !.ack = (r.view = "chat" /\ row.needsAck)]}
    /\ UNCHANGED <<contact, row, cached, due, mark, screen, chat, compared, hasty, overlapped>>

\* getSafetyNumber: none without a row; the cached number; or this phone's own
\* identity is read next ...
ReadsNumber(r) ==
    /\ r.got = "unread"
    /\ reads' = (reads \ {r}) \cup
         {IF row.id = 0 THEN [r EXCEPT !.got = "number"]
          ELSE IF cached # 0 THEN [r EXCEPT !.got = "number", !.id = cached]
          ELSE [r EXCEPT !.got = "identity", !.id = row.id]}
    /\ UNCHANGED <<contact, row, cached, due, mark, screen, chat, compared, hasty, overlapped>>

\* ... and computeSafetyNumber's result cached.
ComputesNumber(r) ==
    /\ r.got = "identity"
    /\ cached' = r.id
    /\ reads' = (reads \ {r}) \cup {[r EXCEPT !.got = "number"]}
    /\ UNCHANGED <<contact, row, due, mark, screen, chat, compared, hasty, overlapped>>

\* refreshTrust, or load, has all it needs.
ReadIsShown(r) ==
    /\ r.trust # "unread" /\ r.got \in {"trust", "number"}
    /\ reads' = reads \ {r}
    /\ chat' = IF r.view = "chat" THEN [verified |-> r.trust = "verified", needsAck |-> r.ack]
                                  ELSE chat
    /\ screen' = IF r.view = "screen"
                 THEN [screen EXCEPT !.number = r.id, !.verified = (r.trust = "verified")]
                 ELSE screen
    /\ UNCHANGED <<contact, row, cached, due, mark, compared, hasty, overlapped>>

-----------------------------------------------------------------------------
(* The user *)

\* The user has compared the number with the contact's phone, by eye or with the
\* camera (compareScannedSafetyNumber), and it matches.
MarkVerified ==
    /\ mark = NoMark /\ screen.open /\ screen.number = contact
    /\ mark' = [stage |-> "asked", as |-> "verified"]
    /\ compared' = compared \cup {screen.number}
    /\ hasty' = (hasty \/ due \/ reads # {})
    /\ UNCHANGED <<contact, row, cached, due, screen, chat, reads, overlapped>>

\* "Clear verification"
ClearVerification ==
    /\ mark = NoMark /\ screen.open /\ screen.number # 0 /\ screen.verified
    /\ mark' = [stage |-> "asked", as |-> "cleared"]
    /\ UNCHANGED <<contact, row, cached, due, screen, chat, reads, compared, hasty, overlapped>>

\* OK in the banner, or in the alert of a message that was held.
AcknowledgeChange ==
    /\ mark = NoMark /\ (chat.needsAck \/ row.needsAck)
    /\ mark' = [stage |-> "asked", as |-> "acknowledged"]
    /\ UNCHANGED <<contact, row, cached, due, screen, chat, reads, compared, hasty, overlapped>>

\* setVerified or acknowledgeIdentity writes to the row there is by now.
MarkIsWritten ==
    /\ mark.stage = "asked"
    /\ row' = [row EXCEPT !.needsAck = FALSE,
                          !.verified = IF mark.as = "acknowledged" THEN @ ELSE mark.as = "verified"]
    /\ mark' = [mark EXCEPT !.stage = "written"]
    /\ UNCHANGED <<contact, cached, due, screen, chat, reads, compared, hasty, overlapped>>

MarkIsAnnounced ==
    /\ mark.stage = "written"
    /\ mark' = NoMark
    /\ Announced
    /\ overlapped' = (overlapped \/ reads # {})
    /\ screen' = IF screen.open /\ mark.as # "acknowledged"
                 THEN [screen EXCEPT !.verified = (mark.as = "verified")] ELSE screen
    /\ UNCHANGED <<contact, row, cached, due, chat, compared, hasty>>

-----------------------------------------------------------------------------
VerifyNext ==
    \/ ContactReinstalls
    \/ \E k \in Identities : IdentityIsRecorded(k)
    \/ IdentityIsAnnounced
    \/ OpenScreen \/ CloseScreen
    \/ \E r \in reads : ReadsTrust(r) \/ ReadsNumber(r) \/ ComputesNumber(r) \/ ReadIsShown(r)
    \/ MarkVerified \/ ClearVerification \/ AcknowledgeChange \/ MarkIsWritten \/ MarkIsAnnounced

VerifySpec == VerifyInit /\ [][VerifyNext]_verifyVars

-----------------------------------------------------------------------------
(* Properties *)

(***************************************************************************)
(* Only an identity whose number the user compared is marked verified, in  *)
(* the database and, at rest, in the chat and on the screen; unless the    *)
(* identity changed in the moments the user's mark took to be written, or  *)
(* a change was announced while a screen was reading (its answer is shown, *)
(* or its number cached, after the announcement that should have replaced  *)
(* it).                                                                    *)
(***************************************************************************)
VerifiedWasCompared ==
    hasty \/ overlapped \/
        /\ row.verified => row.id \in compared
        /\ ~due /\ mark = NoMark /\ reads = {}
             => (chat.verified \/ screen.verified => row.verified)

=============================================================================
