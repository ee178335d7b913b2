------------------------------- MODULE Repair -------------------------------
(***************************************************************************)
(* The repair of messages the contact could not read: what its request     *)
(* (session_reset) makes this phone do (processReset of engine.ts), by     *)
(* push and by drain. How the contact comes to ask, each message once, and *)
(* what a re-send does to its chat is in Mailbox; archiving the session    *)
(* and the refusals of prepareSession are in PeerTrust.                    *)
(***************************************************************************)
EXTENDS Naturals, Sequences

CONSTANTS
    Texts,        \* this phone's messages that the contact could not read
    MaxRequests,  \* bound: requests of the contact
    MaxCopies,    \* bound: re-sends
    RepairFaults, \* kinds of fault that may happen
    MaxBreaks     \* bound: faults in one behaviour

ASSUME RepairAssumption ==
    /\ MaxRequests \in Nat /\ MaxCopies \in Nat /\ MaxBreaks \in Nat
    /\ RepairFaults \subseteq {"drop", "crash", "server", "http", "db"}

VARIABLES
    \* the server
    wanted,    \* the texts each SessionReset names, oldest first
    standing,  \* requests whose document is still there
    untold,    \* requests whose handler has not reached emitToUser
    \* the socket
    link,      \* the phone has an authenticated socket
    notified,  \* session_reset frames on their way to the phone
    acking,    \* acknowledgements of requests on their way to the server
    \* the phone
    copies,    \* the texts it re-sent, oldest first
    own,       \* its row of each text: "sending" has the client's id, "sent" the server's
    jobs,      \* processReset runs
    round,     \* the drain
    toAck,     \* pendingResetAcks
    \* history
    begun,     \* requests a processReset was begun for
    redone,    \* ... and was begun again
    skipped,   \* texts a processReset passed over
    expired,   \* requests nobody picked up within two weeks
    breaks     \* faults so far

repairVars == <<wanted, standing, untold, link, notified, acking, copies, own, jobs, round,
                toAck, begun, redone, skipped, expired, breaks>>

Requests == DOMAIN wanted
Resends == DOMAIN copies
Job == [req : 1..MaxRequests, by : {"push", "drain"}, left : SUBSET Texts]
Round == [stage : {"idle", "fetch", "page"}, batch : SUBSET (1..MaxRequests)]
NoRound == [stage |-> "idle", batch |-> {}]

RepairTypeOK ==
    /\ wanted \in Seq(SUBSET Texts) /\ Len(wanted) <= MaxRequests
    /\ {standing, untold, notified, toAck, begun, redone, expired} \subseteq SUBSET Requests
    /\ acking \subseteq SUBSET Requests
    /\ link \in BOOLEAN
    /\ copies \in Seq(Texts) /\ Len(copies) <= MaxCopies
    /\ own \in [Texts -> {"sending", "sent", "deleted"}]
    /\ jobs \subseteq Job /\ round \in Round
    /\ skipped \subseteq Texts
    /\ breaks \in 0..MaxBreaks

RepairInit ==
    /\ wanted = << >> /\ standing = {} /\ untold = {}
    /\ link = FALSE /\ notified = {} /\ acking = {} /\ copies = << >>
    /\ own \in [Texts -> {"sending", "sent"}]
    /\ jobs = {} /\ round = NoRound /\ toAck = {}
    /\ begun = {} /\ redone = {} /\ skipped = {} /\ expired = {} /\ breaks = 0

Breaks(k) ==
    /\ k \in RepairFaults
    /\ breaks < MaxBreaks
    /\ breaks' = breaks + 1

phoneSide == <<copies, own, jobs, round, toAck, begun, redone, skipped>>

-----------------------------------------------------------------------------
(* The server *)

Asked == UNION {wanted[r] : r \in Requests}

\* The contact's session_reset: createSessionReset stores it ...
AskRepair(ts) ==
    /\ Len(wanted) < MaxRequests
    /\ ts # {} /\ ts \cap Asked = {}
    /\ wanted' = Append(wanted, ts)
    /\ standing' = standing \cup {Len(wanted) + 1}
    /\ untold' = untold \cup {Len(wanted) + 1}
    /\ UNCHANGED <<link, notified, acking, phoneSide, expired, breaks>>

\* ... and then emitToUser pushes it, if the phone is there.
TellRepair(r) ==
    /\ r \in untold
    /\ untold' = untold \ {r}
    /\ notified' = IF link THEN notified \cup {r} ELSE notified
    /\ UNCHANGED <<wanted, standing, link, acking, phoneSide, expired, breaks>>

\* acknowledgeResets
AckRepairs(rs) ==
    /\ rs \in acking
    /\ acking' = acking \ {rs}
    /\ standing' = standing \ rs
    /\ UNCHANGED <<wanted, untold, link, notified, phoneSide, expired, breaks>>

ExpireRepair(r) ==
    /\ r \in standing
    /\ standing' = standing \ {r}
    /\ expired' = expired \cup {r}
    /\ UNCHANGED <<wanted, untold, link, notified, acking, phoneSide, breaks>>

-----------------------------------------------------------------------------
(* processReset *)

Begin(r, by) ==
    /\ jobs' = jobs \cup {[req |-> r, by |-> by, left |-> wanted[r]]}
    /\ begun' = begun \cup {r}
    /\ redone' = redone \cup ({r} \cap begun)

\* A pushed request is handled at once, beside whatever is running.
HearRepair(r) ==
    /\ r \in notified
    /\ notified' = notified \ {r}
    /\ Begin(r, "push")
    /\ UNCHANGED <<wanted, standing, untold, link, acking, copies, own, round, toAck,
                   skipped, expired, breaks>>

Dealt(j, t) == (jobs \ {j}) \cup {[j EXCEPT !.left = @ \ {t}]}

\* Mutant: a row is not remembered as dealt with.
ResendTextKept(j, t) ==
    /\ t \in j.left /\ own[t] = "sent" /\ link
    /\ Len(copies) < MaxCopies
    /\ copies' = Append(copies, t)
    /\ UNCHANGED <<wanted, standing, untold, link, notified, acking, own, jobs, round,
                   toAck, begun, redone, skipped, expired, breaks>>

\* transmit, under the peer's lock, with a new client id each time.
ResendText(j, t) ==
    /\ t \in j.left /\ own[t] = "sent" /\ link
    /\ Len(copies) < MaxCopies
    /\ copies' = Append(copies, t)
    /\ jobs' = Dealt(j, t)
    /\ UNCHANGED <<wanted, standing, untold, link, notified, acking, own, round, toAck,
                   begun, redone, skipped, expired, breaks>>

\* The row is not found under the server's id, the socket is down (nobody looks
\* at what transmit returns), or transmit fails, which is caught.
SkipText(j, t) ==
    /\ t \in j.left
    /\ IF own[t] = "sent" /\ link THEN Breaks("http") ELSE UNCHANGED breaks
    /\ jobs' = Dealt(j, t)
    /\ skipped' = skipped \cup {t}
    /\ UNCHANGED <<wanted, standing, untold, link, notified, acking, copies, own, round,
                   toAck, begun, redone, expired>>

\* Mutant: acknowledged before the texts were sent.
JobDoneEarly(j) ==
    /\ jobs' = jobs \ {j}
    /\ toAck' = toAck \cup {j.req}
    /\ UNCHANGED <<wanted, standing, untold, link, notified, acking, copies, own, round,
                   begun, redone, skipped, expired, breaks>>

JobDone(j) ==
    /\ j.left = {}
    /\ jobs' = jobs \ {j}
    /\ toAck' = toAck \cup {j.req}
    /\ UNCHANGED <<wanted, standing, untold, link, notified, acking, copies, own, round,
                   begun, redone, skipped, expired, breaks>>

\* The database fails outside of transmit: the request is not acknowledged.
JobFails(j) ==
    /\ Breaks("db")
    /\ jobs' = jobs \ {j}
    /\ UNCHANGED <<wanted, standing, untold, link, notified, acking, copies, own, round,
                   toAck, begun, redone, skipped, expired>>

-----------------------------------------------------------------------------
(* Acknowledging and draining *)

\* flushAcks, over the socket or by POST: what is pending, up to a limit.
Flush ==
    IF toAck = {} THEN UNCHANGED <<acking, toAck>>
    ELSE \E rs \in SUBSET toAck \ {{}} : acking' = acking \cup {rs} /\ toAck' = toAck \ rs

\* The POST fails, though the server may have acted on it: all are kept.
FlushFails ==
    /\ Breaks("http") /\ ~link /\ toAck # {}
    /\ \E rs \in SUBSET toAck : acking' = acking \cup {rs}
    /\ UNCHANGED toAck

FlushTimer ==
    /\ toAck # {}
    /\ (Flush /\ UNCHANGED breaks) \/ FlushFails
    /\ UNCHANGED <<wanted, standing, untold, link, notified, copies, own, jobs, round,
                   begun, redone, skipped, expired>>

\* The server answers 'registered', and a drain begins unless one is running.
Link ==
    /\ ~link /\ link' = TRUE
    /\ round' = IF round.stage = "idle" THEN [round EXCEPT !.stage = "fetch"] ELSE round
    /\ UNCHANGED <<wanted, standing, untold, notified, acking, copies, own, jobs, toAck,
                   begun, redone, skipped, expired, breaks>>

\* listPending: every page has all the requests that stand.
FetchRepairs ==
    /\ round.stage = "fetch"
    /\ round' = [stage |-> "page", batch |-> standing]
    /\ UNCHANGED <<wanted, standing, untold, link, notified, acking, copies, own, jobs,
                   toAck, begun, redone, skipped, expired, breaks>>

FetchRepairsFails ==
    /\ round.stage = "fetch" /\ Breaks("http")
    /\ round' = NoRound
    /\ UNCHANGED <<wanted, standing, untold, link, notified, acking, copies, own, jobs,
                   toAck, begun, redone, skipped, expired>>

Draining == \E j \in jobs : j.by = "drain"

\* One after the other, each awaited.
DrainRepair(r) ==
    /\ round.stage = "page" /\ r \in round.batch /\ ~Draining
    /\ round' = [round EXCEPT !.batch = @ \ {r}]
    /\ Begin(r, "drain")
    /\ UNCHANGED <<wanted, standing, untold, link, notified, acking, copies, own, toAck,
                   skipped, expired, breaks>>

\* The end of a page. Whether another follows is up to the messages on it (of all
\* contacts), and to reconnects meanwhile.
EndRound ==
    /\ round.stage = "page" /\ round.batch = {} /\ ~Draining
    /\ \/ Flush /\ UNCHANGED breaks /\ round' \in {NoRound, [round EXCEPT !.stage = "fetch"]}
       \/ FlushFails /\ round' = NoRound
    /\ UNCHANGED <<wanted, standing, untold, link, notified, copies, own, jobs, begun,
                   redone, skipped, expired>>

-----------------------------------------------------------------------------
(* Rows and faults *)

\* 'sent', or reconcileOutbox: the row takes the server's id.
RowConfirmed(t) ==
    /\ own[t] = "sending"
    /\ own' = [own EXCEPT ![t] = "sent"]
    /\ UNCHANGED <<wanted, standing, untold, link, notified, acking, copies, jobs, round,
                   toAck, begun, redone, skipped, expired, breaks>>

RowDeleted(t) ==
    /\ own[t] # "deleted"
    /\ own' = [own EXCEPT ![t] = "deleted"]
    /\ UNCHANGED <<wanted, standing, untold, link, notified, acking, copies, jobs, round,
                   toAck, begun, redone, skipped, expired, breaks>>

\* With a connection go frames of both directions that were not handled.
LoseLink ==
    /\ link' = FALSE
    /\ acking' \in SUBSET acking

LinkDrops ==
    /\ Breaks("drop") /\ link
    /\ LoseLink
    /\ notified' \in SUBSET notified
    /\ UNCHANGED <<wanted, standing, untold, phoneSide, expired>>

\* The app is killed.
PhoneRestarts ==
    /\ Breaks("crash")
    /\ LoseLink
    /\ notified' = {} /\ jobs' = {} /\ round' = NoRound /\ toAck' = {}
    /\ UNCHANGED <<wanted, standing, untold, copies, own, begun, redone, skipped, expired>>

ServerRestarts ==
    /\ Breaks("server")
    /\ LoseLink
    /\ notified' \in SUBSET notified /\ untold' = {}
    /\ UNCHANGED <<wanted, standing, phoneSide, expired>>

-----------------------------------------------------------------------------
RepairNext ==
    \/ \E ts \in SUBSET Texts : AskRepair(ts)
    \/ \E r \in Requests : TellRepair(r) \/ ExpireRepair(r) \/ HearRepair(r) \/ DrainRepair(r)
    \/ \E rs \in acking : AckRepairs(rs)
    \/ \E j \in jobs : JobDone(j) \/ JobFails(j)
    \/ \E j \in jobs, t \in Texts : ResendText(j, t) \/ SkipText(j, t)
    \/ FlushTimer \/ Link \/ FetchRepairs \/ FetchRepairsFails \/ EndRound
    \/ \E t \in Texts : RowConfirmed(t) \/ RowDeleted(t)
    \/ LinkDrops \/ PhoneRestarts \/ ServerRestarts

RepairSpec == RepairInit /\ [][RepairNext]_repairVars

-----------------------------------------------------------------------------
(* Properties *)

(***************************************************************************)
(* A text is re-sent once, however its request comes (pushed, drained, or  *)
(* both) and whatever is lost; unless processReset was begun twice for the *)
(* request, before the server had the acknowledgement of the first.        *)
(***************************************************************************)
ResentOnceUnlessRepeated ==
    \A c, d \in Resends : copies[c] = copies[d] =>
        c = d \/ \E r \in redone : copies[c] \in wanted[r]

(***************************************************************************)
(* A request is gone from the server only when each text it names has been *)
(* re-sent (which the socket or the server may still lose or refuse) or    *)
(* passed over, or after two weeks: no crash or lost call forgets it.      *)
(***************************************************************************)
GoneIsAnswered ==
    \A r \in Requests \ (standing \cup expired) : \A t \in wanted[r] :
        t \in skipped \/ \E c \in Resends : copies[c] = t
=============================================================================
