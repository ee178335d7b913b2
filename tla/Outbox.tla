------------------------------- MODULE Outbox -------------------------------
(***************************************************************************)
(* The sending half of a conversation: the rows a phone keeps of its own   *)
(* messages (sendText, retryMessage, onSent, updateStatus, onSendRejected  *)
(* and reconcileOutbox of engine.ts), the send_message handler of          *)
(* websocketServer.js and the sockets between them.                        *)
(*                                                                         *)
(* The recipient is the environment: it acknowledges and reads what is     *)
(* stored and may reinstall.  Re-sends for a repair, which have no row of  *)
(* their own, are left out.                                                *)
(***************************************************************************)
EXTENDS MessageStore

CONSTANTS
    HistoryLimit, \* rows of GET /messages/:peer (50, in both directions)
    MaxConns,     \* bound: sockets opened in one behaviour
    PeerActs,     \* FALSE: the recipient's phone is away and acknowledges nothing
    CanUnlink,    \* TRUE: the two users may stop being connected
    CanGiveUp,    \* TRUE: a message may be older than OUTBOX_GIVE_UP_MS (a day)
    Faults,       \* kinds of fault that may happen
    MaxFaults     \* bound: faults in one behaviour

ASSUME OutboxAssumption ==
    /\ HistoryLimit \in Nat \ {0} /\ MaxConns \in Nat \ {0}
    /\ {PeerActs, CanUnlink, CanGiveUp} \subseteq BOOLEAN
    /\ Faults \subseteq {"drop", "crash", "server", "http", "db"}
    /\ MaxFaults \in Nat

VARIABLES
    \* the server
    srvReg,     \* registrationId in the recipient's KeyBundle
    linked,     \* an accepted Connection joins the two users
    read,       \* ids with readAt set
    handling,   \* per socket: the stored message whose handler is not done
    \* the sockets
    socket,     \* the phone's latest socket
    online,     \* it is open
    up,         \* per socket: send_message frames the server has yet to handle
    down,       \* frames on their way to the phone
    \* the phone
    authed,     \* 'registered' arrived on the open socket
    out,        \* the row of each message: status, and the server's id once known
    session,    \* the install the active session is for (NoSession: none)
    confirming, \* onSent tasks that have yet to write
    retried,    \* retriedAfterKeyChange
    syncing,    \* an onRegistered that has yet to reach reconcileOutbox
    rec,        \* the running reconcileOutbox
    \* history
    raced,      \* messages reconcileOutbox dealt with on stale information
    swallowed,  \* a reconcileOutbox returned at once because one was running
    faults      \* faults so far

serverVars == <<srvReg, linked, read, handling>>
socketVars == <<socket, online, up, down>>
memoryVars == <<authed, confirming, retried, syncing, rec>>
outboxVars == <<storeVars, serverVars, socketVars, out, session, memoryVars, raced, swallowed,
                faults>>

Conns == 1..MaxConns
NoSession == 0
SentStatus == {"sent", "delivered", "read"}
Statuses == {"none", "deleted", "failed", "sending"} \cup SentStatus
Row == [st : Statuses, id : Ids \cup {NoId}]
UpFrame == [msg : Msgs, reg : Regs]
DownFrame ==
    [kind : {"registered", "identity_changed"}]
    \cup [kind : {"sent"}, msg : Msgs, id : Ids]
    \cup [kind : {"status"}, ids : SUBSET Ids, status : SentStatus]
    \cup [kind : {"error"}, msg : Msgs, code : {"recipient_keys_changed", "other"}]
ReconcileState == [stage : {"idle", "fetch", "rows"},
                   todo : SUBSET [msg : Msgs, id : Ids \cup {NoId}],
                   found : [Msgs -> Ids \cup {NoId}],
                   status : [Msgs -> SentStatus]]
\* It runs as long as it has rows to deal with.
Reconcile == {r \in ReconcileState : r.stage = "idle" <=> r.todo = {}}
NotReconciling == [stage |-> "idle", todo |-> {}, found |-> [m \in Msgs |-> NoId],
                   status |-> [m \in Msgs |-> "sent"]]

\* STATUS_RANK, and the CASE of advanceStatus.
Rank == [failed |-> 0, sending |-> 1, sent |-> 2, delivered |-> 3, read |-> 4]

OutboxTypeOK ==
    /\ StoreTypeOK
    /\ srvReg \in Regs /\ linked \in BOOLEAN /\ read \subseteq Ids
    /\ handling \in [Conns -> Ids \cup {NoId}]
    /\ socket \in Conns \cup {0} /\ online \in BOOLEAN
    /\ up \in [Conns -> Seq(UpFrame)] /\ down \in Seq(DownFrame)
    /\ authed \in BOOLEAN
    /\ out \in [Msgs -> Row] /\ session \in Regs \cup {NoSession}
    /\ confirming \subseteq [msg : Msgs, id : Ids] /\ retried \subseteq Msgs
    /\ syncing \in BOOLEAN /\ rec \in Reconcile
    /\ raced \subseteq Msgs /\ swallowed \in BOOLEAN
    /\ faults \in 0..MaxFaults

OutboxInit ==
    /\ StoreInit
    /\ srvReg = 1 /\ linked = TRUE /\ read = {} /\ handling = [c \in Conns |-> NoId]
    /\ socket = 0 /\ online = FALSE /\ up = [c \in Conns |-> << >>] /\ down = << >>
    /\ authed = FALSE
    /\ out = [m \in Msgs |-> [st |-> "none", id |-> NoId]] /\ session = NoSession
    /\ confirming = {} /\ retried = {} /\ syncing = FALSE /\ rec = NotReconciling
    /\ raced = {} /\ swallowed = FALSE /\ faults = 0

\* A fault of kind k, counted against the bound.
Fault(k) ==
    /\ k \in Faults
    /\ faults < MaxFaults
    /\ faults' = faults + 1

\* emitToUser(sender, frame), or a reply on socket c.
Notify(frame) == down' = IF online THEN Append(down, frame) ELSE down
ReplyOn(c, frame) == down' = IF online /\ c = socket THEN Append(down, frame) ELSE down

-----------------------------------------------------------------------------
(* The phone's rows *)

\* Mutant: the status is set whatever the row has.
RaisedAnyway(ids, st) ==
    [m \in Msgs |-> IF out[m].id \in ids THEN [out[m] EXCEPT !.st = st] ELSE out[m]]

\* advanceStatus for server ids: forward only; a failed row may move as well.
Raised(ids, st) ==
    [m \in Msgs |-> IF out[m].id \in ids /\ Rank[out[m].st] < Rank[st]
                    THEN [out[m] EXCEPT !.st = st] ELSE out[m]]

\* Mutant: a row that has the server's id takes another one.
ConfirmedAgain(m, i) ==
    IF out[m].st \notin {"none", "deleted"}
    THEN [out EXCEPT ![m] = [st |-> IF out[m].st \in {"sending", "failed"} THEN "sent"
                                    ELSE out[m].st,
                             id |-> i]]
    ELSE out

\* confirmSent: the row takes the server's id, once.
Confirmed(m, i) ==
    IF out[m].st \notin {"none", "deleted"} /\ out[m].id = NoId
    THEN [out EXCEPT ![m] = [st |-> IF out[m].st \in {"sending", "failed"} THEN "sent"
                                    ELSE out[m].st,
                             id |-> i]]
    ELSE out

\* updateMessage / markFailed
Marked(m, st) == [out EXCEPT ![m].st = st]

-----------------------------------------------------------------------------
(* Encrypting and sending, under the peer's lock *)

\* prepareSession: the active session, or one started with a fetched bundle.
Prepared(s) ==
    \/ session # NoSession /\ s = session
    \/ session = NoSession /\ linked /\ s = srvReg

\* ... or a request for the bundle that gets no answer,
PrepareOffline ==
    /\ session = NoSession
    /\ IF online THEN Fault("http") ELSE UNCHANGED faults

\* ... or is refused, as it is for users who are not connected.
PrepareRefused == session = NoSession /\ ~linked

\* encryptMessage and transport.send, which does nothing while disconnected.
Transmit(m) ==
    \E s \in Regs :
        /\ Prepared(s)
        /\ session' = s
        /\ up' = IF authed THEN [up EXCEPT ![socket] = Append(@, [msg |-> m, reg |-> s])] ELSE up
        /\ UNCHANGED faults

\* A refused sendText throws before it saves anything.
SendText(m) ==
    /\ out[m].st = "none"
    /\ Transmit(m) \/ (PrepareOffline /\ UNCHANGED <<session, up>>)
    /\ out' = Marked(m, "sending")
    /\ UNCHANGED <<storeVars, serverVars, socket, online, down, memoryVars, raced, swallowed>>

\* A refused retry leaves the message failed.
RetryMessage(m) ==
    /\ out[m].st = "failed"
    /\ Transmit(m) \/ (PrepareOffline /\ UNCHANGED <<session, up>>)
    /\ out' = Marked(m, "sending")
    /\ UNCHANGED <<storeVars, serverVars, socket, online, down, memoryVars, raced, swallowed>>

\* The chat offers it for failed messages only.
DeleteMessage(m) ==
    /\ out[m].st = "failed"
    /\ out' = [out EXCEPT ![m] = [st |-> "deleted", id |-> NoId]]
    /\ UNCHANGED <<storeVars, serverVars, socketVars, session, memoryVars, raced, swallowed,
                   faults>>

-----------------------------------------------------------------------------
(* The send_message handler: one frame at a time per socket *)

Keep == UNCHANGED <<socket, online, out, session, memoryVars, raced, swallowed>>

Reject(c) ==
    /\ up[c] # << >> /\ handling[c] = NoId
    /\ LET f == Head(up[c]) IN
        \/ ~linked /\ ReplyOn(c, [kind |-> "error", msg |-> f.msg, code |-> "other"])
        \/ /\ linked /\ f.reg # srvReg
           /\ ReplyOn(c, [kind |-> "error", msg |-> f.msg, code |-> "recipient_keys_changed"])
    /\ up' = [up EXCEPT ![c] = Tail(@)]
    /\ Keep /\ UNCHANGED <<storeVars, serverVars, faults>>

Accept(c) ==
    /\ up[c] # << >> /\ handling[c] = NoId
    /\ linked /\ Head(up[c]).reg = srvReg
    /\ Create([msg |-> Head(up[c]).msg, reg |-> srvReg, good |-> TRUE, resendOf |-> NoId])
    /\ handling' = [handling EXCEPT ![c] = Len(docs) + 1]
    /\ up' = [up EXCEPT ![c] = Tail(@)]
    /\ Keep /\ UNCHANGED <<srvReg, linked, read, down, faults>>

\* The counters are updated, the recipient is told and the sender gets 'sent'.
Reply(c) ==
    /\ handling[c] # NoId
    /\ Emitted(handling[c])
    /\ ReplyOn(c, [kind |-> "sent", msg |-> docs[handling[c]].msg, id |-> handling[c]])
    /\ handling' = [handling EXCEPT ![c] = NoId]
    /\ Keep /\ UNCHANGED <<srvReg, linked, read, up, faults>>

\* A database error before or after the message was stored: the error frame
\* names no message, so the phone ignores it.
HandlerFails(c) ==
    /\ Fault("db")
    /\ \/ /\ up[c] # << >> /\ handling[c] = NoId
          /\ up' = [up EXCEPT ![c] = Tail(@)]
          /\ UNCHANGED <<storeVars, handling>>
       \/ /\ handling[c] # NoId
          /\ Emitted(handling[c])
          /\ handling' = [handling EXCEPT ![c] = NoId]
          /\ UNCHANGED up
    /\ Keep /\ UNCHANGED <<srvReg, linked, read, down>>

-----------------------------------------------------------------------------
(* The recipient, as the server sees it *)

PeerAcks(i) ==
    /\ PeerActs /\ i \in Stored \ acked
    /\ acked' = acked \cup {i} /\ delivered' = delivered \cup {i}
    /\ IF i \in delivered THEN UNCHANGED down
       ELSE Notify([kind |-> "status", ids |-> {i}, status |-> "delivered"])
    /\ Keep /\ UNCHANGED <<docs, emitting, serverVars, up, faults>>

\* mark_read: whatever was sent up to the newest message on the reader's screen
\* counts as delivered and read.
PeerReads(i) ==
    LET seen == {j \in Stored \ read : j <= i} IN
    /\ PeerActs /\ i \in Stored \ read
    /\ read' = read \cup seen /\ delivered' = delivered \cup seen
    /\ Notify([kind |-> "status", ids |-> seen, status |-> "read"])
    /\ Keep /\ UNCHANGED <<docs, acked, emitting, srvReg, linked, handling, up, faults>>

\* New keys are published, and the contacts are told (notifyConnections).
PeerReinstalls ==
    /\ srvReg < MaxReg
    /\ srvReg' = srvReg + 1
    /\ Notify([kind |-> "identity_changed"])
    /\ Keep /\ UNCHANGED <<storeVars, linked, read, handling, up, faults>>

\* One of the two unfollows or blocks the other.
Unlink ==
    /\ CanUnlink /\ linked
    /\ linked' = FALSE
    /\ Keep /\ UNCHANGED <<storeVars, srvReg, read, handling, up, down, faults>>

-----------------------------------------------------------------------------
(* Frames the phone receives *)

Receive(kind) == down # << >> /\ Head(down).kind = kind /\ down' = Tail(down)

\* Mutant: interrupted sends are looked for on the first connect only.
HandleRegisteredFirst ==
    /\ Receive("registered")
    /\ authed' = online /\ syncing' = (socket = 1)
    /\ UNCHANGED <<storeVars, serverVars, socket, online, up, out, session, confirming, retried,
                   rec, raced, swallowed, faults>>

HandleRegistered ==
    /\ Receive("registered")
    /\ authed' = online /\ syncing' = TRUE
    /\ UNCHANGED <<storeVars, serverVars, socket, online, up, out, session, confirming, retried,
                   rec, raced, swallowed, faults>>

\* 'sent', and the 'sent' status frame behind it: the latter writes at once and
\* the former after a read.
HandleSent ==
    /\ Receive("sent")
    /\ LET f == Head(down) IN
        /\ out' = Raised({f.id}, "sent")
        /\ confirming' = confirming \cup {[msg |-> f.msg, id |-> f.id]}
    /\ UNCHANGED <<storeVars, serverVars, socket, online, up, session, authed, retried, syncing,
                   rec, raced, swallowed, faults>>

ConfirmSent(task) ==
    /\ task \in confirming
    /\ confirming' = confirming \ {task}
    /\ out' = Confirmed(task.msg, task.id)
    /\ retried' = retried \ {task.msg}
    /\ UNCHANGED <<storeVars, serverVars, socketVars, session, authed, syncing, rec, raced,
                   swallowed, faults>>

HandleStatus ==
    /\ Receive("status")
    /\ out' = Raised(Head(down).ids, Head(down).status)
    /\ UNCHANGED <<storeVars, serverVars, socket, online, up, session, memoryVars, raced,
                   swallowed, faults>>

HandleIdentityChanged ==
    /\ Receive("identity_changed")
    /\ session' = NoSession
    /\ UNCHANGED <<storeVars, serverVars, socket, online, up, out, memoryVars, raced, swallowed,
                   faults>>

\* onSendRejected: new keys are worth one more try with a fresh session; a second
\* refusal, or a try that fails for any reason, makes the message failed.
HandleError ==
    /\ Receive("error")
    /\ LET m == Head(down).msg
           again == Head(down).code = "recipient_keys_changed" /\ m \notin retried IN
        \/ /\ out[m].st = "deleted"
           /\ UNCHANGED <<out, session, up, retried, faults>>
        \/ /\ out[m].st # "deleted" /\ again
           /\ retried' = retried \cup {m}
           /\ \/ /\ linked
                 /\ session' = srvReg
                 /\ up' = IF authed
                          THEN [up EXCEPT ![socket] = Append(@, [msg |-> m, reg |-> srvReg])]
                          ELSE up
                 /\ UNCHANGED <<out, faults>>
              \/ /\ IF linked /\ online THEN Fault("http") ELSE UNCHANGED faults
                 /\ session' = NoSession /\ out' = Marked(m, "failed")
                 /\ UNCHANGED up
        \/ /\ out[m].st # "deleted" /\ ~again
           /\ out' = Marked(m, "failed")
           /\ UNCHANGED <<session, up, retried, faults>>
    /\ UNCHANGED <<storeVars, serverVars, socket, online, authed, confirming, syncing, rec, raced,
                   swallowed>>

-----------------------------------------------------------------------------
(* reconcileOutbox *)

KeepSync == UNCHANGED <<storeVars, serverVars, socket, online, down, authed, confirming, retried>>

StartReconcile ==
    /\ syncing
    /\ syncing' = FALSE
    /\ LET todo == {[msg |-> m, id |-> out[m].id] : m \in {m \in Msgs : out[m].st = "sending"}} IN
        IF rec.stage # "idle"
        THEN swallowed' = TRUE /\ UNCHANGED rec
        ELSE /\ rec' = IF todo = {} THEN rec
                       ELSE [NotReconciling EXCEPT !.stage = "fetch", !.todo = todo]
             /\ UNCHANGED swallowed
    /\ KeepSync /\ UNCHANGED <<up, out, session, raced, faults>>

\* onRegistered stops before reconcileOutbox: fetching the queue failed.
SyncFails ==
    /\ Fault("http") /\ syncing
    /\ syncing' = FALSE
    /\ KeepSync /\ UNCHANGED <<up, out, session, rec, raced, swallowed>>

\* How the server describes one of the sender's messages.
ServerStatus(i) ==
    IF i \in read THEN "read" ELSE IF i \in delivered THEN "delivered" ELSE "sent"

FetchHistory ==
    /\ rec.stage = "fetch"
    /\ LET rows(m) == {i \in NewestRows(HistoryLimit) : docs[i].msg = m}
           newest(m) == CHOOSE i \in rows(m) : \A j \in rows(m) : j <= i IN
        rec' = [rec EXCEPT
            !.stage = "rows",
            !.found = [m \in Msgs |-> IF rows(m) = {} THEN NoId ELSE newest(m)],
            !.status = [m \in Msgs |-> IF rows(m) = {} THEN "sent" ELSE ServerStatus(newest(m))]]
    /\ KeepSync /\ UNCHANGED <<up, out, session, syncing, raced, swallowed, faults>>

FetchHistoryFails ==
    /\ Fault("http") /\ rec.stage = "fetch"
    /\ rec' = NotReconciling
    /\ KeepSync /\ UNCHANGED <<up, out, session, syncing, raced, swallowed>>

\* The history showed no copy of m, but the server has one or will have, or turned
\* one down and the phone has yet to hear of it, or the row is not waiting any more.
Stale(m) ==
    \/ \E i \in Stored : docs[i].msg = m
    \/ \E c \in Conns : \E k \in DOMAIN up[c] : up[c][k].msg = m
    \/ \E k \in DOMAIN down : down[k].kind = "error" /\ down[k].msg = m
    \/ out[m].st # "sending"

TakeServerId(m) ==
    LET i == rec.found[m]
        confirmed == Confirmed(m, i) IN
    /\ i # NoId
    /\ out' = IF rec.status[m] # "sent" /\ confirmed[m].id = i
                 /\ Rank[confirmed[m].st] < Rank[rec.status[m]]
              THEN [confirmed EXCEPT ![m].st = rec.status[m]] ELSE confirmed
    /\ UNCHANGED <<session, up, raced, faults>>

\* Mutant: an old message is given up before the server's rows are looked at.
GiveUpFirst(m, id) ==
    /\ CanGiveUp
    /\ out' = IF out[m].id = id /\ out[m].st \notin {"none", "deleted"}
              THEN Marked(m, "failed") ELSE out
    /\ raced' = IF rec.found[m] = NoId /\ Stale(m) THEN raced \cup {m} ELSE raced
    /\ UNCHANGED <<session, up, faults>>

\* Only the row the snapshot saw: once it has a server id it is another one.
GiveUp(m, id) ==
    /\ CanGiveUp /\ rec.found[m] = NoId
    /\ out' = IF out[m].id = id /\ out[m].st \notin {"none", "deleted"}
              THEN Marked(m, "failed") ELSE out
    /\ raced' = IF Stale(m) THEN raced \cup {m} ELSE raced
    /\ UNCHANGED <<session, up, faults>>

\* Mutant: a message is sent again whether or not the server has it.
SendAgainAlways(m) ==
    /\ \/ Transmit(m) /\ UNCHANGED out
       \/ PrepareOffline /\ UNCHANGED <<session, up, out>>
       \/ /\ PrepareRefused
          /\ out' = IF out[m].st = "deleted" THEN out ELSE Marked(m, "failed")
          /\ UNCHANGED <<session, up, faults>>
    /\ raced' = IF rec.found[m] = NoId /\ Stale(m) THEN raced \cup {m} ELSE raced

SendAgain(m) ==
    /\ rec.found[m] = NoId
    /\ \/ Transmit(m) /\ UNCHANGED out
       \/ PrepareOffline /\ UNCHANGED <<session, up, out>>
       \/ /\ PrepareRefused
          /\ out' = IF out[m].st = "deleted" THEN out ELSE Marked(m, "failed")
          /\ UNCHANGED <<session, up, faults>>
    /\ raced' = IF Stale(m) THEN raced \cup {m} ELSE raced

\* Mutant: `reconciling` stays set.
ReconcileOneHung(t) ==
    /\ rec.stage = "rows" /\ t \in rec.todo
    /\ TakeServerId(t.msg) \/ GiveUp(t.msg, t.id) \/ SendAgain(t.msg)
    /\ rec' = [rec EXCEPT !.todo = @ \ {t}]
    /\ KeepSync /\ UNCHANGED <<syncing, swallowed>>

ReconcileOne(t) ==
    /\ rec.stage = "rows" /\ t \in rec.todo
    /\ TakeServerId(t.msg) \/ GiveUp(t.msg, t.id) \/ SendAgain(t.msg)
    /\ rec' = IF rec.todo = {t} THEN NotReconciling ELSE [rec EXCEPT !.todo = @ \ {t}]
    /\ KeepSync /\ UNCHANGED <<syncing, swallowed>>

\* Opening the chat (syncConversation) takes over every status the server shows.
SyncConversation ==
    /\ out' = [m \in Msgs |->
                 LET i == out[m].id IN
                 IF i \in NewestRows(HistoryLimit) /\ Rank[out[m].st] < Rank[ServerStatus(i)]
                 THEN [out[m] EXCEPT !.st = ServerStatus(i)] ELSE out[m]]
    /\ out' # out
    /\ KeepSync /\ UNCHANGED <<up, session, syncing, rec, raced, swallowed, faults>>

-----------------------------------------------------------------------------
(* Connections and faults *)

\* Everything the previous socket received is handled before a new one opens.
Connect ==
    /\ ~online /\ down = << >> /\ socket < MaxConns
    /\ socket' = socket + 1 /\ online' = TRUE
    /\ down' = << [kind |-> "registered"] >>
    /\ UNCHANGED <<storeVars, serverVars, up, out, session, memoryVars, raced, swallowed, faults>>

\* A cut connection loses a suffix of the frames each way; what the server has of
\* them it still handles.
CutUp == \E n \in 0..Len(up[socket]) : up' = [up EXCEPT ![socket] = SubSeq(@, 1, n)]
CutDown == \E n \in 0..Len(down) : down' = SubSeq(down, 1, n)

Drop ==
    /\ Fault("drop") /\ online
    /\ online' = FALSE /\ authed' = FALSE
    /\ CutUp /\ CutDown
    /\ UNCHANGED <<storeVars, serverVars, socket, out, session, confirming, retried, syncing, rec,
                   raced, swallowed>>

\* The app is killed.
Crash ==
    /\ Fault("crash")
    /\ online' = FALSE /\ authed' = FALSE /\ down' = << >>
    /\ IF online THEN CutUp ELSE UNCHANGED up
    /\ confirming' = {} /\ retried' = {} /\ syncing' = FALSE /\ rec' = NotReconciling
    /\ UNCHANGED <<storeVars, serverVars, socket, out, session, raced, swallowed>>

\* The server process restarts: frames it had not handled and handlers it was
\* running are gone.
ServerCrash ==
    /\ Fault("server")
    /\ online' = FALSE /\ authed' = FALSE
    /\ emitting' = {} /\ handling' = [c \in Conns |-> NoId]
    /\ up' = [c \in Conns |-> << >>] /\ CutDown
    /\ UNCHANGED <<docs, acked, delivered, srvReg, linked, read, socket, out, session, confirming,
                   retried, syncing, rec, raced, swallowed>>

-----------------------------------------------------------------------------
ServerStep == \E c \in Conns : Reject(c) \/ Accept(c) \/ Reply(c)

PhoneStep ==
    \/ HandleRegistered \/ HandleSent \/ HandleStatus \/ HandleIdentityChanged \/ HandleError
    \/ \E task \in confirming : ConfirmSent(task)
    \/ StartReconcile \/ FetchHistory \/ \E t \in rec.todo : ReconcileOne(t)
    \/ Connect

Environment ==
    \/ \E m \in Msgs : SendText(m) \/ RetryMessage(m) \/ DeleteMessage(m)
    \/ SyncConversation
    \/ \E i \in Stored : PeerAcks(i) \/ PeerReads(i)
    \/ PeerReinstalls \/ Unlink
    \/ \E c \in Conns : HandlerFails(c)
    \/ SyncFails \/ FetchHistoryFails
    \/ Drop \/ Crash \/ ServerCrash

OutboxNext == ServerStep \/ PhoneStep \/ Environment

OutboxSpec == OutboxInit /\ [][OutboxNext]_outboxVars

(***************************************************************************)
(* The server handles the frames it has, and the phone goes on with what   *)
(* it received, began and is connected for.  Users and faults owe nothing. *)
(***************************************************************************)
OutboxFairSpec == OutboxSpec /\ WF_outboxVars(ServerStep) /\ WF_outboxVars(PhoneStep)

-----------------------------------------------------------------------------
(* Properties *)

(***************************************************************************)
(* A tick never lies: a message shown as sent is stored under the id the   *)
(* row has, and one shown as delivered or read is so on the server,        *)
(* whichever of onSent, updateStatus, reconcileOutbox and syncConversation *)
(* wrote it.                                                               *)
(***************************************************************************)
TicksAreTrue ==
    \A m \in Msgs : out[m].st \in SentStatus =>
        /\ out[m].id \in Stored /\ docs[out[m].id].msg = m
        /\ out[m].st = "delivered" => out[m].id \in delivered
        /\ out[m].st = "read" => out[m].id \in read

Copies(m) == {i \in Stored : docs[i].msg = m}

(***************************************************************************)
(* A message is stored at most once, so the recipient sees it once.        *)
(***************************************************************************)
StoredOnce == \A m \in Msgs : Cardinality(Copies(m)) <= 1

(***************************************************************************)
(* ... unless reconcileOutbox acted on a stale snapshot or a stale answer: *)
(* neither rejected sends, key changes, retries by the user nor restarts   *)
(* alone store a message twice.                                            *)
(***************************************************************************)
StoredOnceUnlessRaced == \A m \in Msgs : Cardinality(Copies(m)) <= 1 \/ m \in raced

(***************************************************************************)
(* A message the chat shows as failed, or the user deleted as failed, was  *)
(* not stored for the recipient, with the same exception.                  *)
(***************************************************************************)
FailedIsNotStored ==
    \A m \in Msgs : out[m].st \in {"failed", "deleted"} => Copies(m) = {} \/ m \in raced

(***************************************************************************)
(* The status of a message does not go back once it was confirmed, not     *)
(* even when late replies, stale snapshots and rejections meet.            *)
(***************************************************************************)
StatusNeverBack ==
    [][\A m \in Msgs : out[m].st \in SentStatus /\ m \notin raced'
            => Rank[out'[m].st] >= Rank[out[m].st]]_outboxVars

(***************************************************************************)
(* Every message that is being sent ends up sent or failed.                *)
(***************************************************************************)
EverySendEnds == \A m \in Msgs : (out[m].st = "sending") ~> (out[m].st # "sending")

(***************************************************************************)
(* ... unless a reconnect met a reconcileOutbox still running, whose       *)
(* snapshot does not have the message.                                     *)
(***************************************************************************)
EverySendEndsUnlessSwallowed ==
    \A m \in Msgs : (out[m].st = "sending") ~> (out[m].st # "sending" \/ swallowed)
=============================================================================
