------------------------------ MODULE Mailbox ------------------------------
(***************************************************************************)
(* The receiving half of a conversation: the server's pending queue and    *)
(* acknowledgements (e2eeMessaging.js) and the recipient's phone           *)
(* (processIncoming, drainPending, flushAcks and the repair requests of    *)
(* engine.ts), with the socket between them.                               *)
(*                                                                         *)
(* The sender is the environment: Deposit stores any message encrypted for *)
(* the published install, and a re-send only of a message whose repair was *)
(* asked for.                                                              *)
(***************************************************************************)
EXTENDS MessageStore

CONSTANTS
    PageSize,    \* messages per GET /messages/pending (100)
    MaxPages,    \* pages one drain reads (50)
    PagesCapped, \* FALSE: pages are not counted, as when 50 are never used up
    AckLimit,    \* ids per ack (200)
    ResetLimit,  \* ids per session_reset (50)
    MaxResets,   \* SessionReset documents the server keeps for a pair (20)
    CanBreak,    \* TRUE: some envelopes cannot be opened by their install
    Faults,      \* kinds of fault that may happen
    MaxFaults    \* bound: faults in one behaviour

ASSUME MailboxAssumption ==
    /\ {PageSize, MaxPages, AckLimit, ResetLimit, MaxResets} \subseteq Nat \ {0}
    /\ Faults \subseteq {"drop", "crash", "server", "http", "db", "reinstall"}
    /\ MaxFaults \in Nat
    /\ PagesCapped \in BOOLEAN /\ CanBreak \in BOOLEAN

VARIABLES
    \* the server
    srvReg,      \* registrationId in the recipient's KeyBundle
    resets,      \* stored SessionReset documents: a sequence of id sets
    ackTasks,    \* acknowledgements on their way or half done
    resetTasks,  \* session_reset requests on their way
    \* the socket
    online,      \* the server has the phone's authenticated socket
    registered,  \* a 'registered' frame the phone has not handled yet
    pushed,      \* new_message frames on their way, oldest first
    \* the phone's database
    reg,         \* this install's registrationId
    rows,        \* the `messages` row of each id: its kind, or "none"
    consumed,    \* ids whose message key the sessions have already used
    \* the phone's memory
    pendingAcks, ackTimer, resetRequests, resetTimer, drain,
    \* history
    held,        \* the install that first recorded each id (0: none)
    asked,       \* ids a stored SessionReset ever named
    cut,         \* ids whose repair request a fault or a limit lost
    faults       \* faults so far

serverVars == <<srvReg, resets, ackTasks, resetTasks>>
socketVars == <<online, registered, pushed>>
phoneVars  == <<reg, rows, consumed, held>>
memoryVars == <<pendingAcks, ackTimer, resetRequests, resetTimer, drain>>
vars == <<storeVars, serverVars, socketVars, phoneVars, memoryVars, asked, cut, faults>>

Kinds == {"none", "text", "undecryptable", "other_device"}
AckTask == [ids : SUBSET Ids, stage : {"sent", "dropped"}]
DrainState == [stage : {"idle", "fetch", "page"}, again : BOOLEAN, page : 0..MaxPages,
               batch : SUBSET Ids, more : BOOLEAN, handled : BOOLEAN]
\* A page is fetched only while fewer than MaxPages were.
Drain == {d \in DrainState : d.stage = "fetch" => d.page < MaxPages}
NotDraining == [stage |-> "idle", again |-> FALSE, page |-> 0,
                batch |-> {}, more |-> FALSE, handled |-> FALSE]

ServerTypeOK ==
    /\ srvReg \in Regs
    /\ resets \in Seq(SUBSET Ids)
    /\ ackTasks \subseteq AckTask
    /\ resetTasks \subseteq SUBSET Ids

SocketTypeOK == online \in BOOLEAN /\ registered \in BOOLEAN /\ pushed \in Seq(Ids)

PhoneTypeOK ==
    /\ reg \in Regs
    /\ rows \in [Ids -> Kinds]
    /\ consumed \subseteq Ids
    /\ held \in [Ids -> 0..MaxReg]

MemoryTypeOK ==
    /\ pendingAcks \subseteq Ids /\ ackTimer \in BOOLEAN
    /\ resetRequests \subseteq Ids /\ resetTimer \in BOOLEAN
    /\ drain \in Drain

TypeOK ==
    /\ StoreTypeOK /\ ServerTypeOK /\ SocketTypeOK /\ PhoneTypeOK /\ MemoryTypeOK
    /\ asked \subseteq Ids /\ cut \subseteq Ids
    /\ faults \in 0..MaxFaults

Init ==
    /\ StoreInit
    /\ srvReg = 1 /\ resets = << >> /\ ackTasks = {} /\ resetTasks = {}
    /\ online = FALSE /\ registered = FALSE /\ pushed = << >>
    /\ reg = 1 /\ rows = [i \in Ids |-> "none"] /\ consumed = {}
    /\ held = [i \in Ids |-> 0]
    /\ pendingAcks = {} /\ ackTimer = FALSE
    /\ resetRequests = {} /\ resetTimer = FALSE
    /\ drain = NotDraining
    /\ asked = {} /\ cut = {} /\ faults = 0

\* A fault of kind k, counted against the bound.
Fault(k) ==
    /\ k \in Faults
    /\ faults < MaxFaults
    /\ faults' = faults + 1

\* The first `limit` elements in insertion order, which may be any: all of S if
\* it is no larger, and otherwise a subset of that size.
Slice(S, limit) ==
    IF Cardinality(S) <= limit THEN {S} ELSE {T \in SUBSET S : Cardinality(T) = limit}

-----------------------------------------------------------------------------
(* The server *)

\* send_message stores a message encrypted for the published install.
Deposit(m, good, o) ==
    /\ good \/ CanBreak
    /\ o # NoId => o \in asked /\ docs[o].msg = m
    /\ Create([msg |-> m, reg |-> srvReg, good |-> good, resendOf |-> o])
    /\ UNCHANGED <<serverVars, socketVars, phoneVars, memoryVars, asked, cut, faults>>

\* Mutant: what was pushed counts as handed over.
PushAsHandover(i) ==
    /\ i \in emitting
    /\ emitting' = emitting \ {i}
    /\ pushed' = IF online THEN Append(pushed, i) ELSE pushed
    /\ acked' = IF online THEN acked \cup {i} ELSE acked
    /\ UNCHANGED <<docs, delivered, serverVars, online, registered, phoneVars, memoryVars,
                   asked, cut, faults>>

\* ... and later pushes it to the recipient's socket, if there is one.
Push(i) ==
    /\ Emitted(i)
    /\ pushed' = IF online THEN Append(pushed, i) ELSE pushed
    /\ UNCHANGED <<serverVars, online, registered, phoneVars, memoryVars, asked, cut, faults>>

\* acknowledgeMessages: find what is not acked yet, drop those envelopes.
AckDrops(t) ==
    /\ t \in ackTasks /\ t.stage = "sent"
    /\ LET found == t.ids \ acked IN
        /\ DropEnvelopes(found)
        /\ ackTasks' = (ackTasks \ {t})
                       \cup (IF found = {} THEN {} ELSE {[ids |-> found, stage |-> "dropped"]})
    /\ UNCHANGED <<srvReg, resets, resetTasks, socketVars, phoneVars, memoryVars, asked, cut, faults>>

\* Mutant: the second updateMany keeps the first one's ackedAt filter.
AckDeliversUnacked(t) ==
    /\ t \in ackTasks /\ t.stage = "dropped"
    /\ CountDelivered(t.ids \ acked)
    /\ ackTasks' = ackTasks \ {t}
    /\ UNCHANGED <<srvReg, resets, resetTasks, socketVars, phoneVars, memoryVars, asked, cut, faults>>

\* The second updateMany.
AckDelivers(t) ==
    /\ t \in ackTasks /\ t.stage = "dropped"
    /\ CountDelivered(t.ids)
    /\ ackTasks' = ackTasks \ {t}
    /\ UNCHANGED <<srvReg, resets, resetTasks, socketVars, phoneVars, memoryVars, asked, cut, faults>>

\* createSessionReset: at most MaxResets stored requests for a pair.
StoreReset(ids) ==
    /\ ids \in resetTasks
    /\ resetTasks' = resetTasks \ {ids}
    /\ IF Len(resets) < MaxResets
       THEN resets' = Append(resets, ids) /\ asked' = asked \cup ids /\ UNCHANGED cut
       ELSE cut' = cut \cup ids /\ UNCHANGED <<resets, asked>>
    /\ UNCHANGED <<storeVars, srvReg, ackTasks, socketVars, phoneVars, memoryVars, faults>>

\* The sender's phone acknowledges a request it has handled.
TargetAcksReset ==
    /\ resets # << >>
    /\ resets' = Tail(resets)
    /\ UNCHANGED <<storeVars, srvReg, ackTasks, resetTasks, socketVars, phoneVars,
                   memoryVars, asked, cut, faults>>

-----------------------------------------------------------------------------
(* processIncoming, run for one message at a time under the peer's lock *)

AlreadyStored(i) ==
    /\ rows[i] # "none"
    /\ UNCHANGED <<phoneVars, resetRequests, resetTimer>>

OtherInstall(i) ==
    /\ rows[i] = "none" /\ docs[i].reg # reg
    /\ rows' = [rows EXCEPT ![i] = "other_device"]
    /\ held' = [held EXCEPT ![i] = reg]
    /\ UNCHANGED <<reg, consumed, resetRequests, resetTimer>>

\* decryptMessage: duplicate_message, its key was already used.
Duplicate(i) ==
    /\ rows[i] = "none" /\ docs[i].reg = reg /\ i \in consumed
    /\ UNCHANGED <<phoneVars, resetRequests, resetTimer>>

Unreadable(i) ==
    /\ rows[i] = "none" /\ docs[i].reg = reg /\ i \notin consumed /\ ~docs[i].good
    /\ rows' = [rows EXCEPT ![i] = "undecryptable"]
    /\ held' = [held EXCEPT ![i] = reg]
    /\ resetRequests' = resetRequests \cup {i}
    /\ resetTimer' = TRUE
    /\ UNCHANGED <<reg, consumed>>

\* Mutant: the notice is deleted and the early return taken before the insert.
ReadableNoInsert(i) ==
    LET o == docs[i].resendOf IN
    /\ rows[i] = "none" /\ docs[i].reg = reg /\ i \notin consumed /\ docs[i].good
    /\ consumed' = consumed \cup {i}
    /\ held' = [held EXCEPT ![i] = reg]
    /\ rows' = IF o \in Ids /\ rows[o] = "undecryptable"
               THEN [rows EXCEPT ![o] = "none"] ELSE [rows EXCEPT ![i] = "text"]
    /\ UNCHANGED <<reg, resetRequests, resetTimer>>

\* The session commit and the rows it leads to, in one transaction.
Readable(i) ==
    LET o == docs[i].resendOf IN
    /\ rows[i] = "none" /\ docs[i].reg = reg /\ i \notin consumed /\ docs[i].good
    /\ consumed' = consumed \cup {i}
    /\ held' = [held EXCEPT ![i] = reg]
    /\ rows' = CASE o \in Ids /\ rows[o] = "undecryptable" ->
                      [rows EXCEPT ![o] = "none", ![i] = "text"]
                 [] o \in Ids /\ rows[o] = "text" -> rows
                 [] OTHER -> [rows EXCEPT ![i] = "text"]
    /\ UNCHANGED <<reg, resetRequests, resetTimer>>

Process(i) ==
    /\ AlreadyStored(i) \/ OtherInstall(i) \/ Duplicate(i) \/ Unreadable(i) \/ Readable(i)
    /\ pendingAcks' = pendingAcks \cup {i}

-----------------------------------------------------------------------------
(* Acknowledging *)

SendAcks(ids) ==
    /\ ackTasks' = IF ids = {} THEN ackTasks ELSE ackTasks \cup {[ids |-> ids, stage |-> "sent"]}

\* flushAcks: over the socket, or else by POST /messages/ack.
FlushAcks ==
    \E ids \in Slice(pendingAcks, AckLimit) :
        SendAcks(ids) /\ pendingAcks' = pendingAcks \ ids

\* The POST fails, before or after the server acted on it: the ids are kept.
FlushAcksFails ==
    /\ ~online /\ pendingAcks # {}
    /\ \E ids \in Slice(pendingAcks, AckLimit) : SendAcks(ids) \/ UNCHANGED ackTasks
    /\ UNCHANGED pendingAcks

AckTimerFires ==
    /\ ackTimer
    /\ ackTimer' = FALSE
    /\ FlushAcks \/ FlushAcksFails
    /\ UNCHANGED <<storeVars, srvReg, resets, resetTasks, socketVars, phoneVars,
                   resetRequests, resetTimer, drain, asked, cut, faults>>

\* Mutant: the requests are forgotten whether or not they could be sent.
FlushResetRequestsForgetful ==
    /\ IF online /\ resetRequests # {}
       THEN \E ids \in Slice(resetRequests, ResetLimit) :
               /\ resetTasks' = resetTasks \cup {ids}
               /\ cut' = cut \cup (resetRequests \ ids)
       ELSE UNCHANGED <<resetTasks, cut>>
    /\ resetRequests' = {}

\* flushResetRequests: only while connected; whatever exceeds the limit is dropped.
FlushResetRequests ==
    IF online /\ resetRequests # {}
    THEN /\ \E ids \in Slice(resetRequests, ResetLimit) :
              /\ resetTasks' = resetTasks \cup {ids}
              /\ cut' = cut \cup (resetRequests \ ids)
         /\ resetRequests' = {}
    ELSE UNCHANGED <<resetTasks, resetRequests, cut>>

ResetTimerFires ==
    /\ resetTimer
    /\ resetTimer' = FALSE
    /\ FlushResetRequests
    /\ UNCHANGED <<storeVars, srvReg, resets, ackTasks, socketVars, phoneVars,
                   pendingAcks, ackTimer, drain, asked, faults>>

\* A new_message frame: process it, then schedule the acknowledgement.
ReceivePush ==
    /\ pushed # << >>
    /\ Process(Head(pushed))
    /\ pushed' = Tail(pushed)
    /\ ackTimer' = TRUE
    /\ UNCHANGED <<storeVars, serverVars, online, registered, drain, asked, cut, faults>>

\* A database error in processIncoming: not acknowledged, so the server keeps it.
ReceivePushFails ==
    /\ Fault("db") /\ pushed # << >>
    /\ pushed' = Tail(pushed)
    /\ UNCHANGED <<storeVars, serverVars, online, registered, phoneVars, memoryVars, asked, cut>>

-----------------------------------------------------------------------------
(* Draining the queue after a (re)connect *)

\* Mutant: a reconnect during a drain does not ask for another round.
HandleRegisteredOnce ==
    /\ registered
    /\ registered' = FALSE
    /\ IF drain.stage = "idle"
       THEN /\ drain' = [NotDraining EXCEPT !.stage = "fetch"]
            /\ UNCHANGED <<resetTasks, resetRequests, cut>>
       ELSE FlushResetRequests /\ UNCHANGED drain
    /\ UNCHANGED <<storeVars, srvReg, resets, ackTasks, online, pushed, phoneVars,
                   pendingAcks, ackTimer, resetTimer, asked, faults>>

\* onRegistered, after ensureKeys (which may fail: sending and receiving still
\* work): start a drain, or ask the running one for another round and go straight
\* on to the repair requests.
HandleRegistered ==
    /\ registered
    /\ registered' = FALSE
    /\ IF drain.stage = "idle"
       THEN /\ drain' = [NotDraining EXCEPT !.stage = "fetch"]
            /\ UNCHANGED <<resetTasks, resetRequests, cut>>
       ELSE /\ drain' = [drain EXCEPT !.again = TRUE]
            /\ FlushResetRequests
    /\ UNCHANGED <<storeVars, srvReg, resets, ackTasks, online, pushed, phoneVars,
                   pendingAcks, ackTimer, resetTimer, asked, faults>>

FetchPage ==
    /\ drain.stage = "fetch"
    /\ LET batch == PendingPage(PageSize) IN
        drain' = [drain EXCEPT !.stage = "page", !.page = IF PagesCapped THEN @ + 1 ELSE 0,
                               !.batch = batch, !.more = (batch # Pending), !.handled = FALSE]
    /\ UNCHANGED <<storeVars, serverVars, socketVars, phoneVars, pendingAcks, ackTimer,
                   resetRequests, resetTimer, asked, cut, faults>>

\* The request fails: the drain ends, and with it this onRegistered.
FetchFails ==
    /\ Fault("http") /\ drain.stage = "fetch"
    /\ drain' = NotDraining
    /\ UNCHANGED <<storeVars, serverVars, socketVars, phoneVars, pendingAcks, ackTimer,
                   resetRequests, resetTimer, asked, cut>>

\* The oldest message of the page still to be handled.
NextOfPage(i) ==
    /\ drain.stage = "page" /\ i \in drain.batch
    /\ \A j \in drain.batch : i <= j

DrainOne ==
    /\ \E i \in drain.batch :
        /\ NextOfPage(i) /\ Process(i)
        /\ drain' = [drain EXCEPT !.batch = @ \ {i}, !.handled = TRUE]
    /\ UNCHANGED <<storeVars, serverVars, socketVars, ackTimer, asked, cut, faults>>

DrainOneFails ==
    /\ Fault("db")
    /\ \E i \in drain.batch : NextOfPage(i) /\ drain' = [drain EXCEPT !.batch = @ \ {i}]
    /\ UNCHANGED <<storeVars, serverVars, socketVars, phoneVars, pendingAcks, ackTimer,
                   resetRequests, resetTimer, asked, cut>>

\* The server has more, something could be handled and the drain may read on.
NextPageDue == drain.more /\ drain.handled /\ drain.page < MaxPages

\* The end of a page: flush the acks, then read the next page, start over if
\* another round was asked for, or finish and send the repair requests.
EndPage ==
    /\ drain.stage = "page" /\ drain.batch = {}
    /\ FlushAcks
    /\ CASE NextPageDue ->
              /\ drain' = [drain EXCEPT !.stage = "fetch"]
              /\ UNCHANGED <<resetTasks, resetRequests, cut>>
         [] ~NextPageDue /\ drain.again ->
              /\ drain' = [NotDraining EXCEPT !.stage = "fetch"]
              /\ UNCHANGED <<resetTasks, resetRequests, cut>>
         [] OTHER ->
              /\ drain' = NotDraining
              /\ FlushResetRequests
    /\ UNCHANGED <<storeVars, srvReg, resets, socketVars, phoneVars, ackTimer,
                   resetTimer, asked, faults>>

\* Offline and the POST fails: the drain ends, and with it this onRegistered.
EndPageFails ==
    /\ drain.stage = "page" /\ drain.batch = {}
    /\ FlushAcksFails
    /\ drain' = NotDraining
    /\ UNCHANGED <<storeVars, srvReg, resets, resetTasks, socketVars, phoneVars, ackTimer,
                   resetRequests, resetTimer, asked, cut, faults>>

-----------------------------------------------------------------------------
(* Connections and faults *)

\* The server accepts the token, adds the socket and answers 'registered'.
Connect ==
    /\ ~online
    /\ online' = TRUE /\ registered' = TRUE
    /\ UNCHANGED <<storeVars, serverVars, pushed, phoneVars, memoryVars, asked, cut, faults>>

\* ensureKeysPublished for an install the server does not know yet.
PublishKeys ==
    /\ srvReg # reg
    /\ srvReg' = reg
    /\ UNCHANGED <<storeVars, resets, ackTasks, resetTasks, socketVars, phoneVars,
                   memoryVars, asked, cut, faults>>

\* Of the phone's frames a cut connection loses any the server has not begun to handle.
LoseFrames(memoryLost) ==
    /\ \E lost \in SUBSET {t \in ackTasks : t.stage = "sent"} : ackTasks' = ackTasks \ lost
    /\ \E lost \in SUBSET resetTasks :
        /\ resetTasks' = resetTasks \ lost
        /\ cut' = cut \cup memoryLost \cup UNION lost

\* ... and of the frames to the phone a suffix.
CutDown ==
    /\ online' = FALSE
    /\ \E n \in 0..Len(pushed) : pushed' = SubSeq(pushed, 1, n)

Drop ==
    /\ Fault("drop") /\ online
    /\ CutDown /\ LoseFrames({})
    /\ UNCHANGED <<storeVars, srvReg, resets, registered, phoneVars, memoryVars, asked>>

ForgetMemory ==
    /\ registered' = FALSE /\ online' = FALSE /\ pushed' = << >>
    /\ pendingAcks' = {} /\ ackTimer' = FALSE
    /\ resetRequests' = {} /\ resetTimer' = FALSE
    /\ drain' = NotDraining

\* The app is killed: its memory and what it had not sent are gone.
Crash ==
    /\ Fault("crash")
    /\ ForgetMemory /\ LoseFrames(resetRequests)
    /\ UNCHANGED <<storeVars, srvReg, resets, phoneVars, asked>>

\* The app is reinstalled: an empty database and a new registration id.
Reinstall ==
    /\ Fault("reinstall") /\ reg < MaxReg
    /\ reg' = reg + 1
    /\ rows' = [i \in Ids |-> "none"] /\ consumed' = {}
    /\ ForgetMemory
    /\ UNCHANGED <<storeVars, serverVars, held, asked, cut>>

\* The server process restarts: tasks it was running stop where they were.
ServerCrash ==
    /\ Fault("server")
    /\ emitting' = {} /\ ackTasks' = {} /\ resetTasks' = {}
    /\ cut' = cut \cup UNION resetTasks
    /\ CutDown
    /\ UNCHANGED <<docs, acked, delivered, srvReg, resets, registered, phoneVars,
                   memoryVars, asked>>

-----------------------------------------------------------------------------
ServerStep ==
    \/ \E i \in emitting : Push(i)
    \/ \E t \in ackTasks : AckDrops(t) \/ AckDelivers(t)
    \/ \E ids \in resetTasks : StoreReset(ids)

PhoneStep ==
    \/ ReceivePush \/ AckTimerFires \/ ResetTimerFires
    \/ HandleRegistered \/ FetchPage \/ DrainOne \/ EndPage
    \/ EndPageFails \/ Connect \/ PublishKeys

Environment ==
    \/ \E m \in Msgs, good \in BOOLEAN, o \in Stored \cup {NoId} : Deposit(m, good, o)
    \/ TargetAcksReset
    \/ ReceivePushFails \/ FetchFails \/ DrainOneFails
    \/ Drop \/ Crash \/ Reinstall \/ ServerCrash

Next == ServerStep \/ PhoneStep \/ Environment

Spec == Init /\ [][Next]_vars

(***************************************************************************)
(* The server goes on with the handlers it began, and the phone with its   *)
(* timers, requests and reconnects; senders and faults owe nothing.  No    *)
(* single handler is promised more than that.                              *)
(***************************************************************************)
Fairness == WF_vars(ServerStep) /\ WF_vars(PhoneStep)

FairSpec == Spec /\ Fairness

-----------------------------------------------------------------------------
(* Properties *)

Held == {i \in Ids : held[i] # 0}

(***************************************************************************)
(* The server deletes an envelope (acknowledgeMessages) only after some    *)
(* install of the phone committed a row for it (processIncoming), however  *)
(* acks are lost, repeated, restored or cut by crashes in between.         *)
(***************************************************************************)
AckedIsHeld == acked \subseteq Held

(***************************************************************************)
(* What this install recorded has a trace in the chat: its own row, the    *)
(* row of the re-send that replaced it, or the original it repeated.  So   *)
(* no interleaving of pushes, drains and re-sends swallows a message.      *)
(***************************************************************************)
Traced(i) ==
    \/ rows[i] # "none"
    \/ \E j \in Stored : docs[j].resendOf = i /\ rows[j] = "text"
    \/ docs[i].resendOf # NoId /\ rows[docs[i].resendOf] = "text"

HeldIsTraced == \A i \in Stored : held[i] = reg => Traced(i)

(***************************************************************************)
(* The two sides together keep custody of every accepted message.          *)
(***************************************************************************)
Abstract == INSTANCE Custody WITH
    accepted <- Stored,
    onServer <- Stored \ acked,
    onPhone <- Held

CustodyKept == Abstract!Spec

(***************************************************************************)
(* Whatever the server stores, the phone eventually takes over and the     *)
(* ciphertext goes, through dropped sockets and app restarts               *)
(* (onRegistered drains, drainAgain catches a reconnect during a drain).   *)
(***************************************************************************)
EveryMessageTaken == \A i \in Ids : (i \in Stored) ~> (i \in acked)

(***************************************************************************)
(* The repair of every unreadable message has been asked for or still will *)
(* be (requestReset, flushResetRequests, createSessionReset), unless the   *)
(* request was cut: lost with a socket or a restart, or over a limit.      *)
(***************************************************************************)
RepairTracked ==
    \A i \in Ids : rows[i] = "undecryptable" =>
        i \in asked \cup resetRequests \cup cut \cup UNION resetTasks

(***************************************************************************)
(* Every message shown as unreadable has its repair asked for.             *)
(***************************************************************************)
EveryRepairAsked == \A i \in Ids : (rows[i] = "undecryptable") ~> (i \in asked)

(***************************************************************************)
(* Acknowledged messages are counted as delivered.                         *)
(***************************************************************************)
AckedIsDelivered == \A i \in Ids : (i \in acked) ~> (i \in delivered)
=============================================================================
