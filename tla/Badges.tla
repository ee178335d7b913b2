------------------------------- MODULE Badges -------------------------------
(***************************************************************************)
(* The unread count of one conversation: the server's counter              *)
(* (participants.unreadCount of connection.js) beside the messages it      *)
(* counts, changed by send_message and mark_read of websocketServer.js,    *)
(* and what the receiver's phone shows of it. The phone shows it twice: in *)
(* the tab badge (UnreadContext.tsx) and in the chat's row                 *)
(* (ChatsScreen.tsx). The two are fetched separately and in the same way;  *)
(* a behaviour watches one of them.                                        *)
(***************************************************************************)
EXTENDS Naturals, Sequences, SequencesExt

CONSTANTS
    MaxMsgs, \* bound: messages sent
    MaxAsks  \* bound: requests for the count, and answers, under way

ASSUME BadgeAssumption == {MaxMsgs, MaxAsks} \subseteq Nat

VARIABLES
    \* the server
    sent,    \* messages stored, in the order of their createdAt
    seen,    \* ... of which the first ones are read
    count,   \* unreadCount
    sending, \* the send_message handler
    marking, \* the mark_read handler
    \* the phone
    view,    \* what is watched: "badge" or "row"
    known,   \* messages the phone has decrypted
    registered, \* the socket is registered
    room,    \* the chat is open: 0 no, 1 not yet marked read, else 1 + the newest message marked
    timer,   \* the open chat's refresh of the badge, after 800 ms, is due
    asking,  \* requests for the count on their way
    replies, \* answers on their way, in the order the server made them
    preview, \* a row taken from the list, on its way back with a new preview
    shown,   \* the count shown
    \* history
    met,     \* a mark_read and a message met: the counter missed one of them
    wrong    \* what is shown came out of order, was cleared by a tap, or a request failed

badgeServer == <<sent, seen, count, sending, marking, met>>
badgePhone == <<known, registered, room, timer, asking, replies, preview, shown, wrong>>
badgeVars == <<badgeServer, view, badgePhone>>

NoPreview == [on |-> FALSE, val |-> 0]
NotMarking == [stage |-> "none", upTo |-> 0]

BadgeTypeOK ==
    /\ sent \in 0..MaxMsgs /\ seen \in 0..sent /\ count \in 0..MaxMsgs /\ known \in 0..sent
    /\ sending \in {"none", "stored", "counted"}
    /\ marking \in [stage : {"none", "asked", "found", "read"}, upTo : 0..MaxMsgs]
    /\ view \in {"badge", "row"}
    /\ {registered, timer, met, wrong} \subseteq BOOLEAN
    /\ room \in 0..(MaxMsgs + 1)
    /\ asking \in 0..MaxAsks
    /\ replies \in Seq([val : 0..MaxMsgs, late : BOOLEAN]) /\ Len(replies) <= MaxAsks
    /\ preview \in [on : BOOLEAN, val : 0..MaxMsgs]
    /\ shown \in 0..MaxMsgs

BadgeInit ==
    /\ sent = 0 /\ seen = 0 /\ count = 0 /\ sending = "none" /\ marking = NotMarking
    /\ view \in {"badge", "row"}
    /\ known = 0 /\ registered = FALSE /\ room = 0 /\ timer = FALSE
    /\ asking = 0 /\ replies = << >> /\ preview = NoPreview /\ shown = 0
    /\ met = FALSE /\ wrong = FALSE

-----------------------------------------------------------------------------
(* The phone *)

MayAsk == asking + Len(replies) < MaxAsks

\* refreshUnreadCount, loadChatsFromInbox
Asks == MayAsk /\ asking' = asking + 1

\* The server tells the phone to look again (badge_update), if it is there.
Tells == IF registered THEN Asks ELSE UNCHANGED asking

\* Every 20 seconds while the list is open.
Polls ==
    /\ Asks
    /\ UNCHANGED <<badgeServer, view, known, registered, room, timer, replies, preview, shown,
                   wrong>>

\* The server reads the counter for an answer.
Answers ==
    /\ asking > 0
    /\ asking' = asking - 1
    /\ replies' = Append(replies, [val |-> count, late |-> FALSE])
    /\ UNCHANGED <<badgeServer, view, known, registered, room, timer, preview, shown, wrong>>

\* A request fails: what is shown stays.
AskFails ==
    /\ asking > 0
    /\ asking' = asking - 1
    /\ wrong' = TRUE
    /\ replies' = [j \in DOMAIN replies |-> [replies[j] EXCEPT !.late = TRUE]]
    /\ UNCHANGED <<badgeServer, view, known, registered, room, timer, preview, shown>>

\* Answers arrive in any order, and each is shown.
Arrives(i) ==
    /\ shown' = replies[i].val
    /\ wrong' = replies[i].late
    /\ replies' = RemoveAt([j \in DOMAIN replies |->
                       [replies[j] EXCEPT !.late = @ \/ j < i]], i)
    /\ UNCHANGED <<badgeServer, view, known, registered, room, timer, asking, preview>>

\* A new message is decrypted: the row is taken from the list for its preview ...
Decrypts ==
    /\ registered /\ known < sent
    /\ known' = known + 1
    /\ preview' = IF view = "row" /\ ~preview.on THEN [on |-> TRUE, val |-> shown] ELSE preview
    /\ UNCHANGED <<badgeServer, view, registered, room, timer, asking, replies, shown, wrong>>

\* ... and put back with the count it had.
PreviewLands ==
    /\ preview.on
    /\ shown' = preview.val
    /\ wrong' = (wrong \/ preview.val # shown)
    /\ preview' = NoPreview
    /\ UNCHANGED <<badgeServer, view, known, registered, room, timer, asking, replies>>

\* A tap on the row clears it and opens the chat.
Opens ==
    /\ room = 0
    /\ room' = 1
    /\ IF view = "row" THEN shown' = 0 /\ wrong' = (wrong \/ shown # 0)
                       ELSE UNCHANGED <<shown, wrong>>
    /\ UNCHANGED <<badgeServer, view, known, registered, timer, asking, replies, preview>>

Leaves ==
    /\ room # 0
    /\ room' = 0 /\ timer' = FALSE
    /\ UNCHANGED <<badgeServer, view, known, registered, asking, replies, preview, shown, wrong>>

\* The open chat marks its newest incoming message read, once for each.
Marks ==
    /\ room # 0 /\ registered /\ known > room - 1 /\ marking = NotMarking
    /\ marking' = [stage |-> "asked", upTo |-> known]
    /\ room' = known + 1
    /\ timer' = (view = "badge")
    /\ UNCHANGED <<sent, seen, count, sending, met, view, known, registered, asking, replies,
                   preview, shown, wrong>>

TimerFires ==
    /\ timer
    /\ timer' = FALSE
    /\ Asks
    /\ UNCHANGED <<badgeServer, view, known, registered, room, replies, preview, shown, wrong>>

Disconnects ==
    /\ registered
    /\ registered' = FALSE
    /\ UNCHANGED <<badgeServer, view, known, room, timer, asking, replies, preview, shown, wrong>>

\* "registered": the badge and the list are fetched.
Registers ==
    /\ ~registered
    /\ registered' = TRUE
    /\ Asks
    /\ UNCHANGED <<badgeServer, view, known, room, timer, replies, preview, shown, wrong>>

-----------------------------------------------------------------------------
(* send_message *)

SendCreates ==
    /\ sending = "none" /\ sent < MaxMsgs
    /\ sent' = sent + 1
    /\ sending' = "stored"
    /\ UNCHANGED <<seen, count, marking, met, view, badgePhone>>

\* Mutant: only the first unread message is counted.
SendCountsOnce ==
    /\ sending = "stored"
    /\ count' = IF count = 0 THEN 1 ELSE count
    /\ sending' = "counted"
    /\ Tells
    /\ UNCHANGED <<sent, seen, marking, met, view, known, registered, room, timer, replies, preview,
                   shown, wrong>>

\* $inc, then badge_update. (If the message has been marked read since, it is
\* counted all the same.)
SendCounts ==
    /\ sending = "stored"
    /\ count' = count + 1
    /\ sending' = "counted"
    /\ Tells
    /\ UNCHANGED <<sent, seen, marking, met, view, known, registered, room, timer, replies, preview,
                   shown, wrong>>

\* new_message: the badge is fetched once more.
SendPushes ==
    /\ sending = "counted"
    /\ sending' = "none"
    /\ IF view = "badge" THEN Tells ELSE UNCHANGED asking
    /\ UNCHANGED <<sent, seen, count, marking, met, view, known, registered, room, timer, replies,
                   preview, shown, wrong>>

\* The counter's update fails: the message is stored and not counted.
SendFails ==
    /\ sending = "stored"
    /\ sending' = "none"
    /\ met' = TRUE
    /\ UNCHANGED <<sent, seen, count, marking, view, badgePhone>>

-----------------------------------------------------------------------------
(* mark_read *)

\* The unread messages up to the time named are found ...
MarkFinds ==
    /\ marking.stage = "asked"
    /\ marking' = [marking EXCEPT !.stage = "found"]
    /\ UNCHANGED <<sent, seen, count, sending, met, view, badgePhone>>

\* ... and set read ...
MarkReads ==
    /\ marking.stage = "found"
    /\ seen' = IF marking.upTo > seen THEN marking.upTo ELSE seen
    /\ marking' = [marking EXCEPT !.stage = "read"]
    /\ UNCHANGED <<sent, count, sending, met, view, badgePhone>>

\* ... and the counter reset, whatever came since; then badge_update to the reader.
MarkResets ==
    /\ marking.stage = "read"
    /\ count' = 0
    /\ met' = (sending = "stored" \/ marking.upTo < sent)
    /\ marking' = NotMarking
    /\ Tells
    /\ UNCHANGED <<sent, seen, sending, view, known, registered, room, timer, replies, preview,
                   shown, wrong>>

MarkFails ==
    /\ marking.stage \in {"asked", "found", "read"}
    /\ marking' = NotMarking
    /\ met' = (met \/ marking.stage = "read")
    /\ UNCHANGED <<sent, seen, count, sending, view, badgePhone>>

-----------------------------------------------------------------------------
BadgeNext ==
    \/ Polls \/ Answers \/ AskFails \/ \E i \in DOMAIN replies : Arrives(i)
    \/ Decrypts \/ PreviewLands \/ Opens \/ Leaves \/ Marks \/ TimerFires
    \/ Disconnects \/ Registers
    \/ SendCreates \/ SendCounts \/ SendPushes \/ SendFails
    \/ MarkFinds \/ MarkReads \/ MarkResets \/ MarkFails

BadgeSpec == BadgeInit /\ [][BadgeNext]_badgeVars

-----------------------------------------------------------------------------
(* Properties *)

(***************************************************************************)
(* The counter counts the unread messages: however sends and mark_reads    *)
(* follow each other; except after a mark_read that met a newer message,   *)
(* stored before or during it, or one of the updates failed. Then it stays *)
(* wrong until a mark_read meets none.                                     *)
(***************************************************************************)
CountIsUnread ==
    sending # "stored" /\ marking.stage # "read" /\ ~met => count = sent - seen

(***************************************************************************)
(* A registered phone with nothing under way shows the server's count,     *)
(* badge and row alike, whatever it missed while away; except when an      *)
(* older answer or an older row came last, the row was cleared by a tap,   *)
(* or the request failed, until the next answer (at the latest 20 seconds  *)
(* later on the open list).                                                *)
(***************************************************************************)
ShownIsCount ==
    registered /\ asking = 0 /\ replies = << >> /\ ~preview.on /\ ~wrong => shown = count

(***************************************************************************)
(* Both together: what a phone at rest shows is the number of unread       *)
(* messages, with those exceptions.                                        *)
(***************************************************************************)
BadgesAreTrue == CountIsUnread /\ ShownIsCount
=============================================================================
