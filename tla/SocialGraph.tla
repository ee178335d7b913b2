---------------------------- MODULE SocialGraph -----------------------------
(***************************************************************************)
(* Two users: the connection between them, their follow lists and          *)
(* follow-request notifications, blocks, the messages that a connection    *)
(* allows, and what each phone shows of it. The handlers of                *)
(* followfunctions.js, safetyFunctions.js, notificationFunctions.js and    *)
(* deleteAccount; those without a transaction interleave between their     *)
(* steps.                                                                  *)
(***************************************************************************)
EXTENDS Naturals, Bags

CONSTANTS
    Pair,    \* the two users
    MaxDoing \* bound: requests under way at once

ASSUME GraphAssumption == (\E u, v \in Pair : u # v /\ Pair = {u, v}) /\ MaxDoing \in Nat

VARIABLES
    conn,    \* the Connection document of the pair
    lists,   \* users whose followers and following lists name the other
    note,    \* users with a follow_request notification from the other
    blocks,  \* users who block the other
    msgs,    \* a message of the conversation is stored
    gone,    \* users whose account is being, or has been, deleted
    doing,   \* the bag of the requests under way
    asked,   \* users whose screen, maybe of some time ago, offers to accept
    \* history
    taint    \* the worst since the last unfollow: 1 a follow wrote over what had come since it
             \* looked; 2 an accept found no pending request, or a block failed half-way; 3 a
             \* follow or a message was written after a block or a deletion had begun

graphVars == <<conn, lists, note, blocks, msgs, gone, doing, asked, taint>>

Other(u) == CHOOSE v \in Pair : v # u
NoConn == [status |-> "none"]
Conn(st, by) == [status |-> st, requestedBy |-> by]
Connected == conn.status = "accepted"
PendingBy(u) == conn = Conn("pending", u)
Quiet == doing = EmptyBag

GraphTypeOK ==
    /\ conn \in {NoConn} \cup {Conn(st, u) : st \in {"pending", "accepted", "rejected"}, u \in Pair}
    /\ {lists, note, blocks, gone, asked} \subseteq SUBSET Pair
    /\ IsABag(doing)
    /\ \A h \in BagToSet(doing) :
         h.op \in {"follow", "write", "notify", "block", "send", "remove"} /\ h.by \in Pair
    /\ msgs \in BOOLEAN /\ taint \in 0..3

GraphInit ==
    /\ conn = NoConn /\ lists = {} /\ note = {} /\ blocks = {} /\ msgs = FALSE /\ gone = {}
    /\ doing = EmptyBag /\ asked = {}
    /\ taint = 0

-----------------------------------------------------------------------------
Begin(h) == BagCardinality(doing) < MaxDoing /\ doing' = doing (+) SetToBag({h})
Done(h) == doing' = doing (-) SetToBag({h})
Then(h, next) == doing' = (doing (-) SetToBag({h})) (+) SetToBag({next})

Worsens(n) == taint' = IF n > taint THEN n ELSE taint

\* A block or a deletion has begun.
Ending == blocks # {} \/ gone # {} \/ \E h \in BagToSet(doing) : h.op = "block"

-----------------------------------------------------------------------------
(* followUser *)

\* The target must exist, and neither block the other.
FollowChecks(u) ==
    /\ gone = {} /\ blocks = {}
    /\ Begin([op |-> "follow", by |-> u])
    /\ UNCHANGED <<conn, lists, note, blocks, msgs, gone, asked, taint>>

\* A connection, a pending request of either, or a request's notification is kept.
FollowLooks(h) ==
    /\ h.op = "follow"
    /\ IF conn.status \in {"pending", "accepted"} \/ Other(h.by) \in note
       THEN Done(h)
       ELSE Then(h, [op |-> "write", by |-> h.by, read |-> conn])
    /\ UNCHANGED <<conn, lists, note, blocks, msgs, gone, asked, taint>>

\* The connection is set pending, or made, whatever it is by now.
FollowWrites(h) ==
    /\ h.op = "write"
    /\ conn' = Conn("pending", h.by)
    /\ Worsens(IF Ending THEN 3 ELSE IF conn # h.read THEN 1 ELSE 0)
    /\ Then(h, [op |-> "notify", by |-> h.by])
    /\ UNCHANGED <<lists, note, blocks, msgs, gone, asked>>

\* The notification is made, if there is none (unique index), and pushed.
FollowNotifies(h) ==
    /\ h.op = "notify"
    /\ note' = note \cup {Other(h.by)}
    /\ Worsens(IF Ending THEN 3 ELSE IF PendingBy(h.by) THEN 0 ELSE 1)
    /\ Done(h)
    /\ UNCHANGED <<conn, lists, blocks, msgs, gone, asked>>

\* The database fails in between: a request without a notification.
FollowFails(h) ==
    /\ h.op \in {"follow", "write", "notify"}
    /\ Done(h)
    /\ UNCHANGED <<conn, lists, note, blocks, msgs, gone, asked, taint>>

-----------------------------------------------------------------------------
(* unfollowUser, acceptFollowRequest, rejectFollowRequest: transactions *)

\* What went wrong between the two users is over.
Cleared == taint' = IF taint = 3 /\ gone # {} THEN 3 ELSE 0

\* Mutant: the notifications of a cancelled request are left.
UnfollowLeavesNotes(u) ==
    /\ u \notin gone
    /\ conn' = NoConn /\ lists' = {}
    /\ Cleared
    /\ UNCHANGED <<note, blocks, msgs, gone, doing, asked>>

\* Cancels a request or removes a connection (or does nothing: it is not asked
\* which is there).
Unfollow(u) ==
    /\ u \notin gone
    /\ conn' = NoConn /\ lists' = {} /\ note' = {}
    /\ Cleared
    /\ UNCHANGED <<blocks, msgs, gone, doing, asked>>

\* A profile or a search shows the user that the other asks, and how long ago
\* that was is not known.
SeesRequest(u) ==
    /\ PendingBy(Other(u)) /\ blocks = {} /\ u \notin gone
    /\ asked' = asked \cup {u}
    /\ UNCHANGED <<conn, lists, note, blocks, msgs, gone, doing, taint>>

\* u accepts: both users' lists, the notification, the connection (made if need be).
BecomeConnected(u) ==
    /\ conn' = Conn("accepted", Other(u))
    /\ lists' = Pair
    /\ note' = note \ {u}
    /\ Worsens(IF PendingBy(Other(u)) THEN 0 ELSE 2)

\* The Accept button of a profile names the requester: neither the request nor a
\* block is looked for.
AcceptRequester(u) ==
    /\ u \in asked /\ gone = {}
    /\ BecomeConnected(u)
    /\ asked' = asked \ {u}
    /\ UNCHANGED <<blocks, msgs, gone, doing>>

\* That of the notification list names the notification (and fails without it).
AcceptNote(u) ==
    /\ u \in note /\ gone = {}
    /\ BecomeConnected(u)
    /\ UNCHANGED <<blocks, msgs, gone, doing, asked>>

\* Mutant: a connection that is gone is made anew, rejected.
RejectNoteUpserts(u) ==
    /\ u \in note /\ gone = {}
    /\ note' = note \ {u}
    /\ conn' = [status |-> "rejected"]
    /\ UNCHANGED <<lists, blocks, msgs, gone, doing, asked, taint>>

RejectNote(u) ==
    /\ u \in note /\ gone = {}
    /\ note' = note \ {u}
    /\ conn' = IF conn = NoConn THEN conn ELSE [conn EXCEPT !.status = "rejected"]
    /\ UNCHANGED <<lists, blocks, msgs, gone, doing, asked, taint>>

\* deleteNotification: the request itself stays pending.
DismissNote(u) ==
    /\ u \in note /\ u \notin gone
    /\ note' = note \ {u}
    /\ UNCHANGED <<conn, lists, blocks, msgs, gone, doing, asked, taint>>

-----------------------------------------------------------------------------
(* blockUser and unblockUser *)

Block(u) ==
    /\ gone = {}
    /\ Begin([op |-> "block", by |-> u, step |-> 1])
    /\ blocks' = blocks \cup {u}
    /\ UNCHANGED <<conn, lists, note, msgs, gone, asked, taint>>

\* Mutant: the connection is left.
BlockConnectionKept(h) ==
    /\ h.op = "block" /\ h.step = 1
    /\ Then(h, [h EXCEPT !.step = 2])
    /\ UNCHANGED <<conn, lists, note, blocks, msgs, gone, asked, taint>>

BlockConnection(h) ==
    /\ h.op = "block" /\ h.step = 1
    /\ conn' = NoConn
    /\ Then(h, [h EXCEPT !.step = 2])
    /\ UNCHANGED <<lists, note, blocks, msgs, gone, asked, taint>>

BlockNotes(h) ==
    /\ h.op = "block" /\ h.step = 2
    /\ note' = {}
    /\ Then(h, [h EXCEPT !.step = 3])
    /\ UNCHANGED <<conn, lists, blocks, msgs, gone, asked, taint>>

BlockOwnLists(h) ==
    /\ h.op = "block" /\ h.step = 3
    /\ lists' = lists \ {h.by}
    /\ Then(h, [h EXCEPT !.step = 4])
    /\ UNCHANGED <<conn, note, blocks, msgs, gone, asked, taint>>

\* The last step; the blocker's own screens now offer to unblock.
BlockOtherLists(h) ==
    /\ h.op = "block" /\ h.step = 4
    /\ lists' = lists \ {Other(h.by)}
    /\ asked' = asked \ {h.by}
    /\ Done(h)
    /\ UNCHANGED <<conn, note, blocks, msgs, gone, taint>>

BlockFails(h) ==
    /\ h.op = "block"
    /\ Worsens(2)
    /\ Done(h)
    /\ UNCHANGED <<conn, lists, note, blocks, msgs, gone, asked>>

Unblock(u) ==
    /\ u \in blocks /\ gone = {}
    /\ blocks' = blocks \ {u}
    /\ UNCHANGED <<conn, lists, note, msgs, gone, doing, asked, taint>>

-----------------------------------------------------------------------------
(* A message is sent; an account is deleted *)

\* send_message: an accepted connection, then Message.create.
SendChecks(u) ==
    /\ Connected /\ u \notin gone
    /\ Begin([op |-> "send", by |-> u])
    /\ UNCHANGED <<conn, lists, note, blocks, msgs, gone, asked, taint>>

SendStores(h) ==
    /\ h.op = "send"
    /\ msgs' = TRUE
    /\ Worsens(IF Ending THEN 3 ELSE 0)
    /\ Done(h)
    /\ UNCHANGED <<conn, lists, note, blocks, gone, asked>>

\* Mutant: the messages are forgotten.
DeleteWipesLess(u) ==
    /\ gone = {}
    /\ Begin([op |-> "remove", by |-> u])
    /\ gone' = {u}
    /\ conn' = NoConn /\ blocks' = {} /\ note' = {}
    /\ lists' = lists \ {Other(u)}
    /\ UNCHANGED <<msgs, asked, taint>>

\* deleteAccount: all that names the user goes ...
DeleteWipes(u) ==
    /\ gone = {}
    /\ Begin([op |-> "remove", by |-> u])
    /\ gone' = {u}
    /\ conn' = NoConn /\ msgs' = FALSE /\ blocks' = {} /\ note' = {}
    /\ lists' = lists \ {Other(u)}
    /\ UNCHANGED <<asked, taint>>

\* ... and last the user's document with its lists.
DeleteUser(h) ==
    /\ h.op = "remove"
    /\ lists' = lists \ {h.by}
    /\ Done(h)
    /\ UNCHANGED <<conn, note, blocks, msgs, gone, asked, taint>>

-----------------------------------------------------------------------------
GraphNext ==
    \/ \E h \in BagToSet(doing) :
        \/ FollowLooks(h) \/ FollowWrites(h) \/ FollowNotifies(h) \/ FollowFails(h)
        \/ BlockConnection(h) \/ BlockNotes(h) \/ BlockOwnLists(h) \/ BlockOtherLists(h)
        \/ BlockFails(h) \/ SendStores(h) \/ DeleteUser(h)
    \/ \E u \in Pair :
        \/ FollowChecks(u) \/ Unfollow(u) \/ SeesRequest(u) \/ AcceptRequester(u)
        \/ AcceptNote(u) \/ RejectNote(u) \/ DismissNote(u) \/ Block(u) \/ Unblock(u)
        \/ SendChecks(u) \/ DeleteWipes(u)

GraphSpec == GraphInit /\ [][GraphNext]_graphVars

-----------------------------------------------------------------------------
(* Properties *)

(***************************************************************************)
(* Who follows whom and who is connected agree, for both users alike, and  *)
(* a follow request in someone's notifications is one that is pending,     *)
(* when no request is under way: after any order of follows, accepts,      *)
(* rejects, removals, blocks and repeated taps; unless, since the last     *)
(* unfollow, a follow wrote over what came since it looked or after a      *)
(* block had begun, an accept found nothing to accept, or a block failed   *)
(* half-way.                                                               *)
(***************************************************************************)
FollowStateAgrees ==
    Quiet /\ taint = 0 =>
        /\ gone = {} => lists = IF Connected THEN Pair ELSE {}
        /\ \A u \in note : PendingBy(Other(u))

(***************************************************************************)
(* Between users of whom one blocks the other there is neither a           *)
(* connection nor a request, unless a follow had passed its check when the *)
(* block came, an accept found nothing to accept, or the block failed      *)
(* half-way.                                                               *)
(***************************************************************************)
BlockedHaveNothing ==
    Quiet /\ blocks # {} /\ taint < 2 =>
        ~Connected /\ conn.status # "pending" /\ note = {}

(***************************************************************************)
(* Nothing is left of a deleted account, except what a request wrote that  *)
(* had passed its check before.                                            *)
(***************************************************************************)
NothingLeftOfDeleted ==
    Quiet /\ gone # {} /\ taint < 3 =>
        conn = NoConn /\ ~msgs /\ lists = {} /\ blocks = {} /\ note = {}
=============================================================================
