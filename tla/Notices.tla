------------------------------ MODULE Notices -------------------------------
(***************************************************************************)
(* The notification screen (notifications.tsx) beside one user's           *)
(* Notification documents (notificationFunctions.js). The list is loaded   *)
(* and merged, pushed to, and shortened before the server has confirmed    *)
(* that a notification was dismissed, accepted or rejected.                *)
(***************************************************************************)
EXTENDS Naturals

CONSTANTS
    Noticed, \* the notifications, in any order
    Loads    \* the loads that can be under way at once

VARIABLES
    there,   \* the user's notifications on the server
    past,    \* ... and those that were there
    here,    \* the socket is registered
    items,   \* the list shown
    loads,   \* loads under way
    acts,    \* taps under way, each with the list as it was before
    \* history
    missing  \* what a list put back, or a failed load, left out

noticeVars == <<there, past, here, items, loads, acts, missing>>

NoLoad == [stage |-> "none", list |-> {}]

NoticeTypeOK ==
    /\ {there, past, items, missing} \subseteq SUBSET Noticed /\ there \cap past = {}
    /\ here \in BOOLEAN
    /\ loads \in [Loads -> [stage : {"none", "sent", "read"}, list : SUBSET Noticed]]
    /\ acts \subseteq [id : Noticed, tap : {"dismiss", "answer"}, before : SUBSET Noticed,
                       result : {"sent", "ok", "unknown", "failed"}]

NoticeInit ==
    /\ there = {} /\ past = {} /\ here = FALSE /\ items = {}
    /\ loads = [l \in Loads |-> NoLoad] /\ acts = {} /\ missing = {}

-----------------------------------------------------------------------------
(* Loading *)

\* Mutant: what was loaded replaces the list.
MergeReplaces(list) == items' = list /\ missing' = missing \ list

\* mergeByIdNewestFirst: nothing is taken out by it.
Merge(list) == items' = items \cup list /\ missing' = missing \ list

\* The screen is pulled down.
LoadStarts(l) ==
    /\ loads[l] = NoLoad
    /\ loads' = [loads EXCEPT ![l].stage = "sent"]
    /\ UNCHANGED <<there, past, here, items, acts, missing>>

\* "registered"
NoticesRegister(l) ==
    /\ ~here /\ loads[l] = NoLoad
    /\ here' = TRUE
    /\ loads' = [loads EXCEPT ![l].stage = "sent"]
    /\ UNCHANGED <<there, past, items, acts, missing>>

NoticesDisconnect ==
    /\ here
    /\ here' = FALSE
    /\ UNCHANGED <<there, past, items, loads, acts, missing>>

\* getNotifications
LoadReads(l) ==
    /\ loads[l].stage = "sent"
    /\ loads' = [loads EXCEPT ![l] = [stage |-> "read", list |-> there]]
    /\ UNCHANGED <<there, past, here, items, acts, missing>>

LoadArrives(l) ==
    /\ loads[l].stage = "read"
    /\ Merge(loads[l].list)
    /\ loads' = [loads EXCEPT ![l] = NoLoad]
    /\ UNCHANGED <<there, past, here, acts>>

LoadFails(l) ==
    /\ loads[l].stage # "none"
    /\ missing' = missing \cup (there \ items)
    /\ loads' = [loads EXCEPT ![l] = NoLoad]
    /\ UNCHANGED <<there, past, here, items, acts>>

\* A notification is made, and pushed to a registered phone.
Notified(n) ==
    /\ n \notin there \cup past
    /\ there' = there \cup {n}
    /\ IF here THEN Merge({n}) ELSE UNCHANGED <<items, missing>>
    /\ UNCHANGED <<past, here, loads, acts>>

\* It goes otherwise (a cancelled request, a block): the phone is not told.
Withdrawn(n) ==
    /\ n \in there
    /\ there' = there \ {n} /\ past' = past \cup {n}
    /\ UNCHANGED <<here, items, loads, acts, missing>>

-----------------------------------------------------------------------------
(* dismissNotification, handleAcceptFollowRequest, handleRejectFollowRequest *)

Taps(n, tap) ==
    /\ n \in items /\ \A a \in acts : a.id # n
    /\ acts' = acts \cup {[id |-> n, tap |-> tap, before |-> items, result |-> "sent"]}
    /\ items' = items \ {n}
    /\ UNCHANGED <<there, past, here, loads, missing>>

Becomes(a, result) == acts' = (acts \ {a}) \cup {[a EXCEPT !.result = result]}

\* The server deletes it, or answers 404.
TapServed(a) ==
    /\ a.result = "sent"
    /\ there' = there \ {a.id}
    /\ past' = past \cup {a.id}
    /\ Becomes(a, IF a.id \in there THEN "ok" ELSE "unknown")
    /\ UNCHANGED <<here, items, loads, missing>>

\* The request, or its answer, is lost.
TapFails(a) ==
    /\ a.result # "failed"
    /\ Becomes(a, "failed")
    /\ UNCHANGED <<there, past, here, items, loads, missing>>

\* The list stays as it is; an answer to a request that is gone counts as done.
TapSucceeds(a) ==
    /\ a.result = "ok" \/ (a.result = "unknown" /\ a.tap = "answer")
    /\ acts' = acts \ {a}
    /\ UNCHANGED <<there, past, here, items, loads, missing>>

\* The list as it was is put back, over what has come and gone since. A
\* notification that is gone cannot be dismissed: it comes back.
TapUndone(a) ==
    /\ a.result = "failed" \/ (a.result = "unknown" /\ a.tap = "dismiss")
    /\ items' = a.before
    /\ missing' = (missing \cup items) \ a.before
    /\ acts' = acts \ {a}
    /\ UNCHANGED <<there, past, here, loads>>

-----------------------------------------------------------------------------
NoticeNext ==
    \/ \E l \in Loads : LoadStarts(l) \/ NoticesRegister(l) \/ LoadReads(l) \/ LoadArrives(l)
                        \/ LoadFails(l)
    \/ NoticesDisconnect
    \/ \E n \in Noticed : Notified(n) \/ Withdrawn(n) \/ Taps(n, "dismiss") \/ Taps(n, "answer")
    \/ \E a \in acts : TapServed(a) \/ TapFails(a) \/ TapSucceeds(a) \/ TapUndone(a)

NoticeSpec == NoticeInit /\ [][NoticeNext]_noticeVars

-----------------------------------------------------------------------------
(***************************************************************************)
(* A registered phone with nothing under way lists every notification the  *)
(* user has, whatever was pushed while a list was being loaded or a tap    *)
(* confirmed, and whatever came while it was away; except what a failed    *)
(* tap's older list has overwritten, or a failed load left out.            *)
(***************************************************************************)
NoticesShown ==
    here /\ (\A l \in Loads : loads[l] = NoLoad) /\ acts = {} => there \subseteq items \cup missing
=============================================================================
