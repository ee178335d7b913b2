---------------------------- MODULE FollowButton ----------------------------
(***************************************************************************)
(* What a screen says of the relationship to another user: the button in   *)
(* the row that the global search finds (ChatsScreen.tsx), or the button   *)
(* and the menu of the profile page (fullProfile.tsx, SafetyActions.tsx).  *)
(* A behaviour watches one of the two. A tap does what the button says     *)
(* (performRelationshipAction of relationships.ts), and no screen hears of *)
(* what the other user does, or this user on another screen, as the list   *)
(* of blocked accounts (BlockedUsers.tsx).                                 *)
(*                                                                         *)
(* A handler of the server is one step here; SocialGraph takes them apart. *)
(***************************************************************************)
EXTENDS Naturals, Sequences, SequencesExt

CONSTANTS
    MaxCalls \* bound: calls under way

ASSUME ButtonAssumption == MaxCalls \in Nat

VARIABLES
    \* the server
    rel,      \* the connection of the two, as this user sees it
    mine,     \* this user blocks the other
    theirs,   \* the other blocks this user
    \* the screen
    place,    \* "search" or "profile"
    label,    \* what the button says
    visible,  \* the row is found, the page is open
    fits,     \* the results shown are of what is typed
    typed,    \* the search waits for the typing to end (320 ms)
    calls,    \* calls under way, in the order they were made
    \* history
    outdated, \* the relationship is not, or need not be, the one the label was made for
    overtaken,\* the results shown came later than those of a later search
    across    \* an accept went across a block, and its connection is there

serverRel == <<rel, mine, theirs>>
searchVars == <<fits, typed, overtaken>>
buttonVars == <<serverRel, place, label, visible, searchVars, calls, outdated, across>>

Relationships == {"none", "requested", "incoming", "connected"}

\* getRelationshipMap
Relationship ==
    IF mine THEN "blocked" ELSE IF theirs THEN "unavailable" ELSE rel

\* A call of the button that says `says`, of the menu, of the screen (a load, or a
\* search, which fits what is typed), or of another screen.
Call(op, from, says) ==
    [op |-> op, from |-> from, says |-> says, answer |-> "awaited", fresh |-> FALSE,
     fits |-> TRUE, late |-> FALSE]

ButtonTypeOK ==
    /\ rel \in Relationships /\ {mine, theirs} \subseteq BOOLEAN
    /\ place \in {"search", "profile"} /\ label \in Relationships \cup {"blocked"}
    /\ {visible, fits, typed, outdated, overtaken, across} \subseteq BOOLEAN
    /\ Len(calls) <= MaxCalls
    /\ \A i \in DOMAIN calls :
         /\ calls[i].op \in {"follow", "unfollow", "accept", "confirm", "block", "unblock", "look"}
         /\ calls[i].from \in {"button", "menu", "screen", "elsewhere"}
         /\ calls[i].answer \in Relationships \cup {"awaited", "blocked", "unavailable", "failed"}

ButtonInit ==
    /\ rel \in Relationships /\ mine = FALSE /\ theirs = FALSE
    /\ place \in {"search", "profile"} /\ label = "none" /\ visible = FALSE
    /\ fits = TRUE /\ typed = FALSE
    /\ calls = << >> /\ outdated = TRUE /\ overtaken = FALSE /\ across = FALSE

-----------------------------------------------------------------------------
(* The relationship changes *)

\* What was answered before is outdated (if the change is one this user can see).
OutdatedBy(cs) ==
    IF Relationship' = Relationship THEN cs
    ELSE [i \in DOMAIN cs |-> [cs[i] EXCEPT !.fresh = FALSE]]

\* The other user follows, cancels, accepts, rejects, removes, blocks or unblocks.
OtherActs ==
    /\ \/ ~mine /\ ~theirs /\ rel = "none" /\ rel' = "incoming" /\ UNCHANGED theirs
       \/ rel # "none" /\ rel' = "none" /\ UNCHANGED theirs
       \/ rel = "requested" /\ rel' = "connected" /\ UNCHANGED theirs
       \/ ~theirs /\ theirs' = TRUE /\ rel' = "none"
       \/ theirs /\ theirs' = FALSE /\ UNCHANGED rel
    /\ UNCHANGED <<mine, place, label, visible, searchVars>>
    /\ calls' = OutdatedBy(calls)
    /\ outdated' = (outdated \/ Relationship' # Relationship)
    /\ across' = (across /\ rel' = "connected")

-----------------------------------------------------------------------------
(* Taps *)

Makes(call) == Len(calls) < MaxCalls /\ calls' = Append(calls, call)

ActionOf == [none |-> "follow", requested |-> "unfollow", incoming |-> "accept",
             connected |-> "confirm", blocked |-> "unblock"]

\* handleToggleFollow, runRelationshipAction: one tap at a time. (Removing a
\* connection asks first.)
Tap ==
    /\ visible /\ \A i \in DOMAIN calls : calls[i].from # "button"
    /\ Makes([Call(ActionOf[label], "button", label) EXCEPT !.fresh = ~outdated])
    /\ UNCHANGED <<serverRel, place, label, visible, searchVars, outdated, across>>

Confirms(i) ==
    /\ calls[i].op = "confirm"
    /\ calls' = [calls EXCEPT ![i] = [@ EXCEPT !.op = "unfollow", !.fresh = FALSE]]
    /\ UNCHANGED <<serverRel, place, label, visible, searchVars, outdated, across>>

\* The button says again what it said when it was tapped.
Cancels(i) ==
    /\ calls[i].op = "confirm"
    /\ IF calls[i].from = "button" THEN label' = "connected" /\ outdated' = ~calls[i].fresh
                                   ELSE UNCHANGED <<label, outdated>>
    /\ calls' = RemoveAt(calls, i)
    /\ UNCHANGED <<serverRel, place, visible, searchVars, across>>

\* The menu of the page blocks, or unblocks, beside the button.
TapMenu ==
    /\ visible /\ place = "profile"
    /\ Makes(Call(IF label = "blocked" THEN "unblock" ELSE "block", "menu", label))
    /\ UNCHANGED <<serverRel, place, label, visible, searchVars, outdated, across>>

\* On another screen: a page, the list of notifications or of blocked accounts.
TapElsewhere ==
    /\ \E op \in {"follow", "unfollow", "accept", "block", "unblock"} :
         /\ \/ op = "block" \/ (op = "unblock" /\ mine)
            \/ \E says \in {"none", "requested", "incoming"} :
                  says = Relationship /\ op = ActionOf[says]
            \/ op = "unfollow" /\ Relationship = "connected"
         /\ Makes(Call(op, "elsewhere", "none"))
    /\ UNCHANGED <<serverRel, place, label, visible, searchVars, outdated, across>>

-----------------------------------------------------------------------------
(* The screen *)

OpenPage ==
    /\ place = "profile" /\ ~visible
    /\ visible' = TRUE
    /\ Makes(Call("look", "screen", "none"))
    /\ UNCHANGED <<serverRel, place, label, searchVars, outdated, across>>

\* Its calls go on, and say nothing.
ClosePage ==
    /\ place = "profile" /\ visible
    /\ visible' = FALSE /\ label' = "none" /\ outdated' = TRUE
    /\ calls' = [i \in DOMAIN calls |->
                   [calls[i] EXCEPT !.from = "elsewhere", !.says = "none", !.fresh = FALSE]]
    /\ UNCHANGED <<serverRel, place, searchVars, across>>

TypeQuery ==
    /\ place = "search"
    /\ typed' = TRUE /\ fits' = FALSE
    /\ calls' = [i \in DOMAIN calls |-> [calls[i] EXCEPT !.fits = (calls[i].from # "screen")]]
    /\ UNCHANGED <<serverRel, place, label, visible, overtaken, outdated, across>>

\* A later search has answered before these.
Overtaken(cs) ==
    [i \in DOMAIN cs |-> [cs[i] EXCEPT !.late = @ \/ cs[i].from = "screen"]]

\* runGlobalSearch: a search for nothing shows none at once.
Searches ==
    /\ typed
    /\ typed' = FALSE
    /\ \/ Makes(Call("look", "screen", "none")) /\ UNCHANGED <<fits, visible, overtaken>>
       \/ /\ fits' = TRUE /\ visible' = FALSE /\ overtaken' = FALSE
          /\ calls' = Overtaken(calls)
    /\ UNCHANGED <<serverRel, place, label, outdated, across>>

-----------------------------------------------------------------------------
(* The server *)

\* What a call does to the relationship. Accepting names the requester, and looks
\* neither for a request nor for a block.
Does(op) ==
    CASE op = "follow" ->
           /\ rel' = IF rel = "none" /\ ~mine /\ ~theirs THEN "requested" ELSE rel
           /\ UNCHANGED <<mine, theirs>>
      [] op = "unfollow" -> rel' = "none" /\ UNCHANGED <<mine, theirs>>
      [] op = "accept" -> rel' = "connected" /\ UNCHANGED <<mine, theirs>>
      [] op = "block" -> rel' = "none" /\ mine' = TRUE /\ UNCHANGED theirs
      [] op = "unblock" -> mine' = FALSE /\ UNCHANGED <<rel, theirs>>
      [] OTHER -> UNCHANGED serverRel

\* Mutant: a follow counts as a request, whatever the server answers.
AnswerToRequested(op) ==
    CASE op = "follow" -> IF mine \/ theirs THEN "failed" ELSE "requested"
      [] op \in {"unfollow", "unblock"} -> "none"
      [] op = "accept" -> "connected"
      [] op = "block" -> "blocked"
      [] OTHER -> Relationship

\* What the screen takes the relationship to be then. Only the answers to a follow and
\* to a look say it.
AnswerTo(op) ==
    CASE op = "follow" -> IF mine \/ theirs THEN "failed"
                          ELSE IF rel = "none" THEN "requested" ELSE rel
      [] op \in {"unfollow", "unblock"} -> "none"
      [] op = "accept" -> "connected"
      [] op = "block" -> "blocked"
      [] OTHER -> Relationship

\* An answer is fresh if the button said how things were when the call was handled, or
\* the answer does not depend on that.
Serve(i) ==
    LET c == calls[i] IN
    /\ c.answer = "awaited" /\ c.op # "confirm"
    /\ Does(c.op)
    /\ calls' = [OutdatedBy(calls) EXCEPT ![i] =
                   [c EXCEPT !.answer = AnswerTo(c.op), !.says = "none",
                             !.fresh = /\ c.from # "elsewhere"
                                       /\ \/ c.op \in {"follow", "block", "look"}
                                          \/ c.says = Relationship]]
    /\ outdated' = (outdated \/ Relationship' # Relationship)
    /\ across' = (rel' = "connected" /\ (across \/ (c.op = "accept" /\ (mine \/ theirs))))
    /\ UNCHANGED <<place, label, visible, searchVars>>

\* A call fails, done or not.
CallFails(i) ==
    /\ calls[i].op # "confirm" /\ calls[i].answer # "failed"
    /\ calls' = [calls EXCEPT ![i].answer = "failed", ![i].says = "none"]
    /\ UNCHANGED <<serverRel, place, label, visible, searchVars, outdated, across>>

\* Answers come in any order. A failed search shows no results, and a page that is not
\* available no button.
Lands(i) ==
    LET c == calls[i]
        says == c.from # "elsewhere" /\ c.answer \notin {"failed", "unavailable"} IN
    /\ c.answer # "awaited"
    /\ IF says THEN label' = c.answer /\ outdated' = ~c.fresh ELSE UNCHANGED <<label, outdated>>
    /\ IF c.from = "screen" /\ place = "search"
       THEN fits' = c.fits /\ overtaken' = c.late /\ visible' = says
       ELSE /\ visible' = (visible /\ ~(c.from = "screen" /\ c.answer = "unavailable"))
            /\ UNCHANGED <<fits, overtaken>>
    /\ calls' = IF c.from = "screen"
                THEN Overtaken(SubSeq(calls, 1, i - 1)) \o SubSeq(calls, i + 1, Len(calls))
                ELSE RemoveAt(calls, i)
    /\ UNCHANGED <<serverRel, place, typed, across>>

-----------------------------------------------------------------------------
ButtonNext ==
    \/ OtherActs
    \/ Tap \/ TapMenu \/ TapElsewhere \/ OpenPage \/ ClosePage
    \/ TypeQuery \/ Searches
    \/ \E i \in DOMAIN calls :
         Confirms(i) \/ Cancels(i) \/ Serve(i) \/ CallFails(i) \/ Lands(i)

ButtonSpec == ButtonInit /\ [][ButtonNext]_buttonVars

-----------------------------------------------------------------------------
(* Properties *)

(***************************************************************************)
(* A button says what the relationship is, whichever calls, loads and      *)
(* searches met and although most answers are assumed and not given by the *)
(* server; unless it has changed since the answer was made, the button     *)
(* tapped was outdated itself, or an accept has gone across a block. And   *)
(* once the typing has ended and every search has answered, the results    *)
(* are those of what was typed, unless a later search was overtaken.       *)
(***************************************************************************)
ButtonIsTrue ==
    /\ visible /\ ~outdated /\ ~across /\ Relationship # "unavailable" => label = Relationship
    /\ ~typed /\ ~overtaken /\ (\A i \in DOMAIN calls : calls[i].from # "screen") => fits
=============================================================================
