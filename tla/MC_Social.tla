---------------------------- MODULE MC_Social -------------------------------
(***************************************************************************)
(* What users are and show to each other, for TLC; the constants are given *)
(* in Social_safety.cfg. The parts share no state, so a behaviour runs one *)
(* of them (see MC_Accounts).                                              *)
(***************************************************************************)
EXTENDS SocialGraph, FollowButton, Badges, Notices, ProfilePage, TLC

VARIABLE part \* the part a behaviour runs

vars == <<graphVars, buttonVars, badgeVars, noticeVars, pageVars, part>>

Init ==
    /\ GraphInit /\ ButtonInit /\ BadgeInit /\ NoticeInit /\ PageInit
    /\ part \in {"graph", "button", "badges", "notices", "page"}
    /\ place = "search" \/ rel # "none" => part = "button"
    /\ view = "row" => part = "badges"
    /\ me = NoHero => part = "page"

Next ==
    \/ /\ part = "graph"
       /\ UNCHANGED <<buttonVars, badgeVars, noticeVars, pageVars, part>>
       /\ GraphNext
    \/ /\ part = "button"
       /\ UNCHANGED <<graphVars, badgeVars, noticeVars, pageVars, part>>
       /\ ButtonNext
    \/ /\ part = "badges"
       /\ UNCHANGED <<graphVars, buttonVars, noticeVars, pageVars, part>>
       /\ BadgeNext
    \/ /\ part = "notices"
       /\ UNCHANGED <<graphVars, buttonVars, badgeVars, pageVars, part>>
       /\ NoticeNext
    \/ /\ part = "page"
       /\ UNCHANGED <<graphVars, buttonVars, badgeVars, noticeVars, part>>
       /\ PageNext

Spec == Init /\ [][Next]_vars

\* The state of the part that runs has its types and bounds.
Types ==
    /\ part = "graph" => GraphTypeOK
    /\ part = "button" => ButtonTypeOK
    /\ part = "badges" => BadgeTypeOK
    /\ part = "notices" => NoticeTypeOK
    /\ part = "page" => PageTypeOK

SocialSymmetry == Permutations(Pair)
=============================================================================
