------------------------------- MODULE Custody -------------------------------
(***************************************************************************)
(* What the message store and the recipient's phone promise together: from *)
(* the moment the server accepted a message, somebody holds it.  The       *)
(* server gives its copy up only once the phone has durably recorded it.   *)
(***************************************************************************)
CONSTANT Ids

VARIABLES
    accepted,  \* messages the server ever accepted
    onServer,  \* messages whose ciphertext the server still keeps
    onPhone    \* messages some install of the recipient's phone has recorded

vars == <<accepted, onServer, onPhone>>

Init == accepted = {} /\ onServer = {} /\ onPhone = {}

Accept(i) ==
    /\ i \notin accepted
    /\ accepted' = accepted \cup {i}
    /\ onServer' = onServer \cup {i}
    /\ UNCHANGED onPhone

Record(i) ==
    /\ i \in onServer
    /\ onPhone' = onPhone \cup {i}
    /\ UNCHANGED <<accepted, onServer>>

GiveUp(gone) ==
    /\ gone \subseteq onPhone
    /\ onServer' = onServer \ gone
    /\ UNCHANGED <<accepted, onPhone>>

Next ==
    \/ \E i \in Ids : Accept(i) \/ Record(i)
    \/ \E gone \in SUBSET Ids : GiveUp(gone)

Spec == Init /\ [][Next]_vars

\* No accepted message is ever with nobody.
SomebodyHolds == accepted \subseteq onServer \cup onPhone
=============================================================================
