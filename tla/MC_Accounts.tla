---------------------------- MODULE MC_Accounts -----------------------------
(***************************************************************************)
(* The parts an account and its conversations consist of, for TLC; the     *)
(* constants are given in Accounts_safety.cfg. The parts share no state,   *)
(* so a behaviour runs one of them, and their state spaces add up instead  *)
(* of multiplying. Users, handlers, updates, keys of the lock and texts to *)
(* repair are the same two model values, which keeps the symmetry group    *)
(* small. (UNCHANGED comes first: TLC then evaluates it once per state.)   *)
(***************************************************************************)
EXTENDS AuthSessions, AccountCodes, Media, Ratchet, KeyedMutex, Repair, TLC

VARIABLE part \* the part a behaviour runs

accountVars == <<authVars, codesVars, mediaVars>>
talkVars == <<ratchetVars, mutexVars, repairVars>>
vars == <<accountVars, talkVars, part>>

Init ==
    /\ AuthInit /\ CodesInit /\ MediaInit /\ RatchetInit /\ MutexInit /\ RepairInit
    /\ part \in {"sessions", "codes", "media", "ratchet", "mutex", "repair"}
    /\ born # 0 => part = "codes"
    /\ (\E t \in Texts : own[t] = "sending") => part = "repair"

Next ==
    \/ /\ part = "sessions"
       /\ UNCHANGED <<codesVars, mediaVars, talkVars, part>>
       /\ AuthNext
    \/ /\ part = "codes"
       /\ UNCHANGED <<authVars, mediaVars, talkVars, part>>
       /\ CodesNext
    \/ /\ part = "media"
       /\ UNCHANGED <<authVars, codesVars, talkVars, part>>
       /\ MediaNext
    \/ /\ part = "ratchet"
       /\ UNCHANGED <<accountVars, mutexVars, repairVars, part>>
       /\ RatchetNext
    \/ /\ part = "mutex"
       /\ UNCHANGED <<accountVars, ratchetVars, repairVars, part>>
       /\ MutexNext
    \/ /\ part = "repair"
       /\ UNCHANGED <<accountVars, ratchetVars, mutexVars, part>>
       /\ RepairNext

Spec == Init /\ [][Next]_vars

\* The state of the part that runs has its types and bounds.
Types ==
    /\ part = "sessions" => AuthTypeOK
    /\ part = "codes" => CodesTypeOK
    /\ part = "media" => MediaTypeOK
    /\ part = "ratchet" => RatchetTypeOK
    /\ part = "mutex" => MutexTypeOK
    /\ part = "repair" => RepairTypeOK

AccountSymmetry == Permutations(Users)
=============================================================================
