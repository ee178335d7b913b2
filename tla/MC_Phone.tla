---------------------------- MODULE MC_Phone --------------------------------
(***************************************************************************)
(* What one phone believes, shows and runs, for TLC; the constants are     *)
(* given in Phone_safety.cfg. The parts share no state, so a behaviour     *)
(* runs one of them (see MC_Accounts).                                     *)
(***************************************************************************)
EXTENDS PeerTrust, Verification, PreKeys, PushTokens, EngineHost

VARIABLE part \* the part a behaviour runs

phoneVars == <<vars, verifyVars, keysVars, pushVars, hostVars, part>>

PhoneInit ==
    /\ Init /\ VerifyInit /\ KeysInit /\ PushInit /\ HostInit
    /\ part \in {"trust", "verification", "keys", "push", "host"}

PhoneNext ==
    \/ /\ part = "trust"
       /\ UNCHANGED <<verifyVars, keysVars, pushVars, hostVars, part>>
       /\ Next
    \/ /\ part = "verification"
       /\ UNCHANGED <<vars, keysVars, pushVars, hostVars, part>>
       /\ VerifyNext
    \/ /\ part = "keys"
       /\ UNCHANGED <<vars, verifyVars, pushVars, hostVars, part>>
       /\ KeysNext
    \/ /\ part = "push"
       /\ UNCHANGED <<vars, verifyVars, keysVars, hostVars, part>>
       /\ PushNext
    \/ /\ part = "host"
       /\ UNCHANGED <<vars, verifyVars, keysVars, pushVars, part>>
       /\ HostNext

PhoneSpec == PhoneInit /\ [][PhoneNext]_phoneVars

\* The state of the part that runs has its types and bounds.
Types ==
    /\ part = "trust" => TypeOK
    /\ part = "verification" => VerifyTypeOK
    /\ part = "keys" => KeysTypeOK
    /\ part = "push" => PushTypeOK
    /\ part = "host" => HostTypeOK
=============================================================================
