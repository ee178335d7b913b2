----------------------------- MODULE EngineHost -----------------------------
(***************************************************************************)
(* The one socket and the one engine of the signed-in user on a phone:     *)
(* WebSocketProvider (WebSocketClient.tsx) and, inside it, E2EEProvider    *)
(* (E2EEProvider.tsx). Both start on sign-in and stop on sign-out, in      *)
(* effects of React. What they start ends later and in any order: opening  *)
(* the database, a socket, publishing the keys; and React renders, and     *)
(* copies `connected` to connectedRef and the engine to the listeners of   *)
(* the socket, some time after they are set. DeleteAccountModal takes the  *)
(* engine to wipe the phone's data of a deleted account.                   *)
(***************************************************************************)
EXTENDS Naturals

CONSTANT MaxSessions \* bound: sign-ins of this phone

ASSUME HostAssumption == MaxSessions \in Nat

VARIABLES
    runs,      \* sign-ins so far; an engine and a socket have the number of theirs
    run,       \* the sign-in now (0: nobody is signed in)
    stage,     \* the socket of this sign-in
    echoes,    \* what sockets of earlier sign-ins are still to report
    authedRef, \* what send() asks
    connected, \* the state, and the copy of it in connectedRef
    committed,
    opening,   \* sign-ins whose database is being opened
    alive,     \* engines not stopped, and those that are stopping
    stopping,
    keying,    \* engines publishing their keys
    held,      \* the engine of the context (0: null), and the one listening
    listening,
    status,    \* the state of the context
    deletion,  \* the deletion of an account under way, with the engine that is to wipe
    stored,    \* sign-ins whose database is on the phone
    deleted,   \* sign-ins whose account is deleted
    \* history
    told,      \* the engine has been told that this socket is registered
    slipped,   \* ... and nobody told it
    haunted,   \* a socket of an earlier sign-in has changed authedRef since this one did
    strayed,   \* the status is that of a stopped engine
    unwiped    \* accounts deleted with no engine there to wipe, or with no answer

hostVars == <<runs, run, stage, echoes, authedRef, connected, committed, opening, alive,
              stopping, keying, held, listening, status, told, slipped, haunted, strayed,
              deletion, stored, deleted, unwiped>>
sockVars == <<stage, echoes, authedRef, connected, haunted>>
engineVars == <<opening, alive, stopping, keying, held, status, strayed, stored>>
deleteVars == <<deletion, deleted, unwiped>>

Runs == 1..MaxSessions
Frames == [of : Runs, is : {"registered", "closed"}]
NoDeletion == [stage |-> "none", of |-> 0, wiper |-> 0]

HostTypeOK ==
    /\ {runs, run, held, listening} \subseteq 0..MaxSessions
    /\ stage \in {"none", "waiting", "open", "asked", "registered"}
    /\ echoes \subseteq Frames
    /\ {opening, alive, stopping, keying, stored, deleted, unwiped} \subseteq SUBSET Runs
    /\ deletion.stage \in {"none", "asked", "deleted", "wiping"}
    /\ {deletion.of, deletion.wiper} \subseteq 0..MaxSessions
    /\ {authedRef, connected, committed, told, slipped, haunted, strayed} \subseteq BOOLEAN
    /\ status \in {"starting", "ready", "error"}

HostInit ==
    /\ runs = 0 /\ run = 0 /\ stage = "none" /\ echoes = {}
    /\ opening = {} /\ alive = {} /\ stopping = {} /\ keying = {}
    /\ held = 0 /\ listening = 0 /\ status = "starting"
    /\ authedRef = FALSE /\ connected = FALSE /\ committed = FALSE
    /\ told = FALSE /\ slipped = FALSE /\ haunted = FALSE /\ strayed = FALSE
    /\ deletion = NoDeletion /\ stored = {} /\ deleted = {} /\ unwiped = {}

\* The effects that run after every render.
Rendered ==
    /\ committed' = connected
    /\ listening' = held

HostRenders ==
    /\ Rendered
    /\ UNCHANGED <<runs, run, sockVars, engineVars, deleteVars, told, slipped>>

-----------------------------------------------------------------------------
(* Signing in and out *)

HostSignsIn ==
    /\ run = 0 /\ runs < MaxSessions
    /\ runs' = runs + 1 /\ run' = runs'
    /\ Rendered
    /\ stage' = "open" /\ authedRef' = FALSE
    /\ opening' = opening \cup {run'}
    /\ status' = "starting" /\ strayed' = FALSE
    /\ told' = FALSE /\ slipped' = FALSE
    /\ UNCHANGED <<echoes, connected, alive, stopping, keying, held, haunted, stored, deleteVars>>

\* The server may have answered the socket that is closed now.
Unreported ==
    IF stage \in {"none", "waiting"} THEN {}
    ELSE {[of |-> run, is |-> "closed"]} \cup
         (IF stage = "asked" THEN {[of |-> run, is |-> "registered"]} ELSE {})

EveryoneOut ==
    /\ run' = 0
    /\ Rendered
    /\ stage' = "none" /\ authedRef' = FALSE /\ connected' = FALSE
    /\ echoes' = echoes \cup Unreported
    /\ held' = 0
    /\ alive' = alive \ {run} /\ stopping' = stopping \cup (alive \cap {run})
    /\ told' = FALSE /\ slipped' = FALSE /\ haunted' = FALSE
    /\ UNCHANGED <<runs, opening, keying, status, strayed>>

\* Logout; or the session has ended.
HostSignsOut ==
    /\ run # 0
    /\ EveryoneOut
    /\ UNCHANGED <<stored, deleteVars>>

-----------------------------------------------------------------------------
(* The socket *)

\* onopen, once a fresh token is there.
SocketAsks ==
    /\ stage = "open"
    /\ stage' = "asked"
    /\ UNCHANGED <<runs, run, echoes, authedRef, connected, haunted, engineVars, deleteVars,
                   committed, listening, told, slipped>>

\* onmessage 'registered': the engine hears of it if it listens by now.
SocketRegistered ==
    /\ stage = "asked"
    /\ stage' = "registered" /\ authedRef' = TRUE /\ connected' = TRUE
    /\ told' = (listening = run)
    /\ slipped' = (held = run /\ listening # run)
    /\ haunted' = FALSE
    /\ UNCHANGED <<runs, run, echoes, engineVars, deleteVars, committed, listening>>

\* onclose: lost, rejected, or no token. The handler schedules the next socket.
SocketCloses ==
    /\ stage \in {"open", "asked", "registered"}
    /\ stage' = "waiting" /\ authedRef' = FALSE /\ connected' = FALSE
    /\ told' = FALSE /\ slipped' = FALSE /\ haunted' = FALSE
    /\ UNCHANGED <<runs, run, echoes, engineVars, deleteVars, committed, listening>>

\* The timer, or the app coming to the foreground.
SocketReconnects ==
    /\ stage = "waiting"
    /\ stage' = "open" /\ authedRef' = FALSE
    /\ UNCHANGED <<runs, run, echoes, connected, haunted, engineVars, deleteVars, committed,
                   listening, told, slipped>>

\* A socket of an earlier sign-in: its handlers change the refs and the state of today's.
OldSocketReports(f) ==
    /\ echoes' = echoes \ (IF f.is = "closed" THEN {g \in echoes : g.of = f.of} ELSE {f})
    /\ authedRef' = (f.is = "registered") /\ connected' = authedRef'
    /\ haunted' = (haunted \/ authedRef' # authedRef)
    /\ told' = (told \/ (f.is = "registered" /\ run # 0 /\ listening = run))
    /\ UNCHANGED <<runs, run, stage, engineVars, deleteVars, committed, listening, slipped>>

-----------------------------------------------------------------------------
(* The engine *)

\* Mutant: the engine is started, whoever is signed in by now.
EngineOpensAnyway(r) ==
    /\ opening' = opening \ {r} /\ stored' = stored \cup {r}
    /\ alive' = alive \cup {r} /\ keying' = keying \cup {r} /\ held' = r
    /\ told' = committed
    /\ slipped' = (connected /\ ~committed)
    /\ UNCHANGED <<runs, run, sockVars, stopping, status, strayed, committed, listening,
                   deleteVars>>

\* LocalStore.open: the engine starts, and is told of the socket if connectedRef says so.
EngineOpens(r) ==
    /\ opening' = opening \ {r} /\ stored' = stored \cup {r}
    /\ \/ r # run /\ UNCHANGED <<alive, keying, held, told, slipped>>
       \/ /\ r = run
          /\ alive' = alive \cup {r} /\ keying' = keying \cup {r} /\ held' = r
          /\ told' = committed
          /\ slipped' = (connected /\ ~committed)
    /\ UNCHANGED <<runs, run, sockVars, stopping, status, strayed, committed, listening,
                   deleteVars>>

EngineFailsToOpen(r) ==
    /\ opening' = opening \ {r}
    /\ status' = IF r = run THEN "error" ELSE status
    /\ strayed' = (strayed /\ r # run)
    /\ UNCHANGED <<runs, run, sockVars, alive, stopping, keying, held, stored, committed,
                   listening, told, slipped, deleteVars>>

\* ensureKeys ends: published, or to be tried again unless the engine is stopped.
KeysSettle(r) ==
    /\ \/ status' = "ready" /\ keying' = keying \ {r}
       \/ status' \in {"ready", "error"} /\ keying' = keying \ stopping
    /\ strayed' = (r # run)
    /\ UNCHANGED <<runs, run, sockVars, opening, alive, stopping, held, stored, committed,
                   listening, told, slipped, deleteVars>>

\* stop(): the last acks are sent, or not, and the listeners cleared.
EngineStops(r) ==
    /\ stopping' = stopping \ {r} /\ keying' = keying \ {r}
    /\ UNCHANGED <<runs, run, sockVars, opening, alive, held, status, strayed, stored,
                   committed, listening, told, slipped, deleteVars>>

-----------------------------------------------------------------------------
(* The account is deleted *)

\* confirm() of DeleteAccountModal, with the engine the screen was rendered with.
AsksDeletion ==
    /\ run # 0 /\ deletion = NoDeletion
    /\ deletion' = [stage |-> "asked", of |-> run, wiper |-> listening]
    /\ UNCHANGED <<runs, run, sockVars, engineVars, deleted, unwiped, committed, listening, told,
                   slipped>>

\* The server ends the sessions, too, which may sign the phone out before the answer.
AccountIsDeleted ==
    /\ deletion.stage = "asked"
    /\ deletion' = [deletion EXCEPT !.stage = "deleted"]
    /\ deleted' = deleted \cup {deletion.of}
    /\ UNCHANGED <<runs, run, sockVars, engineVars, unwiped, committed, listening, told, slipped>>

\* A wrong password; or the answer is lost.
DeletionFails ==
    /\ deletion.stage \in {"asked", "deleted"}
    /\ deletion' = NoDeletion
    /\ unwiped' = unwiped \cup (deleted \cap {deletion.of})
    /\ UNCHANGED <<runs, run, sockVars, engineVars, deleted, committed, listening, told, slipped>>

\* engine?.wipe()
WipeStarts ==
    /\ deletion.stage = "deleted" /\ deletion.wiper # 0
    /\ deletion' = [deletion EXCEPT !.stage = "wiping"]
    /\ alive' = alive \ {deletion.wiper} /\ stopping' = stopping \cup {deletion.wiper}
    /\ UNCHANGED <<runs, run, sockVars, opening, keying, held, status, strayed, stored, deleted,
                   unwiped, committed, listening, told, slipped>>

\* onDeleted: whoever is signed in by then is signed out.
DeletionEnds ==
    /\ \/ /\ deletion.stage = "deleted" /\ deletion.wiper = 0
          /\ unwiped' = unwiped \cup {deletion.of}
          /\ UNCHANGED stored
       \/ /\ deletion.stage = "wiping" /\ deletion.wiper \notin stopping
          /\ stored' = stored \ {deletion.of}
          /\ UNCHANGED unwiped
    /\ deletion' = NoDeletion
    /\ EveryoneOut
    /\ UNCHANGED deleted

-----------------------------------------------------------------------------
HostNext ==
    \/ HostRenders \/ HostSignsIn \/ HostSignsOut
    \/ SocketAsks \/ SocketRegistered \/ SocketCloses \/ SocketReconnects
    \/ \E f \in echoes : OldSocketReports(f)
    \/ \E r \in opening : EngineOpens(r) \/ EngineFailsToOpen(r)
    \/ \E r \in keying : KeysSettle(r)
    \/ \E r \in stopping : EngineStops(r)
    \/ AsksDeletion \/ AccountIsDeleted \/ DeletionFails \/ WipeStarts \/ DeletionEnds

HostSpec == HostInit /\ [][HostNext]_hostVars

-----------------------------------------------------------------------------
(***************************************************************************)
(* "Runs the end-to-end encryption engine for the signed-in account"       *)
(* (E2EEProvider.tsx:11): no engine but that of the user signed in now is  *)
(* alive; once what is set has been rendered, the engine of a connected    *)
(* phone has been told of the connection, after which it fetches what the  *)
(* server kept for it, unless 'registered' came while the engine was set   *)
(* but not listening, or before connectedRef was copied; and the phone     *)
(* sends exactly while its socket is registered, unless a socket of an     *)
(* earlier sign-in has reported meanwhile. "The decrypted messages and keys*)
(* on this phone go too" (DeleteAccountModal.tsx:46) when the account is   *)
(* deleted, unless no engine was rendered yet or the answer was lost.      *)
(***************************************************************************)
EngineServesUser ==
    /\ alive \subseteq {run} /\ held \in {0, run}
    /\ held = run /\ run \notin alive \cup {0} =>
          deletion.stage = "wiping" /\ deletion.of = run
    /\ stage = "registered" /\ connected /\ held \in alive /\ listening = run
          => told \/ slipped \/ haunted
    /\ ~haunted => authedRef = (stage = "registered") /\ connected = authedRef
    /\ status = "ready" /\ ~strayed => held = run
    /\ deleted \cap stored \subseteq unwiped \cup {deletion.of}
=============================================================================
