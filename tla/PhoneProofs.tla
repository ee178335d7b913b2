------------------------------ MODULE PhoneProofs -----------------------------
(***************************************************************************)
(* Machine-checked facts about what one phone runs, registers and shows,   *)
(* for every number of sign-ins, installs, registrations and reads, and    *)
(* about PreKeys, for every number of keys, restarts, failed requests and  *)
(* changes of install, and every length of the keeping times.              *)
(***************************************************************************)
EXTENDS EngineHost, PushTokens, Verification, PreKeys, FiniteSetTheorems, SequenceTheorems, TLAPS

-----------------------------------------------------------------------------
(* EngineHost *)

\* What is numbered has been started.
HostNumbers ==
    /\ runs \in 0..MaxSessions /\ run \in 0..runs
    /\ held \in 0..runs /\ listening \in 0..runs
    /\ deletion \in [stage : {"none", "asked", "deleted", "wiping"}, of : 0..runs, wiper : 0..runs]
    /\ deletion.stage # "none" => deletion.of # 0
    /\ opening \subseteq 1..runs /\ keying \subseteq 1..runs /\ deleted \subseteq 1..runs
    /\ run = 0 => stage = "none"

\* The engine in use, and the one that will wipe, are of one sign-in and open.
HostEngines ==
    /\ alive \subseteq {run} /\ held \in {0, run}
    /\ run # 0 => listening \in {0, run}
    /\ deletion.wiper \in {0, deletion.of}
    /\ deletion.stage = "wiping" => deletion.wiper # 0
    /\ held \notin opening /\ listening \notin opening /\ deletion.wiper \notin opening
    /\ held = run /\ run \notin alive \cup {0} => deletion.stage = "wiping" /\ deletion.of = run
    /\ run \in keying => held = run
    /\ status = "ready" /\ ~strayed => held = run

\* What the socket has said, and to whom.
HostSocket ==
    /\ stage = "registered" /\ connected /\ held \in alive => told \/ slipped \/ haunted
    /\ ~haunted => (authedRef <=> stage = "registered") /\ (connected <=> authedRef)

\* A database that is still being opened counts as stored.
HostWiped == deleted \cap (stored \cup opening) \subseteq unwiped \cup {deletion.of}

HostFlags ==
    /\ authedRef \in BOOLEAN /\ connected \in BOOLEAN /\ committed \in BOOLEAN
    /\ told \in BOOLEAN /\ slipped \in BOOLEAN /\ haunted \in BOOLEAN /\ strayed \in BOOLEAN
HostSets ==
    /\ stage \in {"none", "waiting", "open", "asked", "registered"}
    /\ status \in {"starting", "ready", "error"}
    /\ echoes \subseteq Frames
    /\ alive \subseteq Runs /\ stopping \subseteq Runs /\ stored \subseteq Runs
    /\ unwiped \subseteq Runs

LEMMA HostNumbersStep == HostNumbers /\ HostSets /\ [HostNext]_hostVars => HostNumbers'
<1> SUFFICES ASSUME HostNumbers, HostSets, [HostNext]_hostVars PROVE HostNumbers'
  OBVIOUS
<1> USE HostAssumption DEF HostNumbers, HostSets, Runs, sockVars, engineVars, deleteVars
<1>1. CASE HostRenders
  BY <1>1 DEF HostRenders, Rendered
<1>2. CASE HostSignsIn
  BY <1>2 DEF HostSignsIn, Rendered
<1>3. CASE HostSignsOut
  BY <1>3 DEF HostSignsOut, EveryoneOut, Rendered
<1>4. CASE SocketAsks \/ SocketRegistered \/ SocketCloses \/ SocketReconnects
  BY <1>4 DEF SocketAsks, SocketRegistered, SocketCloses, SocketReconnects
<1>5. ASSUME NEW f \in echoes, OldSocketReports(f) PROVE HostNumbers'
  BY <1>5 DEF OldSocketReports
<1>6. ASSUME NEW r \in opening, EngineOpens(r) PROVE HostNumbers'
  BY <1>6 DEF EngineOpens
<1>7. ASSUME NEW r \in opening, EngineFailsToOpen(r) PROVE HostNumbers'
  BY <1>7 DEF EngineFailsToOpen
<1>8. ASSUME NEW r \in keying, KeysSettle(r) PROVE HostNumbers'
  BY <1>8 DEF KeysSettle
<1>9. ASSUME NEW r \in stopping, EngineStops(r) PROVE HostNumbers'
  BY <1>9 DEF EngineStops
<1>10. CASE AsksDeletion \/ AccountIsDeleted \/ DeletionFails \/ WipeStarts
  BY <1>10 DEF AsksDeletion, AccountIsDeleted, DeletionFails, WipeStarts, NoDeletion
<1>11. CASE DeletionEnds
  BY <1>11 DEF DeletionEnds, EveryoneOut, Rendered, NoDeletion
<1>12. CASE UNCHANGED hostVars
  BY <1>12 DEF hostVars
<1> QED BY <1>1, <1>2, <1>3, <1>4, <1>5, <1>6, <1>7, <1>8, <1>9, <1>10, <1>11, <1>12 DEF HostNext

LEMMA HostEnginesStep ==
    HostNumbers /\ HostSets /\ HostEngines /\ [HostNext]_hostVars => HostEngines'
<1> SUFFICES ASSUME HostNumbers, HostSets, HostEngines, [HostNext]_hostVars PROVE HostEngines'
  OBVIOUS
<1> USE HostAssumption DEF HostNumbers, HostEngines, engineVars, deleteVars
<1>1. CASE HostRenders
  BY <1>1 DEF HostRenders, Rendered
<1>2. CASE HostSignsIn
  <2>1. alive = {} /\ run' \notin keying /\ run' # 0 /\ run' \in Nat
    BY <1>2 DEF HostSignsIn, HostSets, Runs
  <2> QED BY <1>2, <2>1 DEF HostSignsIn, Rendered
<1>3. CASE HostSignsOut
  BY <1>3 DEF HostSignsOut, EveryoneOut, Rendered
<1>4. CASE SocketAsks \/ SocketRegistered \/ SocketCloses \/ SocketReconnects
  BY <1>4 DEF SocketAsks, SocketRegistered, SocketCloses, SocketReconnects
<1>5. ASSUME NEW f \in echoes, OldSocketReports(f) PROVE HostEngines'
  BY <1>5 DEF OldSocketReports
<1>6. ASSUME NEW r \in opening, EngineOpens(r) PROVE HostEngines'
  BY <1>6 DEF EngineOpens
<1>7. ASSUME NEW r \in opening, EngineFailsToOpen(r) PROVE HostEngines'
  BY <1>7 DEF EngineFailsToOpen
<1>8. ASSUME NEW r \in keying, KeysSettle(r) PROVE HostEngines'
  BY <1>8 DEF KeysSettle
<1>9. ASSUME NEW r \in stopping, EngineStops(r) PROVE HostEngines'
  BY <1>9 DEF EngineStops
<1>10. CASE AsksDeletion \/ AccountIsDeleted \/ DeletionFails
  BY <1>10 DEF AsksDeletion, AccountIsDeleted, DeletionFails, NoDeletion
<1>11. CASE WipeStarts
  BY <1>11 DEF WipeStarts
<1>12. CASE DeletionEnds
  BY <1>12 DEF DeletionEnds, EveryoneOut, Rendered, NoDeletion
<1>13. CASE UNCHANGED hostVars
  BY <1>13 DEF hostVars
<1> QED
  BY <1>1, <1>2, <1>3, <1>4, <1>5, <1>6, <1>7, <1>8, <1>9, <1>10, <1>11, <1>12, <1>13
     DEF HostNext

LEMMA HostSocketStep ==
    HostNumbers /\ HostEngines /\ HostFlags /\ HostSocket /\ [HostNext]_hostVars => HostSocket'
<1> SUFFICES ASSUME HostNumbers, HostEngines, HostFlags, HostSocket, [HostNext]_hostVars
             PROVE  HostSocket'
  OBVIOUS
<1> USE HostAssumption DEF HostNumbers, HostEngines, HostFlags, HostSocket, engineVars, sockVars
<1>1. CASE HostRenders
  BY <1>1 DEF HostRenders, Rendered
<1>2. CASE HostSignsIn
  BY <1>2 DEF HostSignsIn, Rendered
<1>3. CASE HostSignsOut
  BY <1>3 DEF HostSignsOut, EveryoneOut, Rendered
<1>4. CASE SocketAsks \/ SocketRegistered \/ SocketCloses \/ SocketReconnects
  <2>1. CASE SocketAsks
    BY <2>1 DEF SocketAsks
  <2>2. CASE SocketRegistered
    BY <2>2 DEF SocketRegistered
  <2>3. CASE SocketCloses
    BY <2>3 DEF SocketCloses
  <2>4. CASE SocketReconnects
    BY <2>4 DEF SocketReconnects
  <2> QED BY <1>4, <2>1, <2>2, <2>3, <2>4
<1>5. ASSUME NEW f \in echoes, OldSocketReports(f) PROVE HostSocket'
  <2>1. /\ haunted' = (haunted \/ authedRef' # authedRef)
        /\ told => told'
        /\ UNCHANGED <<stage, slipped, held, alive>>
    BY <1>5 DEF OldSocketReports
  <2>2. authedRef' = (f.is = "registered") /\ connected' = authedRef'
    BY <1>5 DEF OldSocketReports
  <2>3. CASE haunted'
    BY <2>3
  <2>4. CASE ~haunted'
    <3>1. ~haunted /\ authedRef' = authedRef
      BY <2>1, <2>4
    <3> QED BY <2>1, <2>2, <3>1
  <2> QED BY <2>3, <2>4
<1>6. ASSUME NEW r \in opening, EngineOpens(r) PROVE HostSocket'
  BY <1>6 DEF EngineOpens
<1>7. ASSUME NEW r \in opening, EngineFailsToOpen(r) PROVE HostSocket'
  BY <1>7 DEF EngineFailsToOpen
<1>8. ASSUME NEW r \in keying, KeysSettle(r) PROVE HostSocket'
  BY <1>8 DEF KeysSettle
<1>9. ASSUME NEW r \in stopping, EngineStops(r) PROVE HostSocket'
  BY <1>9 DEF EngineStops
<1>10. CASE AsksDeletion \/ AccountIsDeleted \/ DeletionFails \/ WipeStarts
  BY <1>10 DEF AsksDeletion, AccountIsDeleted, DeletionFails, WipeStarts
<1>11. CASE DeletionEnds
  BY <1>11 DEF DeletionEnds, EveryoneOut, Rendered
<1>12. CASE UNCHANGED hostVars
  BY <1>12 DEF hostVars
<1> QED BY <1>1, <1>2, <1>3, <1>4, <1>5, <1>6, <1>7, <1>8, <1>9, <1>10, <1>11, <1>12 DEF HostNext

LEMMA HostWipedStep ==
    HostNumbers /\ HostEngines /\ HostSets /\ HostWiped /\ [HostNext]_hostVars => HostWiped'
<1> SUFFICES ASSUME HostNumbers, HostEngines, HostSets, HostWiped, [HostNext]_hostVars
             PROVE  HostWiped'
  OBVIOUS
<1> USE HostAssumption DEF HostNumbers, HostEngines, HostSets, Runs, HostWiped,
        engineVars, deleteVars
<1>1. CASE HostRenders
  BY <1>1 DEF HostRenders
<1>2. CASE HostSignsIn
  BY <1>2 DEF HostSignsIn
<1>3. CASE HostSignsOut
  BY <1>3 DEF HostSignsOut, EveryoneOut
<1>4. CASE SocketAsks \/ SocketRegistered \/ SocketCloses \/ SocketReconnects
  BY <1>4 DEF SocketAsks, SocketRegistered, SocketCloses, SocketReconnects
<1>5. ASSUME NEW f \in echoes, OldSocketReports(f) PROVE HostWiped'
  BY <1>5 DEF OldSocketReports
<1>6. ASSUME NEW r \in opening, EngineOpens(r) PROVE HostWiped'
  BY <1>6 DEF EngineOpens
<1>7. ASSUME NEW r \in opening, EngineFailsToOpen(r) PROVE HostWiped'
  BY <1>7 DEF EngineFailsToOpen
<1>8. ASSUME NEW r \in keying, KeysSettle(r) PROVE HostWiped'
  BY <1>8 DEF KeysSettle
<1>9. ASSUME NEW r \in stopping, EngineStops(r) PROVE HostWiped'
  BY <1>9 DEF EngineStops
<1>10. CASE AsksDeletion \/ AccountIsDeleted \/ DeletionFails \/ WipeStarts
  BY <1>10 DEF AsksDeletion, AccountIsDeleted, DeletionFails, WipeStarts, NoDeletion
<1>11. CASE DeletionEnds
  BY <1>11 DEF DeletionEnds, EveryoneOut, NoDeletion
<1>12. CASE UNCHANGED hostVars
  BY <1>12 DEF hostVars
<1> QED BY <1>1, <1>2, <1>3, <1>4, <1>5, <1>6, <1>7, <1>8, <1>9, <1>10, <1>11, <1>12 DEF HostNext

LEMMA HostSetsStep ==
    HostNumbers /\ HostSets /\ [HostNext]_hostVars => HostSets'
<1> SUFFICES ASSUME HostNumbers, HostSets, [HostNext]_hostVars PROVE HostSets'
  OBVIOUS
<1>0. HostNumbers'
  BY HostNumbersStep
<1> USE HostAssumption DEF HostNumbers, HostSets, Runs, Frames,
        engineVars, sockVars, deleteVars
<1>13. Unreported \subseteq Frames
  BY DEF Unreported
<1>14. opening \subseteq Runs
  OBVIOUS
<1>1. CASE HostRenders
  BY <1>0, <1>1 DEF HostRenders, Rendered
<1>2. CASE HostSignsIn
  BY <1>0, <1>2 DEF HostSignsIn, Rendered
<1>3. CASE HostSignsOut
  BY <1>0, <1>3, <1>13 DEF HostSignsOut, EveryoneOut
<1>4. CASE SocketAsks \/ SocketRegistered \/ SocketCloses \/ SocketReconnects
  BY <1>0, <1>4 DEF SocketAsks, SocketRegistered, SocketCloses, SocketReconnects
<1>5. ASSUME NEW f \in echoes, OldSocketReports(f) PROVE HostSets'
  BY <1>0, <1>5 DEF OldSocketReports
<1>6. ASSUME NEW r \in opening, EngineOpens(r) PROVE HostSets'
  BY <1>0, <1>6, <1>14 DEF EngineOpens
<1>7. ASSUME NEW r \in opening, EngineFailsToOpen(r) PROVE HostSets'
  BY <1>0, <1>7 DEF EngineFailsToOpen
<1>8. ASSUME NEW r \in keying, KeysSettle(r) PROVE HostSets'
  BY <1>0, <1>8 DEF KeysSettle
<1>9. ASSUME NEW r \in stopping, EngineStops(r) PROVE HostSets'
  BY <1>0, <1>9 DEF EngineStops
<1>10. CASE AsksDeletion \/ AccountIsDeleted \/ DeletionFails \/ WipeStarts
  BY <1>0, <1>10 DEF AsksDeletion, AccountIsDeleted, DeletionFails, WipeStarts, NoDeletion
<1>11. CASE DeletionEnds
  <2>1. deletion.of \in Runs
    BY <1>11 DEF DeletionEnds
  <2> QED BY <1>11, <1>13, <2>1 DEF DeletionEnds, EveryoneOut
<1>12. CASE UNCHANGED hostVars
  BY <1>0, <1>12 DEF hostVars
<1> QED BY <1>1, <1>2, <1>3, <1>4, <1>5, <1>6, <1>7, <1>8, <1>9, <1>10, <1>11, <1>12 DEF HostNext

LEMMA HostFlagsStep ==
    HostFlags /\ [HostNext]_hostVars => HostFlags'
<1> SUFFICES ASSUME HostFlags, [HostNext]_hostVars PROVE HostFlags'
  OBVIOUS
<1> USE DEF HostFlags, engineVars, sockVars, deleteVars
<1>1. CASE HostRenders
  BY <1>1 DEF HostRenders, Rendered
<1>2. CASE HostSignsIn
  BY <1>2 DEF HostSignsIn, Rendered
<1>3. CASE HostSignsOut
  BY <1>3 DEF HostSignsOut, EveryoneOut, Rendered
<1>4. CASE SocketAsks \/ SocketRegistered \/ SocketCloses \/ SocketReconnects
  BY <1>4 DEF SocketAsks, SocketRegistered, SocketCloses, SocketReconnects
<1>5. ASSUME NEW f \in echoes, OldSocketReports(f) PROVE HostFlags'
  BY <1>5 DEF OldSocketReports
<1>6. ASSUME NEW r \in opening, EngineOpens(r) PROVE HostFlags'
  BY <1>6 DEF EngineOpens
<1>7. ASSUME NEW r \in opening, EngineFailsToOpen(r) PROVE HostFlags'
  BY <1>7 DEF EngineFailsToOpen
<1>8. ASSUME NEW r \in keying, KeysSettle(r) PROVE HostFlags'
  BY <1>8 DEF KeysSettle
<1>9. ASSUME NEW r \in stopping, EngineStops(r) PROVE HostFlags'
  BY <1>9 DEF EngineStops
<1>10. CASE AsksDeletion \/ AccountIsDeleted \/ DeletionFails \/ WipeStarts
  BY <1>10 DEF AsksDeletion, AccountIsDeleted, DeletionFails, WipeStarts, NoDeletion
<1>11. CASE DeletionEnds
  BY <1>11 DEF DeletionEnds, EveryoneOut, Rendered, NoDeletion
<1>12. CASE UNCHANGED hostVars
  BY <1>12 DEF hostVars
<1> QED BY <1>1, <1>2, <1>3, <1>4, <1>5, <1>6, <1>7, <1>8, <1>9, <1>10, <1>11, <1>12 DEF HostNext

LEMMA HostHolds == HostSpec => [](HostNumbers /\ HostSets /\ HostEngines /\ HostFlags)
<1>1. HostInit => HostNumbers /\ HostSets /\ HostEngines /\ HostFlags
  <2> SUFFICES ASSUME HostInit PROVE HostNumbers /\ HostSets /\ HostEngines /\ HostFlags
    OBVIOUS
  <2>1. HostNumbers
    BY HostAssumption DEF HostInit, HostNumbers, NoDeletion
  <2>2. HostSets /\ HostEngines
    BY DEF HostInit, HostSets, HostEngines, NoDeletion
  <2>3. HostFlags
    BY DEF HostInit, HostFlags
  <2> QED BY <2>1, <2>2, <2>3
<1> QED BY <1>1, HostNumbersStep, HostSetsStep, HostFlagsStep, HostEnginesStep, PTL DEF HostSpec

(***************************************************************************)
(* What the phone runs, keeps and says has its type, whatever sign-ins     *)
(* there are.                                                              *)
(***************************************************************************)
THEOREM HostTypeCorrect == HostSpec => []HostTypeOK
<1>1. HostNumbers /\ HostSets /\ HostEngines /\ HostFlags => HostTypeOK
  <2> SUFFICES ASSUME HostNumbers, HostSets, HostEngines, HostFlags PROVE HostTypeOK
    OBVIOUS
  <2>1. {authedRef, connected, committed, told, slipped, haunted, strayed} \subseteq BOOLEAN
    BY DEF HostFlags
  <2>2. 0..runs \subseteq 0..MaxSessions /\ 1..runs \subseteq Runs
    BY HostAssumption DEF HostNumbers, Runs
  <2>3. {runs, run, held, listening} \subseteq 0..MaxSessions
    BY <2>2 DEF HostNumbers
  <2>4. {opening, alive, stopping, keying, stored, deleted, unwiped} \subseteq SUBSET Runs
    BY <2>2 DEF HostNumbers, HostSets
  <2>5. deletion.stage \in {"none", "asked", "deleted", "wiping"}
        /\ {deletion.of, deletion.wiper} \subseteq 0..MaxSessions
    BY <2>2 DEF HostNumbers
  <2> QED BY <2>1, <2>3, <2>4, <2>5 DEF HostTypeOK, HostSets
<1> QED BY <1>1, HostHolds, PTL

(***************************************************************************)
(* No engine but that of the user signed in is alive, it is told of the    *)
(* connection, the phone sends while its socket is registered, and the     *)
(* data of a deleted account goes; with the exceptions EngineServesUser    *)
(* names.                                                                  *)
(***************************************************************************)
THEOREM HostEngineServesUser == HostSpec => []EngineServesUser
<1>1. HostInit => HostSocket /\ HostWiped
  BY DEF HostInit, HostSocket, HostWiped
<1>2. HostNumbers /\ HostEngines /\ HostFlags /\ HostSocket /\ HostWiped => EngineServesUser
  <2> SUFFICES ASSUME HostEngines, HostFlags, HostSocket, HostWiped
               PROVE  EngineServesUser
    OBVIOUS
  <2>1. ~haunted => authedRef = (stage = "registered") /\ connected = authedRef
    BY DEF HostSocket, HostFlags
  <2>2. stage = "registered" /\ connected /\ held \in alive /\ listening = run
          => told \/ slipped \/ haunted
    BY DEF HostSocket
  <2>3. deleted \cap stored \subseteq unwiped \cup {deletion.of}
    BY DEF HostWiped
  <2> QED BY <2>1, <2>2, <2>3 DEF EngineServesUser, HostEngines
<1> QED BY <1>1, <1>2, HostHolds, HostSocketStep, HostWipedStep, PTL DEF HostSpec

-----------------------------------------------------------------------------
(* PushTokens *)

Stages == {"asking", "posted", "checked", "cleared"}
PushShapes ==
    /\ tokenOf \in Seq(Nat) /\ Len(tokenOf) <= MaxSignIns
    /\ device \in 0..Len(tokenOf) /\ token \in 1..MaxInstalls
    /\ \A s \in 1..Len(tokenOf) : tokenOf[s] <= token
    /\ revoked \subseteq 1..Len(tokenOf) /\ \A s \in revoked : tokenOf[s] = 0
    /\ unheard \subseteq 1..Len(tokenOf) /\ belated \subseteq 1..Len(tokenOf)
    /\ regs \subseteq [stage : Stages, sid : 0..Len(tokenOf), tok : 1..token]
    /\ push \in [sent : BOOLEAN, to : SUBSET (1..token)]
    /\ enrolled \in BOOLEAN
PushFew == IsFiniteSet(regs) /\ Cardinality(regs) <= MaxRegs

\* A registration is of the session of its request, and has the token of the install it
\* was made by; between its two updates no other session of the phone has the token.
PushRegs ==
    \A r \in regs :
      /\ r.stage = "asking" => r.tok = token /\ r.sid = 0
      /\ r.stage # "asking" => r.sid # 0
      /\ r.sid = device => r.tok = token
      /\ r.stage = "cleared" /\ r.sid = device =>
           \A s \in Signed : tokenOf[s] = token /\ s # device => s \in belated
\* The phone leaves a session only when it is revoked or the server does not hear of it.
PushLeft == \A s \in Signed : s = device \/ s \in revoked \/ s \in unheard

LEMMA SignedAre == tokenOf \in Seq(Nat) => Signed = 1..Len(tokenOf)
BY DEF Signed

\* The updates of the rows keep the sessions there are.
LEMMA RowsUpdated ==
    ASSUME NEW S \in Seq(Nat), NEW T, DOMAIN T = 1..Len(S), T = [s \in 1..Len(S) |-> T[s]],
           \A s \in 1..Len(S) : T[s] \in Nat
    PROVE  T \in Seq(Nat) /\ Len(T) = Len(S)
<1>1. T \in [1..Len(S) -> Nat]
  OBVIOUS
<1>2. Len(S) \in Nat
  OBVIOUS
<1>3. T \in Seq(Nat)
  BY <1>1, <1>2, IsASeq
<1> QED BY <1>2, <1>3

\* It is enough to look at the parts of PushShapes.
LEMMA PushShapesFrom ==
    ASSUME NEW m \in Nat, tokenOf' \in Seq(Nat), Len(tokenOf') = m, m <= MaxSignIns,
           device' \in 0..m, token' \in 1..MaxInstalls,
           \A s \in 1..m : tokenOf'[s] <= token',
           revoked' \subseteq 1..m, \A s \in revoked' : tokenOf'[s] = 0,
           unheard' \subseteq 1..m, belated' \subseteq 1..m,
           regs' \subseteq [stage : Stages, sid : 0..m, tok : 1..token'],
           push' \in [sent : BOOLEAN, to : SUBSET (1..token')], enrolled' \in BOOLEAN
    PROVE  PushShapes'
BY DEF PushShapes

LEMMA PushShapesStep == PushShapes /\ PushRegs /\ [PushNext]_pushVars => PushShapes'
<1> SUFFICES ASSUME PushShapes, PushRegs, [PushNext]_pushVars PROVE PushShapes'
  OBVIOUS
<1> DEFINE n == Len(tokenOf)
           Regs == [stage : Stages, sid : 0..n, tok : 1..token]
<1>a. /\ n \in Nat /\ Signed = 1..n /\ tokenOf \in Seq(Nat) /\ DOMAIN tokenOf = 1..n
      /\ n = Len(tokenOf) /\ n <= MaxSignIns
  BY SignedAre DEF PushShapes
<1>b. /\ token \in Nat \ {0} /\ token \in 1..MaxInstalls
      /\ MaxInstalls \in Nat /\ MaxSignIns \in Nat
  BY PushAssumption DEF PushShapes
<1>c. \A s \in 1..n : tokenOf[s] \in Nat /\ tokenOf[s] <= token
  BY <1>a DEF PushShapes
<1>d. revoked \subseteq 1..n /\ \A s \in revoked : tokenOf[s] = 0
  BY DEF PushShapes
<1>e. /\ device \in 0..n /\ unheard \subseteq 1..n /\ belated \subseteq 1..n /\ enrolled \in BOOLEAN
      /\ regs \subseteq Regs /\ push \in [sent : BOOLEAN, to : SUBSET (1..token)]
  BY DEF PushShapes
<1>f. NoPush \in [sent : BOOLEAN, to : SUBSET (1..token)]
  BY DEF NoPush
<1>g. 0 \in 0..n /\ (device # 0 => device \in 1..n)
  BY <1>a, <1>e
<1> HIDE DEF n
\* Steps that leave the rows and the install alone.
<1>2. ASSUME UNCHANGED <<token, tokenOf, revoked>>, device' \in 0..n,
             unheard' \subseteq 1..n, belated' \subseteq 1..n, enrolled' \in BOOLEAN,
             regs' \subseteq Regs, push' \in [sent : BOOLEAN, to : SUBSET (1..token)]
      PROVE  PushShapes'
  <2> HIDE DEF Regs
  <2>1. regs' \subseteq [stage : Stages, sid : 0..n, tok : 1..token']
    BY <1>2 DEF Regs
  <2> QED BY <1>a, <1>b, <1>c, <1>d, <1>e, <1>f, <1>2, <2>1, PushShapesFrom
\* Steps that change the rows.
<1>3. ASSUME UNCHANGED <<token, unheard>>, device' \in 0..n,
             DOMAIN tokenOf' = 1..n, tokenOf' = [s \in 1..n |-> tokenOf'[s]],
             \A s \in 1..n : tokenOf'[s] \in Nat /\ tokenOf'[s] <= token,
             revoked' \subseteq 1..n, \A s \in revoked' : tokenOf'[s] = 0,
             belated' \subseteq 1..n, enrolled' \in BOOLEAN,
             regs' \subseteq Regs, push' \in [sent : BOOLEAN, to : SUBSET (1..token)]
      PROVE  PushShapes'
  <2>1. tokenOf' \in Seq(Nat) /\ Len(tokenOf') = n
    BY <1>a, <1>b, <1>c, <1>d, <1>e, <1>f, <1>3, RowsUpdated
  <2>2. regs' \subseteq [stage : Stages, sid : 0..n, tok : 1..token']
    BY <1>3
  <2> HIDE DEF Regs
  <2> QED BY <1>a, <1>b, <1>c, <1>d, <1>e, <1>f, <1>3, <2>1, <2>2, PushShapesFrom
<1>4. CASE PhoneSignsIn
  <2>1. /\ tokenOf' = Append(tokenOf, 0) /\ device' = Len(tokenOf') /\ n < MaxSignIns
        /\ enrolled' = FALSE /\ UNCHANGED <<token, revoked, push, unheard, belated>>
        /\ regs' = regs \cup {[stage |-> "asking", sid |-> 0, tok |-> token]}
    BY <1>a, <1>b, <1>c, <1>d, <1>e, <1>f, <1>4 DEF PhoneSignsIn, AsksToRegister, Asking
  <2>2. tokenOf' \in Seq(Nat) /\ Len(tokenOf') = n + 1
    BY <1>a, <1>b, <1>c, <1>d, <1>e, <1>f, <2>1
  <2>3. (\A s \in 1..n : tokenOf'[s] = tokenOf[s]) /\ tokenOf'[n + 1] = 0
    BY <1>a, <1>b, <1>c, <1>d, <1>e, <1>f, <2>1
  <2>4. \A s \in 1..n + 1 : s \in 1..n \/ s = n + 1
    BY <1>a, <1>b, <1>c, <1>d, <1>e
  <2>5. \A s \in 1..n + 1 : tokenOf'[s] <= token
    BY <1>a, <1>b, <1>c, <1>d, <1>e, <1>f, <2>3, <2>4
  <2>6. 1..n \subseteq 1..n + 1 /\ 0..n \subseteq 0..n + 1 /\ n + 1 \in 0..n + 1 /\ 0 \in 0..n + 1
        /\ n + 1 \in Nat /\ n + 1 <= MaxSignIns
    BY <1>a, <1>b, <1>c, <1>d, <1>e, <1>f, <2>1
  <2>7. regs' \subseteq [stage : Stages, sid : 0..n + 1, tok : 1..token']
    BY <1>a, <1>b, <1>c, <1>d, <1>e, <1>f, <2>1, <2>6 DEF Stages
  <2>8. revoked' \subseteq 1..n + 1 /\ \A s \in revoked' : tokenOf'[s] = 0
    BY <1>a, <1>b, <1>c, <1>d, <1>e, <1>f, <2>1, <2>3, <2>6
  <2>9. unheard' \subseteq 1..n + 1 /\ belated' \subseteq 1..n + 1 /\ device' \in 0..n + 1
    BY <1>a, <1>b, <1>c, <1>d, <1>e, <1>f, <2>1, <2>2, <2>6
  <2> HIDE DEF Regs
  <2> QED
    BY <1>a, <1>b, <1>c, <1>d, <1>e, <1>f, <2>1, <2>2, <2>5, <2>6, <2>7, <2>8, <2>9,
       PushShapesFrom
<1>5. ASSUME NEW s \in Signed, Revokes(s), UNCHANGED <<token, regs, push, belated, unheard>>,
             device' \in 0..n, enrolled' \in BOOLEAN
      PROVE  PushShapes'
  <2>1. revoked' = revoked \cup {s} /\ tokenOf' = [tokenOf EXCEPT ![s] = 0] /\ s \in 1..n
    BY <1>a, <1>b, <1>c, <1>d, <1>e, <1>f, <1>5 DEF Revokes
  <2>2. /\ tokenOf' = [x \in 1..n |-> tokenOf'[x]] /\ DOMAIN tokenOf' = 1..n
        /\ \A x \in 1..n : tokenOf'[x] = IF x = s THEN 0 ELSE tokenOf[x]
    BY <1>a, <1>b, <1>c, <1>d, <1>e, <1>f, <2>1
  <2>3. \A x \in 1..n : tokenOf'[x] \in Nat /\ tokenOf'[x] <= token
    BY <1>a, <1>b, <1>c, <1>d, <1>e, <1>f, <2>2
  <2>4. revoked' \subseteq 1..n /\ \A x \in revoked' : tokenOf'[x] = 0
    BY <1>d, <2>1, <2>2
  <2> HIDE DEF Regs
  <2> QED BY <1>a, <1>b, <1>c, <1>d, <1>e, <1>f, <1>3, <1>5, <2>2, <2>3, <2>4
<1>6. CASE PhoneSignsOut
  BY <1>a, <1>g, <1>5, <1>6 DEF PhoneSignsOut
<1>7. ASSUME NEW s \in Signed, SessionGoes(s) PROVE PushShapes'
  BY <1>a, <1>b, <1>c, <1>d, <1>e, <1>f, <1>5, <1>7 DEF SessionGoes
<1>8. CASE PhoneSignsOutUnheard
  <2> HIDE DEF Regs
  <2> QED BY <1>a, <1>b, <1>c, <1>d, <1>e, <1>f, <1>g, <1>2, <1>8 DEF PhoneSignsOutUnheard
<1>9. CASE PhoneHears
  <2> HIDE DEF Regs
  <2> QED BY <1>a, <1>e, <1>g, <1>2, <1>9 DEF PhoneHears
<1>10. CASE AppStarts
  <2>1. [stage |-> "asking", sid |-> 0, tok |-> token] \in Regs
    BY <1>a, <1>b, <1>e DEF Stages
  <2> HIDE DEF Regs
  <2> QED BY <1>a, <1>b, <1>c, <1>d, <1>e, <1>f, <1>2, <1>10, <2>1 DEF AppStarts, Asking
<1>11. CASE AppReinstalled
  <2>1. token' = token + 1 /\ token' \in 1..MaxInstalls
    BY <1>a, <1>b, <1>c, <1>d, <1>e, <1>f, <1>11 DEF AppReinstalled
  <2>2. 1..token \subseteq 1..token'
    BY <1>a, <1>b, <1>c, <1>d, <1>e, <1>f, <2>1
  <2>3. regs' \subseteq [stage : Stages, sid : 0..n, tok : 1..token']
        /\ UNCHANGED <<tokenOf, revoked>>
        /\ push' \in [sent : BOOLEAN, to : SUBSET (1..token')]
    BY <1>a, <1>b, <1>c, <1>d, <1>e, <1>f, <1>11, <2>2 DEF AppReinstalled
  <2>4. \A s \in 1..n : tokenOf'[s] <= token'
    BY <1>a, <1>b, <1>c, <1>d, <1>e, <1>f, <2>1, <2>3
  <2>5. device' \in 0..n /\ unheard' \subseteq 1..n /\ belated' \subseteq 1..n
        /\ enrolled' \in BOOLEAN
    BY <1>e, <1>g, <1>11 DEF AppReinstalled
  <2> HIDE DEF Regs
  <2> QED BY <1>a, <1>b, <1>c, <1>d, <1>e, <1>f, <2>1, <2>3, <2>4, <2>5, PushShapesFrom
<1>12. ASSUME NEW r \in regs, RegisterPosts(r) PROVE PushShapes'
  <2>1. device # 0 => [r EXCEPT !.stage = "posted", !.sid = device] \in Regs
    BY <1>a, <1>b, <1>e DEF Stages
  <2> HIDE DEF Regs
  <2> QED BY <1>a, <1>b, <1>c, <1>d, <1>e, <1>f, <1>2, <1>12, <2>1 DEF RegisterPosts
<1>13. ASSUME NEW r \in regs, RegisterFails(r) PROVE PushShapes'
  <2> HIDE DEF Regs
  <2> QED BY <1>a, <1>b, <1>c, <1>d, <1>e, <1>f, <1>2, <1>13 DEF RegisterFails
<1>14. ASSUME NEW r \in regs, RegisterChecks(r) PROVE PushShapes'
  <2>1. [r EXCEPT !.stage = "checked"] \in Regs
    BY <1>a, <1>b, <1>e DEF Stages
  <2> HIDE DEF Regs
  <2> QED BY <1>a, <1>b, <1>c, <1>d, <1>e, <1>f, <1>2, <1>14, <2>1 DEF RegisterChecks
<1>15. ASSUME NEW r \in regs, RegisterClears(r) PROVE PushShapes'
  <2>1. [r EXCEPT !.stage = "cleared"] \in Regs /\ r.sid \in 0..n
    BY <1>a, <1>b, <1>e DEF Stages
  <2>2. r.sid \in 1..n
    BY <1>a, <1>b, <1>c, <1>d, <1>e, <1>f, <1>15, <2>1 DEF RegisterClears, PushRegs
  <2> HIDE DEF Regs
  <2>3. belated' \subseteq 1..n /\ regs' \subseteq Regs
    BY <1>a, <1>b, <1>c, <1>d, <1>e, <1>f, <1>15, <2>1, <2>2 DEF RegisterClears, Belated
  <2>4. /\ \A s \in 1..n : tokenOf'[s] = tokenOf[s] \/ tokenOf'[s] = 0
        /\ tokenOf' = [s \in 1..n |-> tokenOf'[s]] /\ DOMAIN tokenOf' = 1..n
    BY <1>a, <1>b, <1>c, <1>d, <1>e, <1>f, <1>15 DEF RegisterClears
  <2>5. /\ \A s \in 1..n : tokenOf'[s] \in Nat /\ tokenOf'[s] <= token
        /\ \A s \in revoked : tokenOf'[s] = 0
    BY <1>b, <1>c, <1>d, <2>4
  <2> QED BY <1>a, <1>b, <1>c, <1>d, <1>e, <1>f, <1>3, <1>15, <2>3, <2>4, <2>5 DEF RegisterClears
<1>16. ASSUME NEW r \in regs, RegisterSets(r) PROVE PushShapes'
  <2>1. r.sid \in 1..n /\ r.tok \in 1..token
    BY <1>a, <1>b, <1>c, <1>d, <1>e, <1>f, <1>16 DEF RegisterSets, PushRegs
  <2> HIDE DEF Regs
  <2>2. belated' \subseteq 1..n
    BY <1>a, <1>b, <1>c, <1>d, <1>e, <1>f, <1>16, <2>1 DEF RegisterSets, Belated
  <2>3. /\ \A s \in 1..n : \/ tokenOf'[s] = tokenOf[s]
                           \/ s = r.sid /\ s \notin revoked /\ tokenOf'[s] = r.tok
        /\ tokenOf' = [s \in 1..n |-> tokenOf'[s]] /\ DOMAIN tokenOf' = 1..n
    <3>1. CASE Rowed(r.sid)
      <4>1. tokenOf' = [tokenOf EXCEPT ![r.sid] = r.tok] /\ r.sid \notin revoked
        BY <1>16, <3>1 DEF RegisterSets, Rowed
      <4> QED BY <1>a, <2>1, <4>1
    <3>2. CASE ~Rowed(r.sid)
      BY <1>a, <1>16, <3>2 DEF RegisterSets
    <3> QED BY <3>1, <3>2
  <2>4. /\ \A s \in 1..n : tokenOf'[s] \in Nat /\ tokenOf'[s] <= token
        /\ \A s \in revoked : tokenOf'[s] = 0
    BY <1>b, <1>c, <1>d, <2>1, <2>3
  <2>5. enrolled' \in BOOLEAN /\ UNCHANGED <<device, token, revoked, push, unheard>>
        /\ regs' \subseteq Regs
    BY <1>a, <1>b, <1>c, <1>d, <1>e, <1>f, <1>16 DEF RegisterSets
  <2> QED BY <1>a, <1>b, <1>c, <1>d, <1>e, <1>f, <1>3, <2>2, <2>3, <2>4, <2>5
<1>17. CASE PushIsSent
  <2>1. PICK ss \in SUBSET (Signed \ revoked) :
          push' = [sent |-> TRUE, to |-> {tokenOf[s] : s \in ss} \ {0}]
    BY <1>17 DEF PushIsSent
  <2>2. {tokenOf[s] : s \in ss} \ {0} \subseteq 1..token
    BY <1>a, <1>b, <1>c, <1>d, <1>e
  <2> HIDE DEF Regs
  <2> QED BY <1>a, <1>b, <1>c, <1>d, <1>e, <1>f, <1>2, <1>17, <2>1, <2>2 DEF PushIsSent
<1>18. CASE TicketsAreRead
  <2> HIDE DEF Regs
  <2>1. /\ \A s \in 1..n : tokenOf'[s] = tokenOf[s] \/ tokenOf'[s] = 0
        /\ tokenOf' = [s \in 1..n |-> tokenOf'[s]] /\ DOMAIN tokenOf' = 1..n
    BY <1>a, <1>b, <1>c, <1>d, <1>e, <1>f, <1>18 DEF TicketsAreRead
  <2>2. /\ \A s \in 1..n : tokenOf'[s] \in Nat /\ tokenOf'[s] <= token
        /\ \A s \in revoked : tokenOf'[s] = 0
    BY <1>b, <1>c, <1>d, <2>1
  <2> QED BY <1>a, <1>b, <1>c, <1>d, <1>e, <1>f, <1>3, <1>18, <2>1, <2>2 DEF TicketsAreRead
<1>19. CASE PushFails
  <2> HIDE DEF Regs
  <2> QED BY <1>a, <1>b, <1>c, <1>d, <1>e, <1>f, <1>2, <1>19 DEF PushFails
<1>20. CASE UNCHANGED pushVars
  BY <1>20 DEF pushVars, PushShapes
<1> QED
  BY <1>4, <1>6, <1>7, <1>8, <1>9, <1>10, <1>11, <1>12, <1>13, <1>14, <1>15, <1>16, <1>17,
     <1>18, <1>19, <1>20 DEF PushNext

LEMMA PushRegsStep == PushShapes /\ PushRegs /\ [PushNext]_pushVars => PushRegs'
<1> SUFFICES ASSUME PushShapes, PushRegs, [PushNext]_pushVars PROVE PushRegs'
  OBVIOUS
<1> DEFINE n == Len(tokenOf)
<1>a. /\ n \in Nat /\ Signed = 1..n /\ tokenOf \in Seq(Nat) /\ DOMAIN tokenOf = 1..n
      /\ n = Len(tokenOf) /\ token \in Nat \ {0} /\ device \in 0..n
      /\ \A r \in regs : r.sid \in 0..n
      /\ regs \subseteq [stage : Stages, sid : 0..n, tok : 1..token]
  BY SignedAre, PushAssumption DEF PushShapes
<1> HIDE DEF n
\* The phone is signed in as before; at most the registration x is new or changed.
<1>1. ASSUME NEW x,
             UNCHANGED <<device, token>>, Signed' = Signed, belated \subseteq belated',
             \A s \in Signed : tokenOf'[s] = token /\ s # device =>
                tokenOf[s] = token \/ s \in belated',
             regs' \subseteq regs \cup {x},
             x.stage = "asking" => x.tok = token /\ x.sid = 0,
             x.stage # "asking" => x.sid # 0,
             x.sid = device => x.tok = token,
             x.stage = "cleared" /\ x.sid = device =>
               \A s \in Signed : tokenOf'[s] = token /\ s # device => s \in belated'
      PROVE  PushRegs'
  BY <1>1 DEF PushRegs
<1>2. ASSUME UNCHANGED <<device, token>>, Signed' = Signed, belated \subseteq belated',
             \A s \in Signed : tokenOf'[s] = token /\ s # device =>
                tokenOf[s] = token \/ s \in belated',
             regs' \subseteq regs
      PROVE  PushRegs'
  BY <1>2 DEF PushRegs
\* The phone is signed out, or in as nobody was before.
<1>3. ASSUME device' \notin 1..n, UNCHANGED token,
             regs' \subseteq regs \cup {[stage |-> "asking", sid |-> 0, tok |-> token]}
      PROVE  PushRegs'
  BY <1>a, <1>3 DEF PushRegs
<1>4. CASE PhoneSignsIn
  <2>1. device' = n + 1
    BY <1>a, <1>4 DEF PhoneSignsIn
  <2>2. device' \notin 1..n
    BY <1>a, <2>1
  <2> QED BY <1>3, <1>4, <2>2 DEF PhoneSignsIn, AsksToRegister, Asking
<1>5. CASE PhoneSignsOut \/ PhoneSignsOutUnheard \/ PhoneHears
  <2>1. device' \notin 1..n
    BY <1>a, <1>5 DEF PhoneSignsOut, PhoneSignsOutUnheard, PhoneHears
  <2> QED BY <1>3, <1>5, <2>1 DEF PhoneSignsOut, PhoneSignsOutUnheard, PhoneHears
<1>6. ASSUME NEW s \in Signed, SessionGoes(s) PROVE PushRegs'
  <2>1. tokenOf' = [tokenOf EXCEPT ![s] = 0]
    BY <1>6 DEF SessionGoes, Revokes
  <2>2. Signed' = Signed /\ \A x \in Signed : tokenOf'[x] = token => tokenOf[x] = token
    BY <1>a, <2>1 DEF Signed
  <2> QED BY <1>2, <1>6, <2>2 DEF SessionGoes
<1>7. CASE AppStarts
  <2> DEFINE x == [stage |-> "asking", sid |-> 0, tok |-> token]
  <2>1. regs' \subseteq regs \cup {x} /\ UNCHANGED <<device, token, tokenOf, belated>>
    BY <1>7 DEF AppStarts, Asking
  <2>2. Signed' = Signed
    BY <2>1 DEF Signed
  <2> QED BY <1>1, <2>1, <2>2
<1>8. CASE AppReinstalled
  <2>1. device' = 0 /\ regs' = {r \in regs : r.stage # "asking"}
    BY <1>8 DEF AppReinstalled
  <2> QED BY <2>1 DEF PushRegs
<1>9. ASSUME NEW r \in regs, RegisterPosts(r) PROVE PushRegs'
  <2>1. UNCHANGED <<device, token, tokenOf, belated>> /\ Signed' = Signed
    BY <1>9 DEF RegisterPosts, Signed
  <2>2. CASE device = 0
    BY <1>2, <1>9, <2>1, <2>2 DEF RegisterPosts
  <2>3. CASE device # 0
    <3> DEFINE x == [r EXCEPT !.stage = "posted", !.sid = device]
    <3>1. x.stage = "posted" /\ x.sid = device /\ x.tok = r.tok /\ r.tok = token
      BY <1>a, <1>9 DEF RegisterPosts, PushRegs
    <3>2. regs' \subseteq regs \cup {x}
      BY <1>9, <2>3 DEF RegisterPosts
    <3> HIDE DEF x
    <3> QED BY <1>1, <2>1, <2>3, <3>1, <3>2
  <2> QED BY <2>2, <2>3
<1>10. ASSUME NEW r \in regs, RegisterFails(r) PROVE PushRegs'
  <2>1. Signed' = Signed
    BY <1>10 DEF RegisterFails, Signed
  <2> QED BY <1>2, <1>10, <2>1 DEF RegisterFails
<1>11. ASSUME NEW r \in regs, RegisterChecks(r) PROVE PushRegs'
  <2> DEFINE x == [r EXCEPT !.stage = "checked"]
  <2>1. UNCHANGED <<device, token, tokenOf, belated>> /\ Signed' = Signed
    BY <1>11 DEF RegisterChecks, Signed
  <2>2. /\ x.stage = "checked" /\ x.sid = r.sid /\ x.tok = r.tok
        /\ r.sid # 0 /\ (r.sid = device => r.tok = token)
    BY <1>a, <1>11 DEF RegisterChecks, PushRegs
  <2>3. regs' \subseteq regs \cup {x}
    BY <1>11 DEF RegisterChecks
  <2> HIDE DEF x
  <2> QED BY <1>1, <2>1, <2>2, <2>3
<1>12. ASSUME NEW r \in regs, RegisterClears(r) PROVE PushRegs'
  <2> DEFINE x == [r EXCEPT !.stage = "cleared"]
  <2>1. /\ tokenOf' = [s \in Signed |-> IF s # r.sid /\ tokenOf[s] = r.tok THEN 0 ELSE tokenOf[s]]
        /\ regs' \subseteq regs \cup {x} /\ UNCHANGED <<device, token>>
        /\ belated \subseteq belated'
    BY <1>12 DEF RegisterClears, Belated
  <2>2. /\ x.stage = "cleared" /\ x.sid = r.sid /\ x.tok = r.tok
        /\ r.sid # 0 /\ (r.sid = device => r.tok = token)
    BY <1>a, <1>12 DEF RegisterClears, PushRegs
  <2>3. Signed' = Signed
    BY <2>1 DEF Signed
  <2>4. \A s \in Signed : tokenOf'[s] = token => tokenOf[s] = token
    BY <1>a, <2>1
  <2>5. r.sid = device => \A s \in Signed : ~(tokenOf'[s] = token /\ s # device)
    BY <1>a, <2>1, <2>2
  <2> HIDE DEF x
  <2> QED BY <1>1, <2>1, <2>2, <2>3, <2>4, <2>5
<1>13. ASSUME NEW r \in regs, RegisterSets(r) PROVE PushRegs'
  <2>1. tokenOf' = [tokenOf EXCEPT ![r.sid] = r.tok] \/ tokenOf' = tokenOf
    BY <1>13 DEF RegisterSets
  <2>2. /\ UNCHANGED <<device, token>> /\ belated \subseteq belated' /\ regs' \subseteq regs
        /\ r.sid # device => r.sid \in belated'
    BY <1>13 DEF RegisterSets, Belated
  <2>3. Signed' = Signed /\ \A s \in Signed : s # r.sid => tokenOf'[s] = tokenOf[s]
    BY <1>a, <2>1 DEF Signed
  <2> QED BY <1>2, <2>2, <2>3
<1>14. CASE PushIsSent \/ PushFails \/ UNCHANGED pushVars
  <2>1. UNCHANGED <<device, token, tokenOf, belated, regs>>
    BY <1>14 DEF PushIsSent, PushFails, pushVars
  <2>2. Signed' = Signed
    BY <2>1 DEF Signed
  <2> QED BY <1>2, <2>1, <2>2
<1>15. CASE TicketsAreRead
  <2>1. Signed' = Signed /\ \A s \in Signed : tokenOf'[s] = token => tokenOf[s] = token
    BY <1>a, <1>15 DEF TicketsAreRead, Signed
  <2> QED BY <1>2, <1>15, <2>1 DEF TicketsAreRead
<1> QED
  BY <1>4, <1>5, <1>6, <1>7, <1>8, <1>9, <1>10, <1>11, <1>12, <1>13, <1>14, <1>15 DEF PushNext

LEMMA PushLeftStep == PushShapes /\ PushRegs /\ PushLeft /\ [PushNext]_pushVars => PushLeft'
<1> SUFFICES ASSUME PushShapes, PushRegs, PushLeft, [PushNext]_pushVars PROVE PushLeft'
  OBVIOUS
<1>1. Signed = 1..Len(tokenOf) /\ Len(tokenOf) \in Nat /\ tokenOf \in Seq(Nat)
  BY SignedAre DEF PushShapes
<1>2. ASSUME Signed' = Signed, revoked \subseteq revoked', unheard \subseteq unheard',
             device' = device \/ device \in revoked' \cup unheard' \cup {0}, 0 \notin Signed
      PROVE  PushLeft'
  BY <1>2 DEF PushLeft
<1>3. 0 \notin Signed
  BY <1>1
<1>4. CASE PhoneSignsIn
  <2>1. tokenOf' = Append(tokenOf, 0) /\ device' = Len(tokenOf') /\ device = 0
        /\ UNCHANGED <<revoked, unheard>>
    BY <1>4 DEF PhoneSignsIn
  <2>2. tokenOf' \in Seq(Nat) /\ Len(tokenOf') = Len(tokenOf) + 1
    BY <1>1, <2>1
  <2>3. Signed' = 1..(Len(tokenOf) + 1)
    BY <2>2 DEF Signed
  <2>4. \A s \in Signed' : s \in Signed \/ s = device'
    BY <1>1, <2>1, <2>2, <2>3
  <2> QED BY <1>3, <2>1, <2>4 DEF PushLeft
<1>5. CASE PhoneSignsOut \/ \E s \in Signed : SessionGoes(s)
  <2>1. PICK s : Revokes(s) /\ (device' = device \/ s = device) /\ unheard' = unheard
    BY <1>5 DEF PhoneSignsOut, SessionGoes
  <2>2. Signed' = Signed /\ revoked' = revoked \cup {s}
    BY <1>1, <2>1 DEF Revokes, Signed
  <2> QED BY <1>2, <1>3, <2>1, <2>2
<1>6. CASE PhoneSignsOutUnheard \/ PhoneHears \/ AppStarts \/ AppReinstalled \/ PushIsSent
           \/ PushFails \/ UNCHANGED pushVars
  <2>1. /\ tokenOf' = tokenOf /\ revoked' = revoked /\ unheard \subseteq unheard'
        /\ device' = device \/ device \in revoked' \cup unheard' \cup {0}
    BY <1>6 DEF PhoneSignsOutUnheard, PhoneHears, AppStarts, AppReinstalled, PushIsSent, PushFails,
       pushVars
  <2>2. Signed' = Signed
    BY <2>1 DEF Signed
  <2> QED BY <1>2, <1>3, <2>1, <2>2
<1>7. ASSUME \/ \E r \in regs : \/ RegisterPosts(r) \/ RegisterFails(r) \/ RegisterChecks(r)
                                \/ RegisterClears(r) \/ RegisterSets(r)
             \/ TicketsAreRead
      PROVE  PushLeft'
  <2>1. /\ DOMAIN tokenOf' = Signed
        /\ UNCHANGED <<revoked, unheard, device>>
    BY <1>1, <1>7 DEF RegisterPosts, RegisterFails, RegisterChecks, RegisterClears, RegisterSets,
       TicketsAreRead, Signed
  <2> QED BY <1>2, <1>3, <2>1 DEF Signed
<1> QED BY <1>4, <1>5, <1>6, <1>7 DEF PushNext

LEMMA PushFollowsStep ==
    PushShapes /\ PushRegs /\ PushLeft /\ PushesFollowTheUser /\ [PushNext]_pushVars
      => PushesFollowTheUser'
<1> SUFFICES ASSUME PushShapes, PushRegs, PushLeft, PushesFollowTheUser, [PushNext]_pushVars
             PROVE  PushesFollowTheUser'
  OBVIOUS
<1> USE DEF PushesFollowTheUser
<1> DEFINE n == Len(tokenOf)
<1>a. /\ n \in Nat /\ Signed = 1..n /\ tokenOf \in Seq(Nat) /\ DOMAIN tokenOf = 1..n
      /\ n = Len(tokenOf) /\ token \in Nat \ {0} /\ device \in 0..n /\ 0 \notin Signed
      /\ \A r \in regs : r.sid \in 0..n
      /\ \A s \in Signed : tokenOf[s] \in Nat /\ tokenOf[s] <= token
      /\ enrolled \in BOOLEAN
  BY SignedAre, PushAssumption DEF PushShapes
<1> HIDE DEF n
\* No session of the phone gets the token, and the one signed in keeps it.
<1>1. ASSUME UNCHANGED <<device, token, enrolled, unheard>>, Signed' = Signed,
             belated \subseteq belated', revoked \subseteq revoked',
             \A s \in Signed : tokenOf'[s] = token => tokenOf[s] = token,
             belated' = {} => tokenOf'[device] = tokenOf[device] \/ device \in revoked'
      PROVE  PushesFollowTheUser'
  BY <1>a, <1>1 DEF Rowed
\* Nobody is signed in, or somebody who has not registered.
<1>2. ASSUME enrolled' = FALSE,
             \A s \in Signed' : tokenOf'[s] = token' /\ s # device' => s \in unheard'
      PROVE  PushesFollowTheUser'
  BY <1>2
<1>3. CASE PhoneSignsIn
  <2>1. tokenOf' = Append(tokenOf, 0) /\ device' = Len(tokenOf') /\ device = 0
        /\ enrolled' = FALSE /\ UNCHANGED <<token, unheard>>
    BY <1>3 DEF PhoneSignsIn
  <2>2. /\ tokenOf' \in Seq(Nat) /\ Len(tokenOf') = n + 1
        /\ \A s \in 1..n : tokenOf'[s] = tokenOf[s]
    BY <1>a, <2>1
  <2>3. Signed' = 1..(n + 1)
    BY <2>2 DEF Signed
  <2>4. \A s \in Signed' : s \in Signed \/ s = device'
    BY <1>a, <2>1, <2>2, <2>3
  <2>5. \A s \in Signed' : tokenOf'[s] = token' /\ s # device' => s \in unheard'
    BY <1>a, <2>1, <2>2, <2>4
  <2> QED BY <1>2, <2>1, <2>5
<1>4. CASE PhoneSignsOut
  <2>1. /\ device # 0 /\ tokenOf' = [tokenOf EXCEPT ![device] = 0] /\ UNCHANGED <<token, unheard>>
        /\ enrolled' = FALSE
    BY <1>4 DEF PhoneSignsOut, Revokes
  <2>2. Signed' = Signed
        /\ \A s \in Signed : tokenOf'[s] = token => tokenOf[s] = token /\ s # device
    BY <1>a, <2>1 DEF Signed
  <2> QED BY <1>2, <2>1, <2>2
<1>5. CASE PhoneSignsOutUnheard
  BY <1>2, <1>5 DEF PhoneSignsOutUnheard, Signed
<1>6. CASE PhoneHears
  <2>1. /\ device \in revoked /\ UNCHANGED <<tokenOf, token, unheard>> /\ enrolled' = FALSE
    BY <1>6 DEF PhoneHears
  <2>2. tokenOf[device] # token
    BY <1>a, <2>1 DEF PushShapes
  <2> QED BY <1>2, <2>1, <2>2 DEF Signed
<1>7. ASSUME NEW s \in Signed, SessionGoes(s) PROVE PushesFollowTheUser'
  <2>1. tokenOf' = [tokenOf EXCEPT ![s] = 0] /\ revoked' = revoked \cup {s}
    BY <1>7 DEF SessionGoes, Revokes
  <2>2. Signed' = Signed /\ \A x \in Signed : /\ tokenOf'[x] = token => tokenOf[x] = token
                                              /\ x # s => tokenOf'[x] = tokenOf[x]
    BY <1>a, <2>1 DEF Signed
  <2>3. tokenOf'[device] = tokenOf[device] \/ device \in revoked'
    BY <1>a, <2>1
  <2> QED BY <1>1, <1>7, <2>1, <2>2, <2>3 DEF SessionGoes
<1>8. CASE AppStarts \/ PushIsSent \/ PushFails \/ UNCHANGED pushVars
  <2>1. UNCHANGED <<device, token, tokenOf, belated, unheard, revoked, enrolled>>
    BY <1>8 DEF AppStarts, PushIsSent, PushFails, pushVars
  <2> QED BY <2>1 DEF Signed, Rowed
<1>9. CASE AppReinstalled
  <2>1. token' = token + 1 /\ tokenOf' = tokenOf /\ enrolled' = FALSE
    BY <1>9 DEF AppReinstalled
  <2>2. \A s \in Signed : tokenOf[s] # token'
    BY <1>a, <2>1
  <2>3. Signed' = Signed
    BY <2>1 DEF Signed
  <2> QED BY <1>2, <2>1, <2>2, <2>3
<1>10. ASSUME NEW r \in regs, RegisterPosts(r) \/ RegisterFails(r) \/ RegisterChecks(r)
       PROVE  PushesFollowTheUser'
  <2>1. UNCHANGED <<device, token, tokenOf, belated, unheard, revoked, enrolled>>
    BY <1>10 DEF RegisterPosts, RegisterFails, RegisterChecks
  <2> QED BY <2>1 DEF Signed, Rowed
<1>11. ASSUME NEW r \in regs, RegisterClears(r) PROVE PushesFollowTheUser'
  <2>1. /\ tokenOf' = [s \in Signed |-> IF s # r.sid /\ tokenOf[s] = r.tok THEN 0 ELSE tokenOf[s]]
        /\ UNCHANGED <<device, token, revoked, unheard, enrolled>>
        /\ belated' = IF r.sid = device THEN belated ELSE belated \cup {r.sid}
    BY <1>11 DEF RegisterClears, Belated
  <2>2. Signed' = Signed
    BY <2>1 DEF Signed
  <2>3. \A s \in Signed : tokenOf'[s] = token => tokenOf[s] = token
    BY <1>a, <2>1
  <2>4. CASE device = 0
    <3>1. ~Rowed(device)'
      BY <1>a, <2>1, <2>2, <2>4 DEF Rowed
    <3>2. belated \subseteq belated'
      BY <2>1
    <3> QED BY <2>1, <2>2, <2>3, <3>1, <3>2
  <2>5. CASE device # 0
    <3>1. device \in Signed
      BY <1>a, <2>5
    <3>2. belated' = {} => tokenOf'[device] = tokenOf[device]
      BY <2>1, <3>1
    <3> QED BY <1>1, <2>1, <2>2, <2>3, <3>2
  <2> QED BY <2>4, <2>5
<1>12. ASSUME NEW r \in regs, RegisterSets(r) PROVE PushesFollowTheUser'
  <2>1. /\ tokenOf' = IF Rowed(r.sid) THEN [tokenOf EXCEPT ![r.sid] = r.tok] ELSE tokenOf
        /\ UNCHANGED <<device, token, revoked, unheard>>
        /\ belated' = IF r.sid = device THEN belated ELSE belated \cup {r.sid}
        /\ enrolled' = (enrolled \/ (r.sid = device /\ r.tok = token))
        /\ r.stage = "cleared" /\ r.sid # 0
    BY <1>12 DEF RegisterSets, Belated, PushRegs
  <2>2. /\ Signed' = Signed /\ belated \subseteq belated'
        /\ \A s \in Signed : s # r.sid => tokenOf'[s] = tokenOf[s]
        /\ Rowed(device)' <=> Rowed(device)
    BY <1>a, <2>1 DEF Signed, Rowed
  <2>3. CASE r.sid # device
    <3>1. r.sid \in belated' /\ (Rowed(r.sid) => r.sid \in unheard) /\ enrolled' = enrolled
      BY <1>a, <2>1, <2>3 DEF Rowed, PushLeft
    <3>2. CASE Rowed(r.sid)
      BY <2>1, <2>2, <3>1, <3>2
    <3>3. CASE ~Rowed(r.sid)
      BY <2>1, <2>2, <3>1, <3>3
    <3> QED BY <3>2, <3>3
  <2>4. CASE r.sid = device
    <3>1. /\ r.tok = token /\ enrolled' = TRUE /\ belated' = belated
          /\ \A s \in Signed : tokenOf[s] = token /\ s # device => s \in belated
      BY <2>1, <2>4 DEF PushRegs
    <3>2. Rowed(device) => tokenOf'[device] = token
      BY <1>a, <2>1, <2>4, <3>1 DEF Rowed
    <3> QED BY <2>1, <2>2, <2>4, <3>1, <3>2
  <2> QED BY <2>3, <2>4
<1>13. CASE TicketsAreRead
  <2>1. /\ tokenOf' = [s \in Signed |-> IF tokenOf[s] \in push.to \ {token} THEN 0 ELSE tokenOf[s]]
        /\ UNCHANGED <<device, token, revoked, unheard, belated, enrolled>>
    BY <1>13 DEF TicketsAreRead
  <2>2. Signed' = Signed /\ \A s \in Signed : (tokenOf'[s] = token) <=> (tokenOf[s] = token)
    BY <1>a, <2>1 DEF Signed
  <2> QED BY <2>1, <2>2 DEF Rowed
<1> QED
  BY <1>3, <1>4, <1>5, <1>6, <1>7, <1>8, <1>9, <1>10, <1>11, <1>12, <1>13 DEF PushNext

\* One registration in the place of another.
\* One element of a finite set replaced.
LEMMA Replaced ==
    ASSUME NEW S, IsFiniteSet(S), NEW r \in S, NEW x
    PROVE  LET T == (S \ {r}) \cup {x}
           IN  IsFiniteSet(T) /\ Cardinality(T) \in Nat /\ Cardinality(T) <= Cardinality(S)
<1> DEFINE U == S \ {r}
<1>1. IsFiniteSet(U) /\ Cardinality(U) = Cardinality(S) - 1 /\ Cardinality(S) \in Nat
  BY FS_RemoveElement, FS_CardinalityType
<1>2. Cardinality(U) \in Nat
  BY <1>1, FS_CardinalityType
<1> HIDE DEF U
<1>3. /\ IsFiniteSet(U \cup {x})
      /\ Cardinality(U \cup {x}) = IF x \in U THEN Cardinality(U) ELSE Cardinality(U) + 1
  BY <1>1, FS_AddElement
<1>4. IsFiniteSet(U \cup {x}) /\ Cardinality(U \cup {x}) \in Nat
      /\ Cardinality(U \cup {x}) <= Cardinality(S)
  BY <1>1, <1>2, <1>3
<1> QED BY <1>4 DEF U

LEMMA PushFewStep == PushShapes /\ PushFew /\ [PushNext]_pushVars => PushFew'
<1> SUFFICES ASSUME PushShapes, PushFew, [PushNext]_pushVars PROVE PushFew'
  OBVIOUS
<1>1. IsFiniteSet(regs) /\ Cardinality(regs) \in Nat /\ Cardinality(regs) <= MaxRegs
      /\ MaxRegs \in Nat
  BY FS_CardinalityType, PushAssumption DEF PushFew
<1>2. ASSUME regs' \subseteq regs PROVE PushFew'
  <2>1. IsFiniteSet(regs') /\ Cardinality(regs') <= Cardinality(regs) /\ Cardinality(regs') \in Nat
    BY <1>1, <1>2, FS_Subset, FS_CardinalityType
  <2> QED BY <1>1, <2>1 DEF PushFew
<1>3. ASSUME NEW r \in regs, NEW x, regs' = (regs \ {r}) \cup {x} PROVE PushFew'
  <2>1. IsFiniteSet(regs') /\ Cardinality(regs') <= Cardinality(regs) /\ Cardinality(regs') \in Nat
    BY <1>1, <1>3, Replaced
  <2> QED BY <1>1, <2>1 DEF PushFew
<1>4. ASSUME NEW S \in SUBSET regs, NEW x, regs' = S \cup {x}, Cardinality(regs') <= MaxRegs
      PROVE  PushFew'
  <2>1. IsFiniteSet(S)
    BY <1>1, FS_Subset
  <2>2. IsFiniteSet(S \cup {x})
    BY <2>1, FS_AddElement
  <2> QED BY <1>4, <2>2 DEF PushFew
<1>5. CASE PhoneSignsIn
  BY <1>4, <1>5 DEF PhoneSignsIn, AsksToRegister
<1>6. CASE AppStarts
  BY <1>4, <1>6 DEF AppStarts
<1>7. ASSUME NEW r \in regs, RegisterPosts(r) PROVE PushFew'
  BY <1>2, <1>3, <1>7 DEF RegisterPosts
<1>8. ASSUME NEW r \in regs, RegisterChecks(r) \/ RegisterClears(r) PROVE PushFew'
  BY <1>3, <1>8 DEF RegisterChecks, RegisterClears
<1>9. ASSUME \/ PhoneSignsOut \/ PhoneSignsOutUnheard \/ PhoneHears \/ AppReinstalled
             \/ \E s \in Signed : SessionGoes(s)
             \/ \E r \in regs : RegisterFails(r) \/ RegisterSets(r)
             \/ PushIsSent \/ TicketsAreRead \/ PushFails \/ UNCHANGED pushVars
      PROVE  PushFew'
  <2>1. regs' \subseteq regs
    BY <1>9 DEF PhoneSignsOut, PhoneSignsOutUnheard, PhoneHears, AppReinstalled, SessionGoes,
       RegisterFails, RegisterSets, PushIsSent, TicketsAreRead, PushFails, pushVars
  <2> QED BY <1>2, <2>1
<1> QED BY <1>5, <1>6, <1>7, <1>8, <1>9 DEF PushNext

LEMMA PushHolds == PushSpec => [](PushShapes /\ PushRegs /\ PushFew)
<1>1. PushInit => PushShapes /\ PushRegs /\ PushFew
  <2> SUFFICES ASSUME PushInit PROVE PushShapes /\ PushRegs /\ PushFew
    OBVIOUS
  <2>1. tokenOf \in Seq(Nat) /\ Len(tokenOf) = 0
    BY DEF PushInit
  <2>2. 1 \in 1..MaxInstalls /\ MaxSignIns \in Nat /\ MaxRegs \in Nat
    BY PushAssumption
  <2>3. PushShapes
    <3>1. /\ revoked = {} /\ unheard = {} /\ belated = {} /\ regs = {} /\ enrolled = FALSE
          /\ device = 0 /\ token = 1 /\ push = [sent |-> FALSE, to |-> {}]
      BY DEF PushInit, NoPush
    <3>2. push \in [sent : BOOLEAN, to : SUBSET (1..token)]
      BY <3>1
    <3>3. 0 \in 0..Len(tokenOf) /\ Len(tokenOf) <= MaxSignIns
          /\ \A s \in 1..Len(tokenOf) : tokenOf[s] <= token
      BY <2>1, <2>2
    <3> QED BY <2>1, <2>2, <3>1, <3>2, <3>3 DEF PushShapes
  <2>4. PushRegs
    BY DEF PushInit, PushRegs
  <2>5. PushFew
    BY <2>2, FS_EmptySet DEF PushInit, PushFew
  <2> QED BY <2>3, <2>4, <2>5
<1> QED BY <1>1, PushShapesStep, PushRegsStep, PushFewStep, PTL DEF PushSpec

(***************************************************************************)
(* The rows, registrations and tickets of a phone have their types and     *)
(* bounds, whatever sign-ins, installs and registrations there are.        *)
(***************************************************************************)
THEOREM PushTypeCorrect == PushSpec => []PushTypeOK
<1>1. PushShapes /\ PushFew => PushTypeOK
  <2> SUFFICES ASSUME PushShapes, PushFew PROVE PushTypeOK
    OBVIOUS
  <2> DEFINE n == Len(tokenOf)
  <2>1. n \in Nat /\ Signed = 1..n /\ DOMAIN tokenOf = 1..n
    BY SignedAre DEF PushShapes
  <2>2. token \in Nat /\ token \in 1..MaxInstalls /\ 1..token \subseteq 1..MaxInstalls
        /\ 1..token \subseteq Tokens0 /\ 0..token \subseteq Tokens0
    BY PushAssumption DEF PushShapes, Tokens0
  <2>3. \A s \in 1..n : tokenOf[s] \in Tokens0
    <3> SUFFICES ASSUME NEW s \in 1..n PROVE tokenOf[s] \in Tokens0
      OBVIOUS
    <3>1. tokenOf[s] \in Nat /\ tokenOf[s] <= token
      BY DEF PushShapes
    <3> QED BY <2>2, <3>1
  <2>4. tokenOf \in Seq(Tokens0)
    <3>1. tokenOf = [s \in 1..n |-> tokenOf[s]]
      BY DEF PushShapes
    <3> QED BY <2>1, <2>3, <3>1, IsASeq
  <2>5. 0..n = Signed \cup {0}
    BY <2>1
  <2>6. regs \subseteq [stage : {"asking", "posted", "checked", "cleared"}, sid : Signed \cup {0},
                        tok : Tokens0]
    BY <2>2, <2>5 DEF PushShapes, Stages
  <2>7. push \in [sent : BOOLEAN, to : SUBSET (1..MaxInstalls)]
    BY <2>2 DEF PushShapes
  <2> QED BY <2>1, <2>2, <2>4, <2>5, <2>6, <2>7 DEF PushTypeOK, PushShapes, PushFew
<1> QED BY <1>1, PushHolds, PTL

(***************************************************************************)
(* "A device belongs to the account signed in on it now": the phone gets   *)
(* the pushes of the session it is signed in with, once registered, and of *)
(* no other, with the exceptions PushesFollowTheUser names.                *)
(***************************************************************************)
THEOREM PushFollowsTheUser == PushSpec => []PushesFollowTheUser
<1>1. PushInit => PushLeft /\ PushesFollowTheUser
  BY DEF PushInit, PushLeft, PushesFollowTheUser, Signed
<1> QED BY <1>1, PushHolds, PushLeftStep, PushFollowsStep, PTL DEF PushSpec

-----------------------------------------------------------------------------
(* Verification *)

AnyRead ==
    [view : {"chat", "screen", "gone"}, id : 0..MaxIdentities,
     got : {"trust", "unread", "identity", "number"}, trust : {"unread", "verified", "plain"},
     ack : BOOLEAN]
VerifyShapes ==
    /\ contact \in Identities
    /\ row \in [id : 0..MaxIdentities, verified : BOOLEAN, needsAck : BOOLEAN]
    /\ cached \in 0..MaxIdentities /\ due \in BOOLEAN
    /\ mark \in {NoMark} \cup
                [stage : {"asked", "written"}, as : {"verified", "cleared", "acknowledged"}]
    /\ screen \in [open : BOOLEAN, number : 0..MaxIdentities, verified : BOOLEAN]
    /\ ~screen.open => screen = Closed
    /\ chat \in [verified : BOOLEAN, needsAck : BOOLEAN]
    /\ reads \subseteq AnyRead
    /\ compared \subseteq Identities /\ hasty \in BOOLEAN /\ overlapped \in BOOLEAN
ReadsOfOpen == \A r \in reads : r.view = "screen" => screen.open
VerifyFew == IsFiniteSet(reads) /\ Cardinality(reads) <= MaxReads

\* While nothing is known of the contact, nothing is shown or marked.
Unknown ==
    row.id = 0 =>
      /\ ~row.verified /\ ~row.needsAck /\ cached = 0 /\ screen.number = 0
      /\ mark = NoMark /\ ~chat.needsAck /\ ~due
      /\ \A r \in reads : r.id = 0 /\ ~r.ack

\* Outside of an announcement that overlapped a read, every number there is, is of the
\* row, or a read for the screen is under way.
Numbers ==
    ~due /\ ~overlapped =>
      /\ cached \in {0, row.id}
      /\ \A r \in reads : r.id \in {0, row.id}
      /\ screen.number \in {0, row.id} \/ \E r \in reads : r.view = "screen"

\* The same for the shield: what is read or shown of it is so, or is being read again.
Shields ==
    ~due /\ mark.stage # "written" /\ ~overlapped =>
      /\ \A r \in reads : r.trust = "verified" => row.verified
      /\ chat.verified /\ ~row.verified => \E r \in reads : r.view = "chat"
      /\ screen.verified /\ ~row.verified => \E r \in reads : r.view = "screen"

\* The user has compared what is marked verified, or is about to be.
Comparison ==
    row.verified \/ (mark.stage = "asked" /\ mark.as = "verified") =>
      row.id \in compared \/ hasty \/ (overlapped /\ ~due)

LEMMA VerifyBounds ==
    /\ MaxIdentities \in Nat \ {0} /\ MaxReads \in Nat
    /\ 0 \in 0..MaxIdentities /\ 1 \in Identities /\ Identities \subseteq 0..MaxIdentities
BY VerificationAssumption DEF Identities

LEMMA NewReads == ChatRead \in AnyRead /\ NumberRead \in AnyRead
BY VerifyBounds DEF ChatRead, NumberRead, AnyRead

\* What the steps of a read make of it.
LEMMA GoneRead ==
    ASSUME NEW r \in AnyRead
    PROVE  /\ [r EXCEPT !.view = "gone", !.trust = "plain"] \in AnyRead
           /\ [r EXCEPT !.view = "gone", !.trust = "plain"].view = "gone"
           /\ [r EXCEPT !.view = "gone", !.trust = "plain"].trust = "plain"
           /\ [r EXCEPT !.view = "gone", !.trust = "plain"].id = r.id
           /\ [r EXCEPT !.view = "gone", !.trust = "plain"].ack = r.ack
BY DEF AnyRead

LEMMA TrustRead ==
    ASSUME NEW r \in AnyRead, ReadsTrust(r), VerifyShapes
    PROVE  \E x \in AnyRead :
             /\ reads' = (reads \ {r}) \cup {x}
             /\ x.view = r.view /\ x.id = r.id /\ x.got = r.got
             /\ x.trust = (IF row.verified THEN "verified" ELSE "plain")
             /\ x.ack => row.needsAck
<1>1. ASSUME NEW t \in {"verified", "plain"}, NEW a \in BOOLEAN
      PROVE  /\ [r EXCEPT !.trust = t, !.ack = a] \in AnyRead
             /\ [r EXCEPT !.trust = t, !.ack = a].view = r.view
             /\ [r EXCEPT !.trust = t, !.ack = a].id = r.id
             /\ [r EXCEPT !.trust = t, !.ack = a].got = r.got
             /\ [r EXCEPT !.trust = t, !.ack = a].trust = t
             /\ [r EXCEPT !.trust = t, !.ack = a].ack = a
  BY <1>1 DEF AnyRead
<1>2. (r.view = "chat" /\ row.needsAck) \in BOOLEAN
      /\ (IF row.verified THEN "verified" ELSE "plain") \in {"verified", "plain"}
  BY DEF VerifyShapes
<1> DEFINE t == IF row.verified THEN "verified" ELSE "plain"
           a == r.view = "chat" /\ row.needsAck
           x == [r EXCEPT !.trust = t, !.ack = a]
<1>3. reads' = (reads \ {r}) \cup {x}
  BY DEF ReadsTrust
<1>4. x \in AnyRead /\ x.view = r.view /\ x.id = r.id /\ x.got = r.got /\ x.trust = t /\ x.ack = a
  BY <1>1, <1>2
<1>5. a => row.needsAck
  OBVIOUS
<1> HIDE DEF x, a
<1>6. x.ack => row.needsAck
  BY <1>4, <1>5
<1> QED BY <1>3, <1>4, <1>6

LEMMA NumberOfRow ==
    ASSUME NEW r \in AnyRead, ReadsNumber(r), VerifyShapes
    PROVE  \E x \in AnyRead :
             /\ reads' = (reads \ {r}) \cup {x}
             /\ x.view = r.view /\ x.trust = r.trust /\ x.ack = r.ack
             /\ x.id \in {r.id, cached, row.id} /\ (row.id = 0 => x.id = r.id)
<1>1. ASSUME NEW k \in 0..MaxIdentities, NEW g \in {"number", "identity"}
      PROVE  /\ [r EXCEPT !.got = g, !.id = k] \in AnyRead
             /\ [r EXCEPT !.got = g, !.id = k].view = r.view
             /\ [r EXCEPT !.got = g, !.id = k].trust = r.trust
             /\ [r EXCEPT !.got = g, !.id = k].ack = r.ack
             /\ [r EXCEPT !.got = g, !.id = k].id = k
  BY <1>1 DEF AnyRead
<1>2. CASE row.id = 0
  <2>1. reads' = (reads \ {r}) \cup {[r EXCEPT !.got = "number"]}
    BY <1>2 DEF ReadsNumber
  <2>2. [r EXCEPT !.got = "number"] \in AnyRead
        /\ [r EXCEPT !.got = "number"].view = r.view
        /\ [r EXCEPT !.got = "number"].trust = r.trust
        /\ [r EXCEPT !.got = "number"].ack = r.ack
        /\ [r EXCEPT !.got = "number"].id = r.id
    BY DEF AnyRead
  <2> QED BY <2>1, <2>2
<1>3. CASE row.id # 0 /\ cached # 0
  <2>1. reads' = (reads \ {r}) \cup {[r EXCEPT !.got = "number", !.id = cached]}
    BY <1>3 DEF ReadsNumber
  <2> QED BY <1>1, <1>3, <2>1 DEF VerifyShapes
<1>4. CASE row.id # 0 /\ cached = 0
  <2>1. reads' = (reads \ {r}) \cup {[r EXCEPT !.got = "identity", !.id = row.id]}
    BY <1>4 DEF ReadsNumber
  <2>2. row.id \in 0..MaxIdentities
    BY DEF VerifyShapes
  <2> QED BY <1>1, <1>4, <2>1, <2>2
<1> QED BY <1>2, <1>3, <1>4

LEMMA NumberComputed ==
    ASSUME NEW r \in AnyRead, ComputesNumber(r)
    PROVE  \E x \in AnyRead :
             /\ reads' = (reads \ {r}) \cup {x}
             /\ x.view = r.view /\ x.trust = r.trust /\ x.ack = r.ack /\ x.id = r.id
<1>1. [r EXCEPT !.got = "number"] \in AnyRead
      /\ [r EXCEPT !.got = "number"].view = r.view
      /\ [r EXCEPT !.got = "number"].trust = r.trust
      /\ [r EXCEPT !.got = "number"].ack = r.ack
      /\ [r EXCEPT !.got = "number"].id = r.id
  BY DEF AnyRead
<1> QED BY <1>1 DEF ComputesNumber

\* The steps of a read, as the invariants see them: one read becomes another of its view.
ReadMoves ==
    \E r \in reads, x \in AnyRead : reads' = (reads \ {r}) \cup {x} /\ x.view = r.view

LEMMA MovesAre ==
    ASSUME VerifyShapes, NEW r \in reads, ReadsTrust(r) \/ ReadsNumber(r) \/ ComputesNumber(r)
    PROVE  ReadMoves
<1>1. r \in AnyRead
  BY DEF VerifyShapes
<1> QED BY <1>1, TrustRead, NumberOfRow, NumberComputed DEF ReadMoves

LEMMA ShownRead ==
    ASSUME VerifyShapes, NEW r \in reads, ReadIsShown(r)
    PROVE  /\ r \in AnyRead /\ reads' = reads \ {r}
           /\ chat' \in [verified : BOOLEAN, needsAck : BOOLEAN]
           /\ screen' \in [open : BOOLEAN, number : 0..MaxIdentities, verified : BOOLEAN]
           /\ screen'.open = screen.open
           /\ r.view = "chat" => /\ chat'.verified = (r.trust = "verified")
                                 /\ chat'.needsAck = r.ack
           /\ r.view # "chat" => chat' = chat
           /\ r.view = "screen" => /\ screen'.number = r.id
                                   /\ screen'.verified = (r.trust = "verified")
           /\ r.view # "screen" => screen' = screen
<1>1. r \in AnyRead
  BY DEF VerifyShapes
<1>2. r.id \in 0..MaxIdentities /\ r.ack \in BOOLEAN /\ (r.trust = "verified") \in BOOLEAN
  BY <1>1 DEF AnyRead
<1>3. ASSUME NEW v \in BOOLEAN
      PROVE  LET s == [screen EXCEPT !.number = r.id, !.verified = v]
             IN  /\ s \in [open : BOOLEAN, number : 0..MaxIdentities, verified : BOOLEAN]
                 /\ s.open = screen.open /\ s.number = r.id /\ s.verified = v
  BY <1>2 DEF VerifyShapes
<1>4. CASE r.view = "screen"
  <2>1. screen' = [screen EXCEPT !.number = r.id, !.verified = (r.trust = "verified")]
        /\ chat' = chat /\ reads' = reads \ {r}
    BY <1>4 DEF ReadIsShown
  <2> QED BY <1>1, <1>2, <1>3, <1>4, <2>1 DEF VerifyShapes
<1>5. CASE r.view = "chat"
  <2>1. chat' = [verified |-> r.trust = "verified", needsAck |-> r.ack]
        /\ screen' = screen /\ reads' = reads \ {r}
    BY <1>5 DEF ReadIsShown
  <2> QED BY <1>1, <1>2, <1>5, <2>1 DEF VerifyShapes
<1>6. CASE r.view \notin {"screen", "chat"}
  <2>1. chat' = chat /\ screen' = screen /\ reads' = reads \ {r}
    BY <1>6 DEF ReadIsShown
  <2> QED BY <1>1, <1>6, <2>1 DEF VerifyShapes
<1> QED BY <1>4, <1>5, <1>6

LEMMA VerifyShapesStep ==
    VerifyShapes /\ ReadsOfOpen /\ [VerifyNext]_verifyVars => VerifyShapes'
<1> SUFFICES ASSUME VerifyShapes, ReadsOfOpen, [VerifyNext]_verifyVars PROVE VerifyShapes'
  OBVIOUS
<1> USE VerifyBounds DEF VerifyShapes
<1>1. CASE ContactReinstalls
  BY <1>1 DEF ContactReinstalls, Identities
<1>2. ASSUME NEW k \in Identities, IdentityIsRecorded(k) PROVE VerifyShapes'
  <2>1. Changed(k) \in [id : 0..MaxIdentities, verified : BOOLEAN, needsAck : BOOLEAN]
    BY DEF Changed
  <2> QED BY <1>2, <2>1 DEF IdentityIsRecorded
<1>3. CASE IdentityIsAnnounced
  BY <1>3, NewReads DEF IdentityIsAnnounced, Announced
<1>4. CASE OpenScreen
  BY <1>4, NewReads DEF OpenScreen, Closed
<1>5. CASE CloseScreen
  <2>1. \A r \in reads : [r EXCEPT !.view = "gone", !.trust = "plain"] \in AnyRead
    BY GoneRead
  <2>2. reads' = {r \in reads : r.view # "screen"}
                 \cup {[r EXCEPT !.view = "gone", !.trust = "plain"] :
                          r \in {x \in reads : x.view = "screen" /\ x.got # "number"}}
    BY <1>5 DEF CloseScreen
  <2>3. reads \subseteq AnyRead
    OBVIOUS
  <2> HIDE DEF VerifyShapes
  <2>4. reads' \subseteq AnyRead
    BY <2>1, <2>2, <2>3
  <2>5. screen' = Closed /\ UNCHANGED <<contact, row, cached, due, mark, chat, compared, hasty,
                                        overlapped>>
    BY <1>5 DEF CloseScreen
  <2>6. Closed \in [open : BOOLEAN, number : 0..MaxIdentities, verified : BOOLEAN]
    BY DEF Closed
  <2> QED BY <2>4, <2>5, <2>6 DEF VerifyShapes
<1>6. ASSUME NEW r \in reads, ReadsTrust(r) PROVE VerifyShapes'
  <2>1. ReadMoves
    BY <1>6, MovesAre
  <2> QED BY <1>6, <2>1 DEF ReadsTrust, ReadMoves
<1>7. ASSUME NEW r \in reads, ReadsNumber(r) PROVE VerifyShapes'
  <2>1. ReadMoves
    BY <1>7, MovesAre
  <2> QED BY <1>7, <2>1 DEF ReadsNumber, ReadMoves
<1>8. ASSUME NEW r \in reads, ComputesNumber(r) PROVE VerifyShapes'
  <2>1. ReadMoves
    BY <1>8, MovesAre
  <2>2. r.id \in 0..MaxIdentities
    BY DEF AnyRead
  <2> QED BY <1>8, <2>1, <2>2 DEF ComputesNumber, ReadMoves
<1>9. ASSUME NEW r \in reads, ReadIsShown(r) PROVE VerifyShapes'
  <2>1. r.view = "screen" => screen.open
    BY DEF ReadsOfOpen
  <2>2. /\ chat' \in [verified : BOOLEAN, needsAck : BOOLEAN]
        /\ screen' \in [open : BOOLEAN, number : 0..MaxIdentities, verified : BOOLEAN]
        /\ ~screen'.open => screen' = Closed
        /\ reads' \subseteq AnyRead
    BY <1>9, <2>1, ShownRead
  <2> QED BY <1>9, <2>2 DEF ReadIsShown
<1>10. CASE MarkVerified
  BY <1>10 DEF MarkVerified
<1>11. CASE ClearVerification
  BY <1>11 DEF ClearVerification
<1>12. CASE AcknowledgeChange
  BY <1>12 DEF AcknowledgeChange
<1>13. CASE MarkIsWritten
  <2>1. mark # NoMark
    BY <1>13 DEF MarkIsWritten, NoMark
  <2>2. mark' \in [stage : {"asked", "written"}, as : {"verified", "cleared", "acknowledged"}]
    BY <1>13, <2>1 DEF MarkIsWritten
  <2>3. ASSUME NEW v \in BOOLEAN
        PROVE  [row EXCEPT !.needsAck = FALSE, !.verified = v]
                 \in [id : 0..MaxIdentities, verified : BOOLEAN, needsAck : BOOLEAN]
    OBVIOUS
  <2>4. row' \in [id : 0..MaxIdentities, verified : BOOLEAN, needsAck : BOOLEAN]
    <3>1. CASE mark.as = "acknowledged"
      BY <1>13, <2>3, <3>1 DEF MarkIsWritten
    <3>2. CASE mark.as # "acknowledged"
      <4>1. (mark.as = "verified") \in BOOLEAN
            /\ row' = [row EXCEPT !.needsAck = FALSE, !.verified = (mark.as = "verified")]
        BY <1>13, <3>2 DEF MarkIsWritten
      <4> QED BY <2>3, <4>1
    <3> QED BY <3>1, <3>2
  <2> QED BY <1>13, <2>2, <2>4 DEF MarkIsWritten
<1>14. CASE MarkIsAnnounced
  BY <1>14, NewReads DEF MarkIsAnnounced, Announced
<1>15. CASE UNCHANGED verifyVars
  BY <1>15 DEF verifyVars
<1> QED
  BY <1>1, <1>2, <1>3, <1>4, <1>5, <1>6, <1>7, <1>8, <1>9, <1>10, <1>11, <1>12, <1>13, <1>14,
     <1>15 DEF VerifyNext

LEMMA ClosedReads ==
    ASSUME VerifyShapes, CloseScreen
    PROVE  /\ screen' = Closed
           /\ \A x \in reads' : /\ x.view # "screen"
                                /\ \E r \in reads : /\ x.id = r.id /\ x.ack = r.ack
                                                    /\ x.trust = "verified" => r.trust = "verified"
           /\ \A r \in reads : r.view = "chat" => r \in reads'
<1>1. reads' = {r \in reads : r.view # "screen"}
               \cup {[r EXCEPT !.view = "gone", !.trust = "plain"] :
                        r \in {x \in reads : x.view = "screen" /\ x.got # "number"}}
      /\ screen' = Closed
  BY DEF CloseScreen
<1>2. \A r \in reads : r \in AnyRead
  BY DEF VerifyShapes
<1>3. ASSUME NEW x \in reads'
      PROVE  /\ x.view # "screen"
             /\ \E r \in reads : /\ x.id = r.id /\ x.ack = r.ack
                                 /\ x.trust = "verified" => r.trust = "verified"
  <2>1. CASE x \in {r \in reads : r.view # "screen"}
    BY <2>1
  <2>2. ASSUME NEW r \in reads, x = [r EXCEPT !.view = "gone", !.trust = "plain"]
        PROVE  x.view # "screen" /\ x.id = r.id /\ x.ack = r.ack /\ x.trust # "verified"
    <3>1. x.view = "gone" /\ x.trust = "plain" /\ x.id = r.id /\ x.ack = r.ack
      BY <1>2, <2>2, GoneRead
    <3> QED BY <3>1
  <2> QED BY <1>1, <1>3, <2>1, <2>2
<1>4. \A r \in reads : r.view = "chat" => r \in reads'
  BY <1>1
<1> QED BY <1>1, <1>3, <1>4

\* An announcement asks for reads that know nothing yet, for each screen that is open.
LEMMA AnnouncedReads ==
    ASSUME VerifyShapes, Announced
    PROVE  /\ \A x \in reads' : \/ x \in reads
                                \/ /\ x.id = 0 /\ x.trust = "unread" /\ ~x.ack
                                   /\ x.view = "screen" => screen.open
           /\ \E x \in reads' : x.view = "chat"
           /\ screen.open => \E x \in reads' : x.view = "screen"
<1>1. reads' = reads \cup {ChatRead} \cup (IF screen.open THEN {NumberRead} ELSE {})
  BY DEF Announced
<1>2. /\ ChatRead.id = 0 /\ ChatRead.trust = "unread" /\ ~ChatRead.ack /\ ChatRead.view = "chat"
      /\ NumberRead.id = 0 /\ NumberRead.trust = "unread" /\ ~NumberRead.ack
      /\ NumberRead.view = "screen"
  BY DEF ChatRead, NumberRead
<1>3. CASE screen.open
  <2>1. reads' = reads \cup {ChatRead, NumberRead}
    BY <1>1, <1>3
  <2> QED BY <1>2, <1>3, <2>1
<1>4. CASE ~screen.open
  <2>1. reads' = reads \cup {ChatRead}
    BY <1>1, <1>4
  <2> QED BY <1>2, <1>4, <2>1
<1> QED BY <1>3, <1>4

LEMMA ReadsOfOpenStep ==
    VerifyShapes /\ ReadsOfOpen /\ [VerifyNext]_verifyVars => ReadsOfOpen'
<1> SUFFICES ASSUME VerifyShapes, ReadsOfOpen, [VerifyNext]_verifyVars PROVE ReadsOfOpen'
  OBVIOUS
<1> USE DEF ReadsOfOpen
<1>1. CASE IdentityIsAnnounced
  BY <1>1, AnnouncedReads DEF IdentityIsAnnounced
<1>2. CASE OpenScreen
  <2>1. screen'.open
    BY <1>2 DEF OpenScreen, Closed
  <2> QED BY <2>1
<1>3. CASE CloseScreen
  BY <1>3, ClosedReads
<1>4. ASSUME NEW r \in reads, ReadsTrust(r) \/ ReadsNumber(r) \/ ComputesNumber(r)
      PROVE  ReadsOfOpen'
  <2>1. ReadMoves /\ screen' = screen
    BY <1>4, MovesAre DEF ReadsTrust, ReadsNumber, ComputesNumber
  <2> QED BY <2>1 DEF ReadMoves
<1>5. ASSUME NEW r \in reads, ReadIsShown(r) PROVE ReadsOfOpen'
  BY <1>5, ShownRead
<1>6. CASE MarkIsAnnounced
  <2>1. screen'.open = screen.open
    BY <1>6 DEF MarkIsAnnounced, VerifyShapes
  <2> QED BY <1>6, <2>1, AnnouncedReads DEF MarkIsAnnounced
<1>7. ASSUME UNCHANGED <<screen, reads>> PROVE ReadsOfOpen'
  BY <1>7
<1> QED
  BY <1>1, <1>2, <1>3, <1>4, <1>5, <1>6, <1>7 DEF VerifyNext, ContactReinstalls,
     IdentityIsRecorded, MarkVerified, ClearVerification, AcknowledgeChange, MarkIsWritten,
     verifyVars

LEMMA UnknownStep ==
    VerifyShapes /\ Unknown /\ [VerifyNext]_verifyVars => Unknown'
<1> SUFFICES ASSUME VerifyShapes, Unknown, [VerifyNext]_verifyVars, row'.id = 0
             PROVE  /\ ~row'.verified /\ ~row'.needsAck /\ cached' = 0 /\ screen'.number = 0
                    /\ mark' = NoMark /\ ~chat'.needsAck /\ ~due'
                    /\ \A r \in reads' : r.id = 0 /\ ~r.ack
  BY DEF Unknown
<1> DEFINE Goal == /\ ~row'.verified /\ ~row'.needsAck /\ cached' = 0 /\ screen'.number = 0
                   /\ mark' = NoMark /\ ~chat'.needsAck /\ ~due'
                   /\ \A r \in reads' : r.id = 0 /\ ~r.ack
<1>1. \/ row = row'
      \/ mark.stage = "asked" /\ row.id = row'.id
      \/ \E k \in Identities : IdentityIsRecorded(k)
  BY DEF VerifyNext, ContactReinstalls, IdentityIsAnnounced, OpenScreen, CloseScreen, ReadsTrust,
         ReadsNumber, ComputesNumber, ReadIsShown, MarkVerified, ClearVerification,
         AcknowledgeChange, MarkIsWritten, MarkIsAnnounced, verifyVars, VerifyShapes
<1>2. ASSUME NEW k \in Identities, IdentityIsRecorded(k) PROVE FALSE
  <2>1. row'.id = k
    BY <1>2 DEF IdentityIsRecorded, Changed, VerifyShapes
  <2> QED BY <2>1, VerifyBounds DEF Identities
<1>3. row.id = 0
  BY <1>1, <1>2
<1>4. /\ ~row.verified /\ ~row.needsAck /\ cached = 0 /\ screen.number = 0
      /\ mark = NoMark /\ ~chat.needsAck /\ ~due
      /\ \A r \in reads : r.id = 0 /\ ~r.ack
  BY <1>3 DEF Unknown
<1>5. row' = row
  BY <1>1, <1>2, <1>4 DEF NoMark
<1>6. CASE OpenScreen
  <2>1. screen'.number = 0
    BY <1>6 DEF OpenScreen, Closed
  <2> QED BY <1>4, <1>5, <1>6, <2>1 DEF OpenScreen, NumberRead
<1>7. CASE CloseScreen
  <2>1. screen'.number = 0
    BY <1>7, ClosedReads DEF Closed
  <2>2. \A x \in reads' : x.id = 0 /\ ~x.ack
    BY <1>4, <1>7, ClosedReads
  <2>3. UNCHANGED <<cached, due, mark, chat>>
    BY <1>7 DEF CloseScreen
  <2> QED BY <1>4, <1>5, <2>1, <2>2, <2>3
<1>8. ASSUME NEW r \in reads, ReadsTrust(r) \/ ReadsNumber(r) \/ ComputesNumber(r) PROVE Goal
  <2>1. r \in AnyRead
    BY DEF VerifyShapes
  <2>2. \E x \in AnyRead : reads' = (reads \ {r}) \cup {x} /\ x.id = 0 /\ ~x.ack
    BY <1>3, <1>4, <1>8, <2>1, TrustRead, NumberOfRow, NumberComputed
  <2>3. cached' = 0 /\ UNCHANGED <<screen, mark, chat, due>>
    BY <1>4, <1>8 DEF ReadsTrust, ReadsNumber, ComputesNumber
  <2> QED BY <1>4, <1>5, <2>2, <2>3
<1>9. ASSUME NEW r \in reads, ReadIsShown(r) PROVE Goal
  <2>1. r.id = 0 /\ ~r.ack
    BY <1>4
  <2>2. screen'.number = 0 /\ ~chat'.needsAck /\ reads' = reads \ {r}
    BY <1>4, <1>9, <2>1, ShownRead
  <2> QED BY <1>4, <1>5, <1>9, <2>2 DEF ReadIsShown
<1>10. CASE MarkVerified
  <2>1. contact = 0
    BY <1>4, <1>10 DEF MarkVerified
  <2> QED BY <2>1, VerifyBounds DEF VerifyShapes, Identities
<1>11. CASE UNCHANGED <<cached, due, mark, screen, chat, reads>>
  BY <1>4, <1>5, <1>11
<1> QED
  BY <1>2, <1>4, <1>6, <1>7, <1>8, <1>9, <1>10, <1>11 DEF VerifyNext, ContactReinstalls,
     IdentityIsAnnounced, ClearVerification, AcknowledgeChange, MarkIsWritten, MarkIsAnnounced,
     verifyVars, NoMark

LEMMA NumbersStep ==
    VerifyShapes /\ Unknown /\ Numbers /\ [VerifyNext]_verifyVars => Numbers'
<1> SUFFICES ASSUME VerifyShapes, Unknown, Numbers, [VerifyNext]_verifyVars,
                    ~due', ~overlapped'
             PROVE  /\ cached' \in {0, row'.id}
                    /\ \A r \in reads' : r.id \in {0, row'.id}
                    /\ screen'.number \in {0, row'.id} \/ \E r \in reads' : r.view = "screen"
  BY DEF Numbers
<1> DEFINE Goal == /\ cached' \in {0, row'.id}
                   /\ \A r \in reads' : r.id \in {0, row'.id}
                   /\ screen'.number \in {0, row'.id} \/ \E r \in reads' : r.view = "screen"
<1>1. ASSUME NEW k \in Identities, IdentityIsRecorded(k) PROVE Goal
  <2>1. row.id = 0
    BY <1>1 DEF IdentityIsRecorded
  <2> QED BY <1>1, <2>1 DEF IdentityIsRecorded, Unknown
<1>2. ASSUME Announced, reads = {}, row'.id = row.id, cached' \in {0, row.id},
             screen'.number = screen.number
      PROVE  Goal
  <2>1. \A x \in reads' : x.id = 0
    BY <1>2, AnnouncedReads
  <2>2. screen.number = 0 \/ \E x \in reads' : x.view = "screen"
    BY <1>2, AnnouncedReads DEF VerifyShapes, Closed
  <2> QED BY <1>2, <2>1, <2>2
<1>3. CASE IdentityIsAnnounced
  BY <1>2, <1>3 DEF IdentityIsAnnounced
<1>4. CASE MarkIsAnnounced
  <2>1. reads = {} /\ ~overlapped /\ ~due /\ row' = row /\ cached' = cached /\ Announced
    BY <1>4 DEF MarkIsAnnounced, VerifyShapes
  <2>2. cached \in {0, row.id}
    BY <2>1 DEF Numbers
  <2>3. screen'.number = screen.number
    BY <1>4 DEF MarkIsAnnounced, VerifyShapes
  <2> QED BY <1>2, <2>1, <2>2, <2>3
<1>5. ASSUME UNCHANGED <<due, overlapped>>
      PROVE  /\ cached \in {0, row.id}
             /\ \A r \in reads : r.id \in {0, row.id}
             /\ screen.number \in {0, row.id} \/ \E r \in reads : r.view = "screen"
  BY <1>5 DEF Numbers
<1>6. CASE OpenScreen
  <2>1. screen'.number = 0 /\ UNCHANGED <<due, overlapped, cached, row>>
        /\ reads' = reads \cup {NumberRead} /\ NumberRead.id = 0
    BY <1>6 DEF OpenScreen, Closed, NumberRead
  <2> QED BY <1>5, <2>1
<1>7. CASE CloseScreen
  <2>1. screen'.number = 0 /\ UNCHANGED <<due, overlapped, cached, row>>
    BY <1>7, ClosedReads DEF CloseScreen, Closed
  <2>2. \A x \in reads' : x.id \in {0, row.id}
    BY <1>5, <1>7, <2>1, ClosedReads
  <2> QED BY <1>5, <2>1, <2>2
<1>8. ASSUME NEW r \in reads, ReadsTrust(r) \/ ReadsNumber(r) \/ ComputesNumber(r) PROVE Goal
  <2>1. r \in AnyRead /\ UNCHANGED <<due, overlapped, row, screen>>
    BY <1>8 DEF VerifyShapes, ReadsTrust, ReadsNumber, ComputesNumber
  <2>2. cached \in {0, row.id} /\ r.id \in {0, row.id} /\ cached' \in {cached, r.id}
    BY <1>5, <1>8, <2>1 DEF ReadsTrust, ReadsNumber, ComputesNumber
  <2>3. \E x \in AnyRead : reads' = (reads \ {r}) \cup {x} /\ x.view = r.view
                           /\ x.id \in {0, row.id}
    BY <1>8, <2>1, <2>2, TrustRead, NumberOfRow, NumberComputed
  <2> QED BY <1>5, <2>1, <2>2, <2>3
<1>9. ASSUME NEW r \in reads, ReadIsShown(r) PROVE Goal
  <2>1. UNCHANGED <<due, overlapped, row, cached>> /\ reads' = reads \ {r}
    BY <1>9 DEF ReadIsShown
  <2>2. r.id \in {0, row.id}
    BY <1>5, <2>1
  <2>3. CASE r.view = "screen"
    <3>1. screen'.number = r.id
      BY <1>9, <2>3, ShownRead
    <3> QED BY <1>5, <2>1, <2>2, <3>1
  <2>4. CASE r.view # "screen"
    <3>1. screen' = screen
      BY <1>9, <2>4, ShownRead
    <3> QED BY <1>5, <2>1, <2>4, <3>1
  <2> QED BY <2>3, <2>4
<1>10. CASE MarkIsWritten
  <2>1. row'.id = row.id /\ UNCHANGED <<due, overlapped, cached, screen, reads>>
    BY <1>10 DEF MarkIsWritten, VerifyShapes
  <2> QED BY <1>5, <2>1
<1>11. CASE UNCHANGED <<due, overlapped, row, cached, screen, reads>>
  BY <1>5, <1>11
<1> QED
  BY <1>1, <1>3, <1>4, <1>6, <1>7, <1>8, <1>9, <1>10, <1>11 DEF VerifyNext, ContactReinstalls,
     MarkVerified, ClearVerification, AcknowledgeChange, verifyVars

LEMMA ShieldsStep ==
    VerifyShapes /\ Unknown /\ Shields /\ [VerifyNext]_verifyVars => Shields'
<1> SUFFICES ASSUME VerifyShapes, Unknown, Shields, [VerifyNext]_verifyVars,
                    ~due', mark'.stage # "written", ~overlapped'
             PROVE  /\ \A r \in reads' : r.trust = "verified" => row'.verified
                    /\ chat'.verified /\ ~row'.verified => \E r \in reads' : r.view = "chat"
                    /\ screen'.verified /\ ~row'.verified => \E r \in reads' : r.view = "screen"
  BY DEF Shields
<1> DEFINE Goal == /\ \A r \in reads' : r.trust = "verified" => row'.verified
                   /\ chat'.verified /\ ~row'.verified => \E r \in reads' : r.view = "chat"
                   /\ screen'.verified /\ ~row'.verified => \E r \in reads' : r.view = "screen"
<1>1. ASSUME Announced, reads = {}, screen'.open = screen.open, ~screen.open => screen' = screen
      PROVE  Goal
  <2>1. \A x \in reads' : x.trust # "verified"
    BY <1>1, AnnouncedReads
  <2>2. \E x \in reads' : x.view = "chat"
    BY <1>1, AnnouncedReads
  <2>3. screen'.verified => \E x \in reads' : x.view = "screen"
    BY <1>1, AnnouncedReads DEF VerifyShapes, Closed
  <2> QED BY <2>1, <2>2, <2>3
<1>2. CASE IdentityIsAnnounced
  BY <1>1, <1>2 DEF IdentityIsAnnounced
<1>3. CASE MarkIsAnnounced
  <2>1. reads = {} /\ Announced
    BY <1>3 DEF MarkIsAnnounced, VerifyShapes
  <2>2. screen'.open = screen.open /\ (~screen.open => screen' = screen)
    BY <1>3 DEF MarkIsAnnounced, VerifyShapes
  <2> QED BY <1>1, <2>1, <2>2
<1>4. ASSUME ~due, mark.stage # "written", ~overlapped
      PROVE  /\ \A r \in reads : r.trust = "verified" => row.verified
             /\ chat.verified /\ ~row.verified => \E r \in reads : r.view = "chat"
             /\ screen.verified /\ ~row.verified => \E r \in reads : r.view = "screen"
  BY <1>4 DEF Shields
<1>5. ASSUME NEW k \in Identities, IdentityIsRecorded(k) PROVE Goal
  <2>1. row.id = 0 /\ UNCHANGED <<overlapped, mark, chat, screen, reads>> /\ ~due
        /\ row' = Changed(k)
    BY <1>5 DEF IdentityIsRecorded
  <2>2. row'.verified = row.verified
    BY <2>1 DEF Changed, VerifyShapes
  <2> QED BY <1>4, <2>1, <2>2
<1>6. CASE OpenScreen
  <2>1. ~screen'.verified /\ UNCHANGED <<due, overlapped, mark, row, chat>>
        /\ reads' = reads \cup {NumberRead} /\ NumberRead.trust # "verified"
    BY <1>6 DEF OpenScreen, Closed, NumberRead
  <2> QED BY <1>4, <2>1
<1>7. CASE CloseScreen
  <2>1. ~screen'.verified /\ UNCHANGED <<due, overlapped, mark, row, chat>>
    BY <1>7, ClosedReads DEF CloseScreen, Closed
  <2>2. \A x \in reads' : x.trust = "verified" => row.verified
    BY <1>4, <1>7, <2>1, ClosedReads
  <2>3. \A r \in reads : r.view = "chat" => r \in reads'
    BY <1>7, ClosedReads
  <2> QED BY <1>4, <2>1, <2>2, <2>3
<1>8. ASSUME NEW r \in reads, ReadsTrust(r) \/ ReadsNumber(r) \/ ComputesNumber(r) PROVE Goal
  <2>1. r \in AnyRead /\ UNCHANGED <<due, overlapped, mark, row, screen, chat>>
    BY <1>8 DEF VerifyShapes, ReadsTrust, ReadsNumber, ComputesNumber
  <2>2. r.trust = "verified" => row.verified
    BY <1>4, <2>1
  <2>3. \E x \in AnyRead : reads' = (reads \ {r}) \cup {x} /\ x.view = r.view
                           /\ (x.trust = "verified" => row.verified)
    BY <1>8, <2>1, <2>2, TrustRead, NumberOfRow, NumberComputed
  <2> QED BY <1>4, <2>1, <2>3
<1>9. ASSUME NEW r \in reads, ReadIsShown(r) PROVE Goal
  <2>1. UNCHANGED <<due, overlapped, mark, row>> /\ reads' = reads \ {r}
    BY <1>9 DEF ReadIsShown
  <2>2. r.trust = "verified" => row.verified
    BY <1>4, <2>1
  <2>3. \A x \in reads' : x.trust = "verified" => row'.verified
    BY <1>4, <2>1
  <2>4. chat'.verified /\ ~row'.verified => \E x \in reads' : x.view = "chat"
    <3>1. CASE r.view = "chat"
      BY <1>9, <2>1, <2>2, <3>1, ShownRead
    <3>2. CASE r.view # "chat"
      BY <1>4, <1>9, <2>1, <3>2, ShownRead
    <3> QED BY <3>1, <3>2
  <2>5. screen'.verified /\ ~row'.verified => \E x \in reads' : x.view = "screen"
    <3>1. CASE r.view = "screen"
      BY <1>9, <2>1, <2>2, <3>1, ShownRead
    <3>2. CASE r.view # "screen"
      BY <1>4, <1>9, <2>1, <3>2, ShownRead
    <3> QED BY <3>1, <3>2
  <2> QED BY <2>3, <2>4, <2>5
<1>10. CASE MarkIsWritten
  <2>1. mark'.stage = "written"
    BY <1>10 DEF MarkIsWritten, VerifyShapes, NoMark
  <2> QED BY <2>1
<1>11. CASE UNCHANGED <<due, overlapped, row, mark, chat, screen, reads>>
  BY <1>4, <1>11
<1>12. CASE MarkVerified \/ ClearVerification \/ AcknowledgeChange
  <2>1. mark.stage # "written" /\ UNCHANGED <<due, overlapped, row, chat, screen, reads>>
    BY <1>12 DEF MarkVerified, ClearVerification, AcknowledgeChange, NoMark
  <2> QED BY <1>4, <2>1
<1> QED
  BY <1>2, <1>3, <1>5, <1>6, <1>7, <1>8, <1>9, <1>10, <1>11, <1>12 DEF VerifyNext,
     ContactReinstalls, verifyVars

LEMMA ComparisonStep ==
    VerifyShapes /\ Unknown /\ Numbers /\ Comparison /\ [VerifyNext]_verifyVars => Comparison'
<1> SUFFICES ASSUME VerifyShapes, Unknown, Numbers, Comparison, [VerifyNext]_verifyVars
             PROVE  Comparison'
  OBVIOUS
<1>1. ASSUME NEW k \in Identities, IdentityIsRecorded(k) PROVE Comparison'
  <2>1. mark' = mark /\ hasty' = (mark.stage = "asked") /\ row' = Changed(k)
    BY <1>1 DEF IdentityIsRecorded
  <2>2. ~row'.verified
    BY <2>1 DEF Changed, Unknown, VerifyShapes
  <2> QED BY <2>1, <2>2 DEF Comparison
<1>2. CASE IdentityIsAnnounced
  BY <1>2 DEF IdentityIsAnnounced, Comparison
<1>3. CASE MarkVerified
  <2>1. screen.number = contact /\ contact # 0 /\ compared' = compared \cup {screen.number}
        /\ UNCHANGED <<row, due, overlapped>> /\ hasty' = (hasty \/ due \/ reads # {})
    BY <1>3, VerifyBounds DEF MarkVerified, VerifyShapes, Identities
  <2>2. CASE hasty'
    BY <2>2 DEF Comparison
  <2>3. CASE ~hasty' /\ overlapped
    BY <2>1, <2>3 DEF Comparison
  <2>4. CASE ~hasty' /\ ~overlapped
    <3>1. ~due /\ reads = {}
      BY <2>1, <2>4
    <3>2. screen.number \in {0, row.id}
      BY <2>4, <3>1 DEF Numbers
    <3> QED BY <2>1, <3>2 DEF Comparison
  <2> QED BY <2>2, <2>3, <2>4
<1>4. CASE ClearVerification
  <2>1. mark'.as # "verified" /\ UNCHANGED <<row, due, overlapped, compared, hasty>>
    BY <1>4 DEF ClearVerification
  <2> QED BY <2>1 DEF Comparison
<1>5. CASE AcknowledgeChange
  <2>1. mark'.as # "verified" /\ UNCHANGED <<row, due, overlapped, compared, hasty>>
    BY <1>5 DEF AcknowledgeChange
  <2> QED BY <2>1 DEF Comparison
<1>6. CASE MarkIsWritten
  <2>1. row'.id = row.id /\ UNCHANGED <<due, overlapped, compared, hasty>>
    BY <1>6 DEF MarkIsWritten, VerifyShapes
  <2>2. mark.stage = "asked" /\ mark'.stage = "written"
    BY <1>6 DEF MarkIsWritten, VerifyShapes, NoMark
  <2>3. row'.verified => row.verified \/ mark.as = "verified"
    <3>1. CASE mark.as = "acknowledged"
      BY <1>6, <3>1 DEF MarkIsWritten, VerifyShapes
    <3>2. CASE mark.as # "acknowledged"
      BY <1>6, <3>2 DEF MarkIsWritten, VerifyShapes
    <3> QED BY <3>1, <3>2
  <2> QED BY <2>1, <2>2, <2>3 DEF Comparison
<1>7. CASE MarkIsAnnounced
  <2>1. mark'.stage # "asked" /\ UNCHANGED <<row, due, compared, hasty>>
        /\ (overlapped => overlapped')
    BY <1>7 DEF MarkIsAnnounced, NoMark
  <2> QED BY <2>1 DEF Comparison
<1>8. CASE UNCHANGED <<row, mark, compared, hasty, overlapped, due>>
  BY <1>8 DEF Comparison
<1> QED
  BY <1>1, <1>2, <1>3, <1>4, <1>5, <1>6, <1>7, <1>8 DEF VerifyNext, ContactReinstalls,
     OpenScreen, CloseScreen, ReadsTrust, ReadsNumber, ComputesNumber, ReadIsShown, verifyVars

\* A finite set has no more images than elements.
LEMMA ImageIsSmaller ==
    ASSUME NEW S, IsFiniteSet(S), NEW f, DOMAIN f = S, f = [x \in S |-> f[x]]
    PROVE  IsFiniteSet({f[x] : x \in S}) /\ Cardinality({f[x] : x \in S}) <= Cardinality(S)
<1> DEFINE T == {f[x] : x \in S}
<1>1. f \in Surjection(S, T)
  BY DEF Surjection
<1> HIDE DEF T
<1>2. IsFiniteSet(T) /\ Cardinality(T) <= Cardinality(S)
  BY <1>1, FS_Surjection
<1> QED BY <1>2 DEF T

LEMMA VerifyFewStep ==
    VerifyShapes /\ VerifyFew /\ [VerifyNext]_verifyVars => VerifyFew'
<1> SUFFICES ASSUME VerifyShapes, VerifyFew, [VerifyNext]_verifyVars PROVE VerifyFew'
  OBVIOUS
<1>1. IsFiniteSet(reads) /\ Cardinality(reads) \in Nat /\ Cardinality(reads) <= MaxReads
      /\ MaxReads \in Nat
  BY FS_CardinalityType, VerifyBounds DEF VerifyFew
<1>2. ASSUME Announced PROVE VerifyFew'
  <2>1. IsFiniteSet(reads \cup {ChatRead})
    BY <1>1, FS_AddElement
  <2>2. IsFiniteSet((reads \cup {ChatRead}) \cup {NumberRead})
    BY <2>1, FS_AddElement
  <2>3. IsFiniteSet(reads')
    BY <1>2, <2>1, <2>2 DEF Announced
  <2> QED BY <1>2, <2>3 DEF Announced, VerifyFew
<1>3. CASE IdentityIsAnnounced \/ MarkIsAnnounced
  BY <1>2, <1>3 DEF IdentityIsAnnounced, MarkIsAnnounced
<1>4. CASE OpenScreen
  <2>1. IsFiniteSet(reads \cup {NumberRead})
    BY <1>1, FS_AddElement
  <2> QED BY <1>4, <2>1 DEF OpenScreen, VerifyFew
<1>5. CASE CloseScreen
  <2> DEFINE kept == {r \in reads : r.view = "screen" => r.got # "number"}
             gone == [r \in kept |-> IF r.view # "screen" THEN r
                                     ELSE [r EXCEPT !.view = "gone", !.trust = "plain"]]
  <2>1. reads' = {gone[r] : r \in kept}
    BY <1>5 DEF CloseScreen
  <2>2. IsFiniteSet(kept) /\ Cardinality(kept) \in Nat /\ Cardinality(kept) <= Cardinality(reads)
    BY <1>1, FS_Subset, FS_CardinalityType
  <2>0. DOMAIN gone = kept /\ gone = [r \in kept |-> gone[r]]
    OBVIOUS
  <2> HIDE DEF gone, kept
  <2>3. IsFiniteSet({gone[r] : r \in kept})
        /\ Cardinality({gone[r] : r \in kept}) <= Cardinality(kept)
    BY <2>0, <2>2, ImageIsSmaller
  <2>4. IsFiniteSet(reads') /\ Cardinality(reads') \in Nat
    BY <2>1, <2>3, FS_CardinalityType
  <2> QED BY <1>1, <2>1, <2>2, <2>3, <2>4 DEF VerifyFew
<1>6. ASSUME NEW r \in reads, ReadsTrust(r) \/ ReadsNumber(r) \/ ComputesNumber(r)
      PROVE  VerifyFew'
  <2>1. PICK s \in reads, x \in AnyRead : reads' = (reads \ {s}) \cup {x}
    BY <1>6, MovesAre DEF ReadMoves
  <2>2. IsFiniteSet(reads') /\ Cardinality(reads') \in Nat
        /\ Cardinality(reads') <= Cardinality(reads)
    BY <1>1, <2>1, Replaced
  <2> QED BY <1>1, <2>2 DEF VerifyFew
<1>7. ASSUME NEW r \in reads, ReadIsShown(r) PROVE VerifyFew'
  <2>1. reads' \subseteq reads
    BY <1>7 DEF ReadIsShown
  <2>2. IsFiniteSet(reads') /\ Cardinality(reads') <= Cardinality(reads)
        /\ Cardinality(reads') \in Nat
    BY <1>1, <2>1, FS_Subset, FS_CardinalityType
  <2> QED BY <1>1, <2>2 DEF VerifyFew
<1>8. CASE UNCHANGED reads
  BY <1>8 DEF VerifyFew
<1> QED
  BY <1>3, <1>4, <1>5, <1>6, <1>7, <1>8 DEF VerifyNext, ContactReinstalls, IdentityIsRecorded,
     MarkVerified, ClearVerification, AcknowledgeChange, MarkIsWritten, verifyVars

VerifyInv ==
    /\ VerifyShapes /\ ReadsOfOpen /\ VerifyFew
    /\ Unknown /\ Numbers /\ Shields /\ Comparison

LEMMA VerifyHolds == VerifySpec => []VerifyInv
<1>1. VerifyInit => VerifyInv
  <2> SUFFICES ASSUME VerifyInit PROVE VerifyInv
    OBVIOUS
  <2> USE VerifyBounds DEF VerifyInit
  <2>1. VerifyShapes
    BY DEF VerifyShapes, Closed
  <2>2. VerifyFew
    BY FS_EmptySet DEF VerifyFew
  <2>3. ReadsOfOpen /\ Unknown /\ Numbers /\ Shields /\ Comparison
    BY DEF ReadsOfOpen, Unknown, Numbers, Shields, Comparison, Closed, NoMark
  <2> QED BY <2>1, <2>2, <2>3 DEF VerifyInv
<1>2. VerifyInv /\ [VerifyNext]_verifyVars => VerifyInv'
  BY VerifyShapesStep, ReadsOfOpenStep, VerifyFewStep, UnknownStep, NumbersStep, ShieldsStep,
     ComparisonStep DEF VerifyInv
<1> QED BY <1>1, <1>2, PTL DEF VerifySpec

(***************************************************************************)
(* The row, the screens and the reads of a contact have their types and    *)
(* bounds, whatever installs of the contact and reads there are.           *)
(***************************************************************************)
THEOREM VerifyTypeCorrect == VerifySpec => []VerifyTypeOK
<1>1. VerifyInv => VerifyTypeOK
  BY DEF VerifyInv, VerifyShapes, VerifyFew, VerifyTypeOK
<1> QED BY <1>1, VerifyHolds, PTL

(***************************************************************************)
(* What the phone calls verified is an identity whose number the user      *)
(* compared, with the exceptions VerifiedWasCompared names.                *)
(***************************************************************************)
THEOREM VerifyWasCompared == VerifySpec => []VerifiedWasCompared
<1>1. VerifyInv => VerifiedWasCompared
  <2> SUFFICES ASSUME VerifyInv, ~hasty, ~overlapped
               PROVE  /\ row.verified => row.id \in compared
                      /\ ~due /\ mark = NoMark /\ reads = {}
                           => (chat.verified \/ screen.verified => row.verified)
    BY DEF VerifiedWasCompared
  <2>1. row.verified => row.id \in compared
    BY DEF VerifyInv, Comparison
  <2>2. ASSUME ~due, mark = NoMark, reads = {}, chat.verified \/ screen.verified
        PROVE  row.verified
    BY <2>2 DEF VerifyInv, Shields, NoMark
  <2> QED BY <2>1, <2>2
<1> QED BY <1>1, VerifyHolds, PTL
-----------------------------------------------------------------------------
(* Types *)

OneTimeKeys == 1..MaxOtk
Bundles == [of : {"none", "this", "other"}, spk : Nat, otks : Seq(OneTimeKeys)]
SignedKeys == [id : Nat, at : 0..MaxNow]
Stores == [spks : SUBSET SignedKeys, otks : SUBSET OneTimeKeys, nextOtk : 1..(MaxOtk + 1),
           nextSpk : Nat \ {0}, pubAt : 0..MaxNow, pubFrom : 0..MaxOtk]
Handouts == [n : Nat, spk : Nat, otk : 0..MaxOtk, at : 0..MaxNow, used : BOOLEAN]
Uploads == [kind : {"upload"}, spk : Nat, otk : OneTimeKeys]
Rotations == [kind : {"rotate"}, spk : Nat, otk : {0}]
Additions == [kind : {"add"}, spk : {0}, otk : OneTimeKeys]
Answers == {"sent", "ok", "refused"}
Jobs ==
    [step : {"idle", "publish", "rotate", "topUp", "drop"}, few : BOOLEAN, req : {NoKeyReq},
     answer : {"none"}]
    \cup [step : {"publishing"}, few : BOOLEAN, req : Uploads, answer : Answers]
    \cup [step : {"rotating"}, few : BOOLEAN, req : Rotations, answer : Answers]
    \cup [step : {"adding", "addingOnly"}, few : BOOLEAN, req : Additions, answer : Answers]

BundleOK == bundle \in Bundles /\ (bundle.of # "this" => bundle.otks = << >>)
StoreOK == phone \in Stores
JobOK == job \in Jobs /\ (job # NoJob => Made(phone)) /\ (job.step = "idle" => job = NoJob)
HandedOK == handed \subseteq Handouts /\ IsFiniteSet(handed) /\ Cardinality(handed) <= MaxHanded
WorldOK == stray \subseteq Uploads \cup Rotations \cup Additions
           /\ low \in BOOLEAN /\ floated \in BOOLEAN /\ now \in 0..MaxNow

\* KeysTypeOK, with what is known of the request at each step of a task.
KeysShapes == BundleOK /\ StoreOK /\ JobOK /\ HandedOK /\ WorldOK

\* The newest signed key made is in the store, so getCurrentSignedPreKey finds it.
Newest == phone.nextSpk - 1
NewestKept ==
    /\ \A k \in phone.spks : k.id <= Newest
    /\ Made(phone) => HoldsSigned(Newest)
    /\ ~Made(phone) => phone.spks = {}

Distinct(s) == \A i, j \in DOMAIN s : s[i] = s[j] => i = j
Members(s) == {s[k] : k \in DOMAIN s}

\* What the server holds for the taking.
Offered == Members(bundle.otks)
HandedOut == {h.otk : h \in handed}

\* No one-time key is offered twice, or again after it was handed out, and each is in
\* the store, from the last full publish on.
OfferedOnce ==
    /\ Distinct(bundle.otks)
    /\ Offered \cap HandedOut = {}
    /\ Offered \subseteq phone.otks
    /\ \A k \in Offered : k >= phone.pubFrom

\* The signed key that is published is in the store, and once the server has the new
\* one it is that one.
SignedIsHeld ==
    bundle.of = "this" =>
        /\ HoldsSigned(bundle.spk)
        /\ job.step = "rotating" /\ job.answer = "ok" => bundle.spk = Newest

\* A request brings keys the store has and the server never had.
RequestIsNew ==
    /\ job.answer # "none" => job.req.otk < phone.nextOtk
    /\ job.answer = "sent" /\ job.req.kind \in {"upload", "rotate"} => job.req.spk = Newest
    /\ job.answer = "sent" /\ job.req.kind \in {"upload", "add"} =>
        /\ job.req.otk \in phone.otks \ (Offered \cup HandedOut)
        /\ job.req.otk >= phone.pubFrom
    /\ job.step = "publishing" /\ job.answer = "ok" => \A k \in Offered : k >= job.req.otk

\* Keys are numbered as they are made, and what was handed out after the last full
\* publish is not older than it.
InOrder ==
    /\ \A k \in phone.otks \cup HandedOut : k < phone.nextOtk
    /\ phone.pubFrom < phone.nextOtk /\ phone.pubAt <= now
    /\ \A h \in handed :
        /\ h.at <= now
        /\ h.otk # 0 /\ h.at > phone.pubAt => h.otk >= phone.pubFrom

KeysStand == OfferedOnce /\ SignedIsHeld /\ RequestIsNew /\ InOrder /\ OneTimeKeysKept

-----------------------------------------------------------------------------
(* The records *)

LEMMA KeysBounds == {Keep, MaxNow, MaxOtk, MaxTaken, MaxHanded, KeyFaults} \subseteq Nat
BY KeysAssumption

\* A task by the step it is at.
LEMMA JobFields ==
    ASSUME job \in Jobs
    PROVE  /\ job.few \in BOOLEAN
           /\ job.answer \in {"none"} \cup Answers
           /\ job.answer = "none" =>
                job.req = NoKeyReq /\ job.step \in {"idle", "publish", "rotate", "topUp", "drop"}
           /\ job.answer # "none" =>
                \/ job.step = "publishing" /\ job.req \in Uploads
                \/ job.step = "rotating" /\ job.req \in Rotations
                \/ job.step \in {"adding", "addingOnly"} /\ job.req \in Additions
<1>1. CASE job \in [step : {"idle", "publish", "rotate", "topUp", "drop"}, few : BOOLEAN,
                    req : {NoKeyReq}, answer : {"none"}]
  BY <1>1
<1>2. CASE job \in [step : {"publishing"}, few : BOOLEAN, req : Uploads, answer : Answers]
  BY <1>2 DEF Answers
<1>3. CASE job \in [step : {"rotating"}, few : BOOLEAN, req : Rotations, answer : Answers]
  BY <1>3 DEF Answers
<1>4. CASE job \in [step : {"adding", "addingOnly"}, few : BOOLEAN, req : Additions,
                    answer : Answers]
  BY <1>4 DEF Answers
<1> QED BY <1>1, <1>2, <1>3, <1>4 DEF Jobs

LEMMA NoJobIsJob == NoJob \in Jobs /\ NoJob.step = "idle" /\ NoJob.answer = "none"
BY DEF NoJob, Jobs

LEMMA JobGoesOn ==
    ASSUME job \in Jobs, NEW step \in {"topUp", "drop"}, JobGoes(step)
    PROVE  job' \in Jobs /\ job'.step = step /\ job'.answer = "none"
<1>1. job.few \in BOOLEAN
  BY JobFields
<1>2. job' = [step |-> step, few |-> job.few, req |-> NoKeyReq, answer |-> "none"]
  BY DEF JobGoes, NoJob
<1> QED BY <1>1, <1>2 DEF Jobs

LEMMA JobSendsOff ==
    ASSUME job \in Jobs, NEW step, NEW req,
           \/ step = "publishing" /\ req \in Uploads
           \/ step = "rotating" /\ req \in Rotations
           \/ step \in {"adding", "addingOnly"} /\ req \in Additions,
           JobSends(step, req)
    PROVE  job' \in Jobs /\ job'.step = step /\ job'.answer = "sent" /\ job'.req = req
<1>1. job.few \in BOOLEAN
  BY JobFields
<1>2. job' = [step |-> step, few |-> job.few, req |-> req, answer |-> "sent"]
  BY DEF JobSends, NoJob
<1> QED BY <1>1, <1>2 DEF Jobs, Answers

LEMMA JobAnswered ==
    ASSUME job \in Jobs, job.answer # "none", NEW answer \in Answers,
           job' = [job EXCEPT !.answer = answer]
    PROVE  job' \in Jobs /\ job'.step = job.step /\ job'.req = job.req /\ job'.answer = answer
<1>1. CASE job \in [step : {"idle", "publish", "rotate", "topUp", "drop"}, few : BOOLEAN,
                    req : {NoKeyReq}, answer : {"none"}]
  BY <1>1
<1>2. CASE job \in [step : {"publishing"}, few : BOOLEAN, req : Uploads, answer : Answers]
  BY <1>2 DEF Jobs
<1>3. CASE job \in [step : {"rotating"}, few : BOOLEAN, req : Rotations, answer : Answers]
  BY <1>3 DEF Jobs
<1>4. CASE job \in [step : {"adding", "addingOnly"}, few : BOOLEAN, req : Additions,
                    answer : Answers]
  BY <1>4 DEF Jobs
<1> QED BY <1>1, <1>2, <1>3, <1>4 DEF Jobs

\* The store, after each of the ways it changes.
LEMMA StoreFields ==
    ASSUME NEW p \in Stores
    PROVE  /\ p.spks \subseteq SignedKeys /\ p.otks \subseteq OneTimeKeys
           /\ p.nextOtk \in 1..(MaxOtk + 1) /\ p.nextSpk \in Nat \ {0}
           /\ p.pubAt \in 0..MaxNow /\ p.pubFrom \in 0..MaxOtk
BY DEF Stores

LEMMA AllocatedIsStore ==
    ASSUME NEW p \in Stores, p.nextOtk <= MaxOtk
    PROVE  LET q == Allocated(p) IN
           /\ q \in Stores
           /\ q.spks = p.spks /\ q.nextSpk = p.nextSpk /\ q.pubAt = p.pubAt /\ q.pubFrom = p.pubFrom
           /\ q.otks = p.otks \cup {p.nextOtk} /\ q.nextOtk = p.nextOtk + 1
           /\ p.nextOtk \in OneTimeKeys
<1> DEFINE S == p.otks \cup {p.nextOtk}
           n == p.nextOtk + 1
<1>1. p.nextOtk \in OneTimeKeys
  BY StoreFields, KeysBounds DEF OneTimeKeys
<1>2. S \subseteq OneTimeKeys /\ n \in 1..(MaxOtk + 1)
  <2>1. p.otks \subseteq OneTimeKeys
    BY StoreFields
  <2>2. S \subseteq OneTimeKeys
    BY <1>1, <2>1
  <2>3. n \in 1..(MaxOtk + 1)
    BY <1>1, KeysBounds DEF OneTimeKeys
  <2> QED BY <2>2, <2>3
<1>3. Allocated(p) = [p EXCEPT !.otks = S, !.nextOtk = n]
  BY DEF Allocated
<1> HIDE DEF S, n
<1>4. LET q == [p EXCEPT !.otks = S, !.nextOtk = n] IN
      /\ q \in Stores
      /\ q.spks = p.spks /\ q.nextSpk = p.nextSpk /\ q.pubAt = p.pubAt /\ q.pubFrom = p.pubFrom
      /\ q.otks = S /\ q.nextOtk = n
  BY <1>2 DEF Stores
<1> QED BY <1>1, <1>3, <1>4 DEF S, n

LEMMA CreatedIsStore ==
    ASSUME NEW p \in Stores, now \in 0..MaxNow
    PROVE  LET q == Created(p) IN
           /\ q \in Stores /\ q.spks = {[id |-> 1, at |-> now]} /\ q.nextSpk = 2
           /\ q.otks = p.otks /\ q.nextOtk = p.nextOtk /\ q.pubAt = p.pubAt
           /\ q.pubFrom = p.pubFrom
<1> DEFINE S == {[id |-> 1, at |-> now]}
           n == 2
<1>1. S \subseteq SignedKeys /\ n \in Nat \ {0}
  BY DEF SignedKeys
<1>2. Created(p) = [p EXCEPT !.spks = S, !.nextSpk = n]
  BY DEF Created
<1> HIDE DEF S, n
<1>3. LET q == [p EXCEPT !.spks = S, !.nextSpk = n] IN
      /\ q \in Stores /\ q.spks = S /\ q.nextSpk = n /\ q.otks = p.otks
      /\ q.nextOtk = p.nextOtk /\ q.pubAt = p.pubAt /\ q.pubFrom = p.pubFrom
  BY <1>1 DEF Stores
<1> QED BY <1>2, <1>3 DEF S, n

LEMMA RotatedIsStore ==
    ASSUME NEW p \in Stores, now \in 0..MaxNow
    PROVE  LET q == Rotated(p) IN
           /\ q \in Stores
           /\ q.spks = p.spks \cup {[id |-> p.nextSpk, at |-> now]} /\ q.nextSpk = p.nextSpk + 1
           /\ q.otks = p.otks /\ q.nextOtk = p.nextOtk /\ q.pubAt = p.pubAt
           /\ q.pubFrom = p.pubFrom
<1> DEFINE S == p.spks \cup {[id |-> p.nextSpk, at |-> now]}
           n == p.nextSpk + 1
<1>1. S \subseteq SignedKeys /\ n \in Nat \ {0}
  <2>1. p.nextSpk \in Nat /\ p.spks \subseteq SignedKeys
    BY StoreFields
  <2>2. [id |-> p.nextSpk, at |-> now] \in SignedKeys
    BY <2>1 DEF SignedKeys
  <2> QED BY <2>1, <2>2
<1>2. Rotated(p) = [p EXCEPT !.spks = S, !.nextSpk = n]
  BY DEF Rotated
<1> HIDE DEF S, n
<1>3. LET q == [p EXCEPT !.spks = S, !.nextSpk = n] IN
      /\ q \in Stores /\ q.spks = S /\ q.nextSpk = n /\ q.otks = p.otks
      /\ q.nextOtk = p.nextOtk /\ q.pubAt = p.pubAt /\ q.pubFrom = p.pubFrom
  BY <1>1 DEF Stores
<1> QED BY <1>2, <1>3 DEF S, n

LEMMA SpksDroppedIsStore ==
    ASSUME NEW p \in Stores
    PROVE  LET q == OldSpksDropped(p) IN
           /\ q \in Stores
           /\ q.spks = {k \in p.spks : k.at + Keep >= now \/ k.id = Current(p).id}
           /\ q.nextSpk = p.nextSpk /\ q.otks = p.otks /\ q.nextOtk = p.nextOtk
           /\ q.pubAt = p.pubAt /\ q.pubFrom = p.pubFrom
<1> DEFINE S == {k \in p.spks : k.at + Keep >= now \/ k.id = Current(p).id}
<1>1. OldSpksDropped(p) = [p EXCEPT !.spks = S]
  BY DEF OldSpksDropped
<1>2. S \subseteq p.spks
  OBVIOUS
<1> HIDE DEF S
<1>3. LET q == [p EXCEPT !.spks = S] IN
      /\ q \in Stores /\ q.spks = S /\ q.nextSpk = p.nextSpk /\ q.otks = p.otks
      /\ q.nextOtk = p.nextOtk /\ q.pubAt = p.pubAt /\ q.pubFrom = p.pubFrom
  BY <1>2 DEF Stores
<1> QED BY <1>1, <1>3 DEF S

LEMMA OtksDroppedIsStore ==
    ASSUME NEW p \in Stores
    PROVE  LET q == OldOtksDropped(p) IN
           /\ q \in Stores
           /\ q.otks \subseteq p.otks
           /\ \A k \in p.otks \ q.otks : k < p.pubFrom /\ now > p.pubAt + Keep
           /\ q.nextSpk = p.nextSpk /\ q.spks = p.spks /\ q.nextOtk = p.nextOtk
           /\ q.pubAt = p.pubAt /\ q.pubFrom = p.pubFrom
<1> DEFINE S == {k \in p.otks : k >= p.pubFrom}
<1>1. CASE p.pubFrom > 0 /\ now > p.pubAt + Keep
  <2>1. OldOtksDropped(p) = [p EXCEPT !.otks = S]
    BY <1>1 DEF OldOtksDropped
  <2>2. S \subseteq p.otks /\ \A k \in p.otks \ S : k < p.pubFrom
    BY DEF Stores, OneTimeKeys
  <2> HIDE DEF S
  <2>3. LET q == [p EXCEPT !.otks = S] IN
        /\ q \in Stores /\ q.otks = S /\ q.nextSpk = p.nextSpk /\ q.spks = p.spks
        /\ q.nextOtk = p.nextOtk /\ q.pubAt = p.pubAt /\ q.pubFrom = p.pubFrom
    BY <2>2 DEF Stores
  <2> QED BY <1>1, <2>1, <2>2, <2>3
<1>2. CASE ~(p.pubFrom > 0 /\ now > p.pubAt + Keep)
  BY <1>2 DEF OldOtksDropped
<1> QED BY <1>1, <1>2

LEMMA PublishedIsStore ==
    ASSUME NEW p \in Stores, now \in 0..MaxNow, NEW from \in OneTimeKeys
    PROVE  LET q == [p EXCEPT !.pubAt = now, !.pubFrom = from] IN
           /\ q \in Stores /\ q.pubAt = now /\ q.pubFrom = from
           /\ q.nextSpk = p.nextSpk /\ q.spks = p.spks /\ q.nextOtk = p.nextOtk
           /\ q.otks = p.otks
<1>1. from \in 0..MaxOtk
  BY KeysBounds DEF OneTimeKeys
<1> QED BY <1>1 DEF Stores

LEMMA UsedIsStore ==
    ASSUME NEW p \in Stores, NEW otk
    PROVE  LET q == [p EXCEPT !.otks = @ \ {otk}] IN
           /\ q \in Stores /\ q.pubAt = p.pubAt /\ q.pubFrom = p.pubFrom
           /\ q.nextSpk = p.nextSpk /\ q.spks = p.spks /\ q.nextOtk = p.nextOtk
           /\ q.otks = p.otks \ {otk}
BY DEF Stores

-----------------------------------------------------------------------------
(* The bundle *)

LEMMA MembersOfAppend ==
    ASSUME NEW S, NEW s \in Seq(S), NEW x \in S
    PROVE  /\ Append(s, x) \in Seq(S)
           /\ Members(Append(s, x)) = Members(s) \cup {x}
           /\ Distinct(s) /\ x \notin Members(s) => Distinct(Append(s, x))
<1> DEFINE t == Append(s, x)
<1>1. /\ t \in Seq(S) /\ Len(t) = Len(s) + 1 /\ Len(s) \in Nat
      /\ \A i \in 1..Len(s) : t[i] = s[i]
      /\ t[Len(s) + 1] = x
  BY AppendProperties, LenProperties
<1>2. DOMAIN s = 1..Len(s) /\ DOMAIN t = 1..(Len(s) + 1)
  BY <1>1, LenProperties
<1> HIDE DEF t
<1>3. \A i \in DOMAIN t : (i \in DOMAIN s /\ t[i] = s[i]) \/ (i = Len(s) + 1 /\ t[i] = x)
  BY <1>1, <1>2
<1>4. Members(t) = Members(s) \cup {x}
  <2>1. Members(t) \subseteq Members(s) \cup {x}
    BY <1>3 DEF Members
  <2>2. Members(s) \subseteq Members(t)
    BY <1>1, <1>2 DEF Members
  <2>3. x \in Members(t)
    BY <1>1, <1>2 DEF Members
  <2> QED BY <2>1, <2>2, <2>3
<1>5. ASSUME Distinct(s), x \notin Members(s) PROVE Distinct(t)
  <2> SUFFICES ASSUME NEW i \in DOMAIN t, NEW j \in DOMAIN t, t[i] = t[j] PROVE i = j
    BY DEF Distinct
  <2>1. \A k \in DOMAIN s : s[k] # x
    BY <1>5 DEF Members
  <2> QED BY <1>3, <1>5, <2>1 DEF Distinct
<1> QED BY <1>1, <1>4, <1>5 DEF t

LEMMA MembersOfTail ==
    ASSUME NEW S, NEW s \in Seq(S), s # << >>, Distinct(s)
    PROVE  /\ Tail(s) \in Seq(S) /\ Head(s) \in Members(s)
           /\ Members(Tail(s)) \subseteq Members(s) \ {Head(s)}
           /\ Distinct(Tail(s))
<1> DEFINE t == Tail(s)
           h == Head(s)
<1>1. /\ t \in Seq(S) /\ Len(t) = Len(s) - 1 /\ Len(s) \in Nat /\ Len(s) > 0
      /\ \A i \in 1..Len(t) : t[i] = s[i + 1]
      /\ h = s[1]
  BY HeadTailProperties, EmptySeq, LenProperties
<1>2. DOMAIN s = 1..Len(s) /\ DOMAIN t = 1..(Len(s) - 1)
  BY <1>1, LenProperties
<1> HIDE DEF t, h
<1>3. \A i \in DOMAIN t : i + 1 \in DOMAIN s /\ i + 1 # 1 /\ t[i] = s[i + 1] /\ i \in Nat
  BY <1>1, <1>2
<1>4. 1 \in DOMAIN s
  BY <1>1, <1>2
<1>5. \A i \in DOMAIN t : t[i] # h
  BY <1>1, <1>3, <1>4 DEF Distinct
<1>6. Members(t) \subseteq Members(s) \ {h}
  BY <1>3, <1>5 DEF Members
<1>7. Distinct(t)
  BY <1>3 DEF Distinct
<1> QED BY <1>1, <1>4, <1>6, <1>7 DEF t, h, Members

\* What the server does with a request.
LEMMA EffectOnBundle ==
    ASSUME BundleOK, NEW req \in Uploads \cup Rotations \cup Additions, Effect(req)
    PROVE  /\ BundleOK'
           /\ \/ /\ req \in Uploads
                 /\ bundle'.of = "this" /\ bundle'.spk = req.spk /\ bundle'.otks = <<req.otk>>
              \/ req \notin Uploads /\ bundle.of # "this" /\ bundle' = bundle
              \/ /\ req \in Rotations /\ bundle.of = "this"
                 /\ bundle'.of = "this" /\ bundle'.spk = req.spk /\ bundle'.otks = bundle.otks
              \/ /\ req \in Additions /\ bundle.of = "this"
                 /\ bundle'.of = "this" /\ bundle'.spk = bundle.spk
                 /\ bundle'.otks = Append(bundle.otks, req.otk)
<1>1. CASE req \in Uploads
  <2>1. bundle' = [of |-> "this", spk |-> req.spk, otks |-> <<req.otk>>]
    BY <1>1 DEF Effect, Uploads
  <2> DEFINE t == <<req.otk>>
  <2>2. req.spk \in Nat /\ t \in Seq(OneTimeKeys)
    BY <1>1 DEF Uploads
  <2> HIDE DEF t
  <2>3. bundle' = [of |-> "this", spk |-> req.spk, otks |-> t]
    BY <2>1 DEF t
  <2>4. BundleOK' /\ bundle'.of = "this" /\ bundle'.spk = req.spk /\ bundle'.otks = t
    BY <2>2, <2>3 DEF BundleOK, Bundles
  <2> QED BY <1>1, <2>4 DEF t
<1>2. CASE req \notin Uploads /\ bundle.of # "this"
  <2>1. req.kind # "upload"
    BY <1>2 DEF Rotations, Additions
  <2>2. bundle' = bundle
    BY <1>2, <2>1 DEF Effect
  <2>3. BundleOK'
    BY <2>2 DEF BundleOK
  <2> QED BY <1>2, <2>2, <2>3
<1>3. CASE req \in Rotations /\ bundle.of = "this"
  <2>1. bundle' = [bundle EXCEPT !.spk = req.spk] /\ req.spk \in Nat
    BY <1>3 DEF Effect, Rotations
  <2> QED BY <1>3, <2>1 DEF BundleOK, Bundles
<1>4. CASE req \in Additions /\ bundle.of = "this"
  <2> DEFINE t == Append(bundle.otks, req.otk)
  <2>1. bundle' = [bundle EXCEPT !.otks = t]
    BY <1>4 DEF Effect, Additions
  <2>2. t \in Seq(OneTimeKeys)
    BY <1>4 DEF BundleOK, Bundles, Additions
  <2> HIDE DEF t
  <2>3. bundle'.of = "this" /\ bundle'.spk = bundle.spk /\ bundle'.otks = t /\ BundleOK'
    BY <1>4, <2>1, <2>2 DEF BundleOK, Bundles
  <2> QED BY <1>4, <2>3 DEF t
<1> QED BY <1>1, <1>2, <1>3, <1>4

\* Handing out a bundle takes its oldest one-time key.
LEMMA HandedFields ==
    ASSUME BundleOK, KeysHand
    PROVE  /\ BundleOK' /\ bundle'.of = "this" /\ bundle'.spk = bundle.spk
           /\ bundle'.otks = IF bundle.otks = << >> THEN << >> ELSE Tail(bundle.otks)
           /\ LET h == [n |-> Cardinality(handed), spk |-> bundle.spk,
                        otk |-> IF bundle.otks = << >> THEN 0 ELSE Head(bundle.otks),
                        at |-> now, used |-> FALSE]
              IN  handed' = handed \cup {h}
<1> DEFINE t == IF bundle.otks = << >> THEN << >> ELSE Tail(bundle.otks)
<1>1. bundle' = [bundle EXCEPT !.otks = t] /\ bundle.of = "this"
  BY DEF KeysHand
<1>2. t \in Seq(OneTimeKeys)
  BY HeadTailProperties DEF BundleOK, Bundles
<1> HIDE DEF t
<1>3. BundleOK' /\ bundle'.of = "this" /\ bundle'.spk = bundle.spk /\ bundle'.otks = t
  BY <1>1, <1>2 DEF BundleOK, Bundles
<1> QED BY <1>3 DEF t, KeysHand

-----------------------------------------------------------------------------
(* Types, step by step *)

LEMMA KeysShapesInit == KeysInit => KeysShapes
<1> SUFFICES ASSUME KeysInit PROVE KeysShapes
  OBVIOUS
<1>1. /\ bundle = NoBundle /\ phone = NoKeys /\ job = NoJob /\ stray = {} /\ now = 0
      /\ handed = {} /\ low = FALSE /\ floated = FALSE
  BY DEF KeysInit
<1>2. BundleOK
  <2>1. << >> \in Seq(OneTimeKeys)
    BY EmptySeq
  <2> QED BY <1>1, <2>1 DEF BundleOK, Bundles, NoBundle
<1>3. StoreOK
  BY <1>1, KeysBounds DEF StoreOK, Stores, NoKeys
<1>4. JobOK
  BY <1>1, NoJobIsJob DEF JobOK
<1>5. HandedOK
  BY <1>1, FS_EmptySet, KeysBounds DEF HandedOK
<1>6. WorldOK
  <2>1. low \in BOOLEAN /\ floated \in BOOLEAN
    BY <1>1
  <2>2. stray \subseteq Uploads \cup Rotations \cup Additions /\ now \in 0..MaxNow
    BY <1>1, KeysBounds
  <2> QED BY <2>1, <2>2 DEF WorldOK
<1> QED BY <1>2, <1>3, <1>4, <1>5, <1>6 DEF KeysShapes

LEMMA BundleStep == KeysShapes /\ [KeysNext]_keysVars => BundleOK'
<1> SUFFICES ASSUME KeysShapes, [KeysNext]_keysVars PROVE BundleOK'
  OBVIOUS
<1>0. BundleOK /\ job \in Jobs /\ stray \subseteq Uploads \cup Rotations \cup Additions
  BY DEF KeysShapes, JobOK, WorldOK
<1>1. ASSUME bundle' = bundle PROVE BundleOK'
  BY <1>0, <1>1 DEF BundleOK
<1>2. CASE \/ KeysStart \/ KeysPublish \/ KeysRotate \/ KeysTopUp \/ KeysLow \/ KeysDrop
           \/ KeysAnswered
  BY <1>1, <1>2 DEF KeysStart, KeysPublish, KeysRotate, KeysTopUp, KeysLow, KeysDrop,
                    KeysAnswered, KeysWorldUnchanged
<1>3. CASE KeysBreak \/ KeysTick \/ (\E h \in handed : KeysUse(h)) \/ UNCHANGED keysVars
  BY <1>1, <1>3 DEF KeysBreak, KeysTick, KeysUse, keysVars
<1>4. CASE KeysExecute
  <2>1. job.req \in Uploads \cup Rotations \cup Additions /\ Effect(job.req)
    BY <1>0, <1>4, JobFields DEF KeysExecute
  <2> QED BY <1>0, <2>1, EffectOnBundle
<1>5. ASSUME NEW req \in stray, KeysLate(req) PROVE BundleOK'
  BY <1>0, <1>5, EffectOnBundle DEF KeysLate
<1>6. CASE KeysTaken
  <2>1. OtherBundle = [of |-> "other", spk |-> 0, otks |-> << >>]
    BY DEF OtherBundle, NoBundle
  <2>2. << >> \in Seq(OneTimeKeys) /\ bundle' = OtherBundle
    BY <1>6, EmptySeq DEF KeysTaken
  <2> QED BY <2>1, <2>2 DEF BundleOK, Bundles
<1>7. CASE KeysHand
  BY <1>0, <1>7, HandedFields
<1> QED BY <1>2, <1>3, <1>4, <1>5, <1>6, <1>7 DEF KeysNext

LEMMA StoreStep == KeysShapes /\ [KeysNext]_keysVars => StoreOK' /\ (Made(phone) => Made(phone)')
<1> SUFFICES ASSUME KeysShapes, [KeysNext]_keysVars
             PROVE  phone' \in Stores /\ (phone.nextSpk > 1 => phone'.nextSpk > 1)
  BY DEF StoreOK, Made
<1>0. phone \in Stores /\ now \in 0..MaxNow /\ job \in Jobs /\ phone.nextSpk \in Nat
  BY StoreFields DEF KeysShapes, StoreOK, WorldOK, JobOK
<1>1. ASSUME phone' = phone PROVE phone' \in Stores /\ (phone.nextSpk > 1 => phone'.nextSpk > 1)
  BY <1>0, <1>1
<1>2. CASE KeysStart
  BY <1>0, <1>1, <1>2, CreatedIsStore DEF KeysStart
<1>3. ASSUME phone.nextOtk <= MaxOtk, phone' = Allocated(phone)
      PROVE  phone' \in Stores /\ (phone.nextSpk > 1 => phone'.nextSpk > 1)
  BY <1>0, <1>3, AllocatedIsStore
<1>4. CASE KeysPublish \/ KeysTopUp \/ KeysLow
  BY <1>1, <1>3, <1>4 DEF KeysPublish, KeysTopUp, KeysLow, AddsKey
<1>5. CASE KeysRotate
  <2>1. ASSUME phone' = Rotated(phone)
        PROVE  phone' \in Stores /\ (phone.nextSpk > 1 => phone'.nextSpk > 1)
    BY <1>0, <2>1, RotatedIsStore
  <2> QED BY <1>1, <1>5, <2>1 DEF KeysRotate
<1>6. CASE KeysDrop
  BY <1>0, <1>6, OtksDroppedIsStore DEF KeysDrop
<1>7. CASE KeysAnswered
  <2>1. ASSUME job.answer = "ok", job.step = "publishing",
               phone' = [phone EXCEPT !.pubAt = now, !.pubFrom = job.req.otk]
        PROVE  phone' \in Stores /\ (phone.nextSpk > 1 => phone'.nextSpk > 1)
    <3>1. job.req.otk \in OneTimeKeys
      BY <1>0, <2>1, JobFields DEF Uploads
    <3> QED BY <1>0, <2>1, <3>1, PublishedIsStore
  <2>2. ASSUME phone' = OldSpksDropped(phone)
        PROVE  phone' \in Stores /\ (phone.nextSpk > 1 => phone'.nextSpk > 1)
    BY <1>0, <2>2, SpksDroppedIsStore
  <2> QED BY <1>1, <1>7, <2>1, <2>2 DEF KeysAnswered
<1>8. ASSUME NEW h \in handed, KeysUse(h)
      PROVE  phone' \in Stores /\ (phone.nextSpk > 1 => phone'.nextSpk > 1)
  BY <1>0, <1>8, UsedIsStore DEF KeysUse
<1>9. CASE \/ KeysBreak \/ KeysExecute \/ KeysTaken \/ KeysHand \/ KeysTick
           \/ (\E req \in stray : KeysLate(req)) \/ UNCHANGED keysVars
  BY <1>1, <1>9 DEF KeysBreak, KeysExecute, KeysTaken, KeysHand, KeysTick, KeysLate, keysVars
<1> QED BY <1>2, <1>4, <1>5, <1>6, <1>7, <1>8, <1>9 DEF KeysNext

LEMMA CurrentIsNat ==
    ASSUME phone \in Stores, \E k \in phone.spks : \A x \in phone.spks : x.id <= k.id
    PROVE  Current(phone) \in phone.spks /\ Current(phone).id \in Nat
<1>1. Current(phone) \in phone.spks
  BY DEF Current
<1> QED BY <1>1, StoreFields DEF SignedKeys

\* The request a task sends is well formed (once getCurrentSignedPreKey finds a key).
LEMMA JobStep == KeysShapes /\ NewestKept /\ [KeysNext]_keysVars => JobOK'
<1> SUFFICES ASSUME KeysShapes, NewestKept, [KeysNext]_keysVars PROVE JobOK'
  OBVIOUS
<1>0. /\ job \in Jobs /\ phone \in Stores /\ (Made(phone) => Made(phone)')
      /\ (job # NoJob => Made(phone)) /\ (job.step = "idle" => job = NoJob)
  BY StoreStep DEF KeysShapes, JobOK, StoreOK
<1>1. ASSUME job' = NoJob PROVE JobOK'
  BY <1>1, NoJobIsJob DEF JobOK
<1>2. ASSUME job' \in Jobs, job'.step # "idle", Made(phone)' PROVE JobOK'
  BY <1>2 DEF JobOK
<1>3. ASSUME job.step # "idle" PROVE Made(phone)'
  BY <1>0, <1>3, NoJobIsJob
<1>4. CASE KeysStart
  <2> DEFINE few == bundle.otks = << >>
             step == IF bundle.of = "this" THEN "rotate" ELSE "publish"
  <2>1. job' = [NoJob EXCEPT !.step = step, !.few = few]
    BY <1>4 DEF KeysStart
  <2>2. few \in BOOLEAN /\ step \in {"rotate", "publish"}
    OBVIOUS
  <2> HIDE DEF few, step
  <2>3. job' = [step |-> step, few |-> few, req |-> NoKeyReq, answer |-> "none"]
    BY <2>1 DEF NoJob
  <2>4. job' \in Jobs /\ job'.step # "idle"
    BY <2>2, <2>3 DEF Jobs
  <2>5. Made(phone)'
    <3>1. CASE Made(phone)
      BY <1>0, <3>1
    <3>2. CASE ~Made(phone)
      <4>1. phone' = Created(phone) /\ now \in 0..MaxNow
        BY <1>4, <3>2 DEF KeysStart, KeysShapes, WorldOK
      <4> QED BY <1>0, <4>1, CreatedIsStore DEF Made
    <3> QED BY <3>1, <3>2
  <2> QED BY <1>2, <2>4, <2>5
<1>5. CASE KeysPublish
  <2>1. Current(phone).id \in Nat
    <3>1. job.step # "idle"
      BY <1>5 DEF KeysPublish
    <3>2. Made(phone)
      BY <1>0, <3>1, NoJobIsJob
    <3>3. \E k \in phone.spks : \A x \in phone.spks : x.id <= k.id
      BY <3>2 DEF NewestKept, HoldsSigned
    <3> QED BY <1>0, <3>3, CurrentIsNat
  <2>2. phone.nextOtk \in OneTimeKeys
    BY <1>0, <1>5, AllocatedIsStore DEF KeysPublish
  <2> DEFINE req == [kind |-> "upload", spk |-> Current(phone).id, otk |-> phone.nextOtk]
  <2>3. req \in Uploads
    BY <2>1, <2>2 DEF Uploads
  <2>4. JobSends("publishing", req) /\ job.step # "idle"
    BY <1>5 DEF KeysPublish
  <2> HIDE DEF req
  <2>5. job' \in Jobs /\ job'.step = "publishing"
    BY <1>0, <2>3, <2>4, JobSendsOff
  <2> QED BY <1>2, <1>3, <2>4, <2>5
<1>6. CASE KeysRotate
  <2>1. job.step # "idle"
    BY <1>6 DEF KeysRotate
  <2>2. CASE JobGoes("topUp")
    BY <1>0, <1>2, <1>3, <2>1, <2>2, JobGoesOn
  <2> DEFINE req == [kind |-> "rotate", spk |-> phone.nextSpk, otk |-> 0]
  <2>3. CASE JobSends("rotating", req)
    <3>1. req \in Rotations
      BY <1>0, StoreFields DEF Rotations
    <3> HIDE DEF req
    <3>2. job' \in Jobs /\ job'.step = "rotating"
      BY <1>0, <2>3, <3>1, JobSendsOff
    <3> QED BY <1>2, <1>3, <2>1, <3>2
  <2> QED BY <1>6, <2>2, <2>3 DEF KeysRotate
<1>7. ASSUME NEW step \in {"adding", "addingOnly"}, AddsKey(step), Made(phone) PROVE JobOK'
  <2> DEFINE req == [kind |-> "add", spk |-> 0, otk |-> phone.nextOtk]
  <2>1. req \in Additions /\ JobSends(step, req)
    BY <1>0, <1>7, AllocatedIsStore DEF AddsKey, Additions
  <2> HIDE DEF req
  <2>2. job' \in Jobs /\ job'.step = step
    BY <1>0, <2>1, JobSendsOff
  <2> QED BY <1>0, <1>2, <1>7, <2>2
<1>8. CASE KeysTopUp
  <2>1. job.step # "idle" /\ Made(phone)
    BY <1>0, <1>8, NoJobIsJob DEF KeysTopUp
  <2>2. CASE AddsKey("adding")
    BY <1>7, <2>1, <2>2
  <2>3. CASE JobGoes("drop")
    BY <1>0, <1>2, <1>3, <2>1, <2>3, JobGoesOn
  <2> QED BY <1>8, <2>2, <2>3 DEF KeysTopUp
<1>9. CASE KeysLow
  BY <1>7, <1>9 DEF KeysLow
<1>10. CASE KeysDrop \/ KeysBreak
  BY <1>1, <1>10 DEF KeysDrop, KeysBreak, JobEnds
<1>11. CASE KeysAnswered
  <2>1. CASE JobEnds
    BY <1>1, <2>1 DEF JobEnds
  <2>2. ASSUME NEW step \in {"topUp", "drop"}, JobGoes(step), job.step # "idle" PROVE JobOK'
    BY <1>0, <1>2, <1>3, <2>2, JobGoesOn
  <2> QED BY <1>11, <2>1, <2>2 DEF KeysAnswered
<1>12. CASE KeysExecute
  <2>1. PICK answer \in {"ok", "refused"} : job' = [job EXCEPT !.answer = answer]
    BY <1>12 DEF KeysExecute
  <2>2. job.answer # "none" /\ job.step # "idle"
    BY <1>0, <1>12, NoJobIsJob DEF KeysExecute
  <2>3. job' \in Jobs /\ job'.step = job.step
    BY <1>0, <2>1, <2>2, JobAnswered DEF Answers
  <2> QED BY <1>2, <1>3, <2>2, <2>3
<1>13. CASE \/ KeysTaken \/ KeysHand \/ KeysTick \/ (\E req \in stray : KeysLate(req))
            \/ (\E h \in handed : KeysUse(h)) \/ UNCHANGED keysVars
  <2>1. job' = job
    BY <1>13 DEF KeysTaken, KeysHand, KeysTick, KeysLate, KeysUse, keysVars
  <2> QED BY <1>0, <2>1 DEF JobOK
<1> QED BY <1>4, <1>5, <1>6, <1>8, <1>9, <1>10, <1>11, <1>12, <1>13 DEF KeysNext

\* A bundle handed out is a new record; one whose first message is read is marked.
LEMMA UsedFields ==
    ASSUME handed \subseteq Handouts, NEW h \in handed
    PROVE  LET g == [h EXCEPT !.used = TRUE] IN
           /\ g \in Handouts /\ g.n = h.n /\ g.spk = h.spk /\ g.otk = h.otk /\ g.at = h.at
           /\ g.used
BY DEF Handouts

LEMMA HandedStep == KeysShapes /\ [KeysNext]_keysVars => HandedOK'
<1> SUFFICES ASSUME KeysShapes, [KeysNext]_keysVars PROVE HandedOK'
  OBVIOUS
<1>0. /\ handed \subseteq Handouts /\ IsFiniteSet(handed) /\ Cardinality(handed) <= MaxHanded
      /\ Cardinality(handed) \in Nat /\ now \in 0..MaxNow /\ MaxHanded \in Nat /\ BundleOK
  BY FS_CardinalityType, KeysBounds DEF KeysShapes, HandedOK, WorldOK
<1>1. CASE KeysHand
  <2> DEFINE otk == IF bundle.otks = << >> THEN 0 ELSE Head(bundle.otks)
             h == [n |-> Cardinality(handed), spk |-> bundle.spk, otk |-> otk, at |-> now,
                   used |-> FALSE]
  <2>1. handed' = handed \cup {h}
    BY <1>0, <1>1, HandedFields
  <2>2. bundle.spk \in Nat /\ otk \in 0..MaxOtk
    <3>1. CASE bundle.otks = << >>
      BY <1>0, <3>1, KeysBounds DEF BundleOK, Bundles
    <3>2. CASE bundle.otks # << >>
      BY <1>0, <3>2, HeadTailProperties, KeysBounds DEF BundleOK, Bundles, OneTimeKeys
    <3> QED BY <3>1, <3>2
  <2> HIDE DEF otk
  <2>3. h \in Handouts
    BY <1>0, <2>2 DEF Handouts
  <2> HIDE DEF h
  <2>4. IsFiniteSet(handed \cup {h}) /\ Cardinality(handed \cup {h}) <= Cardinality(handed) + 1
    BY <1>0, FS_AddElement
  <2>5. Cardinality(handed) < MaxHanded
    BY <1>1 DEF KeysHand
  <2>6. Cardinality(handed \cup {h}) \in Nat
    BY <2>4, FS_CardinalityType
  <2> QED BY <1>0, <2>1, <2>3, <2>4, <2>5, <2>6 DEF HandedOK
<1>2. ASSUME NEW h \in handed, KeysUse(h) PROVE HandedOK'
  <2> DEFINE g == [h EXCEPT !.used = TRUE]
             rest == handed \ {h}
  <2>1. handed' = rest \cup {g} /\ g \in Handouts
    BY <1>0, <1>2, UsedFields DEF KeysUse
  <2> HIDE DEF g
  <2>2. /\ IsFiniteSet(rest) /\ Cardinality(rest) = Cardinality(handed) - 1
        /\ Cardinality(rest) \in Nat
    BY <1>0, FS_RemoveElement, FS_CardinalityType
  <2> HIDE DEF rest
  <2>3. IsFiniteSet(rest \cup {g}) /\ Cardinality(rest \cup {g}) <= Cardinality(rest) + 1
    BY <1>0, <2>2, FS_AddElement
  <2>4. Cardinality(rest \cup {g}) \in Nat
    BY <2>3, FS_CardinalityType
  <2>5. rest \subseteq handed
    BY DEF rest
  <2> QED BY <1>0, <2>1, <2>2, <2>3, <2>4, <2>5 DEF HandedOK
<1>3. ASSUME handed' = handed PROVE HandedOK'
  BY <1>0, <1>3 DEF HandedOK
<1>4. CASE \/ KeysStart \/ KeysPublish \/ KeysRotate \/ KeysTopUp \/ KeysLow \/ KeysDrop
           \/ KeysAnswered
  BY <1>3, <1>4 DEF KeysStart, KeysPublish, KeysRotate, KeysTopUp, KeysLow, KeysDrop,
                    KeysAnswered, KeysWorldUnchanged
<1>5. CASE \/ KeysBreak \/ KeysTick \/ KeysExecute \/ KeysTaken
           \/ (\E req \in stray : KeysLate(req)) \/ UNCHANGED keysVars
  BY <1>3, <1>5 DEF KeysBreak, KeysTick, KeysExecute, KeysTaken, KeysLate, keysVars
<1> QED BY <1>1, <1>2, <1>4, <1>5 DEF KeysNext

LEMMA WorldStep == KeysShapes /\ [KeysNext]_keysVars => WorldOK'
<1> SUFFICES ASSUME KeysShapes, [KeysNext]_keysVars PROVE WorldOK'
  OBVIOUS
<1> DEFINE Requests == Uploads \cup Rotations \cup Additions
<1>0. /\ stray \subseteq Requests /\ low \in BOOLEAN /\ floated \in BOOLEAN /\ now \in 0..MaxNow
      /\ job \in Jobs
  BY DEF KeysShapes, WorldOK, JobOK
<1> HIDE DEF Requests
<1>1. ASSUME stray' \subseteq Requests, low' \in BOOLEAN, floated' \in BOOLEAN,
             now' \in 0..MaxNow
      PROVE  WorldOK'
  BY <1>1 DEF WorldOK, Requests
<1>2. CASE KeysStart \/ KeysPublish \/ KeysRotate \/ KeysTopUp \/ KeysDrop \/ KeysAnswered
  <2>1. UNCHANGED <<stray, low, floated, now>>
    BY <1>2 DEF KeysStart, KeysPublish, KeysRotate, KeysTopUp, KeysDrop, KeysAnswered,
                KeysWorldUnchanged
  <2> QED BY <1>0, <1>1, <2>1
<1>3. CASE KeysLow
  <2>1. low' = FALSE /\ UNCHANGED <<stray, floated, now>>
    BY <1>3 DEF KeysLow, KeysWorldUnchanged
  <2>2. low' \in BOOLEAN
    BY <2>1
  <2> QED BY <1>0, <1>1, <2>1, <2>2
<1>4. CASE KeysBreak
  <2>1. job.answer = "sent" => job.req \in Requests
    BY <1>0, JobFields DEF Requests
  <2>2. stray' \subseteq Requests /\ UNCHANGED <<low, floated, now>>
    BY <1>0, <1>4, <2>1 DEF KeysBreak
  <2> QED BY <1>0, <1>1, <2>2
<1>5. CASE KeysTaken \/ KeysExecute \/ \E h \in handed : KeysUse(h)
  <2>1. UNCHANGED <<stray, low, floated, now>>
    BY <1>5 DEF KeysTaken, KeysExecute, KeysUse
  <2> QED BY <1>0, <1>1, <2>1
<1>6. CASE KeysHand
  <2>1. low' \in {low, low \/ Len(bundle.otks) <= 1} /\ UNCHANGED <<stray, floated, now>>
    BY <1>6 DEF KeysHand
  <2>2. low' \in BOOLEAN
    BY <1>0, <2>1
  <2> QED BY <1>0, <1>1, <2>1, <2>2
<1>7. ASSUME NEW req \in stray, KeysLate(req) PROVE WorldOK'
  <2>1. floated' = TRUE /\ stray' = stray \ {req} /\ UNCHANGED <<low, now>>
    BY <1>7 DEF KeysLate
  <2>2. floated' \in BOOLEAN /\ stray' \subseteq Requests
    BY <1>0, <2>1
  <2> QED BY <1>0, <1>1, <2>1, <2>2
<1>8. CASE KeysTick
  <2>1. now' = now + 1 /\ now < MaxNow /\ UNCHANGED <<stray, low, floated>>
    BY <1>8 DEF KeysTick
  <2>2. now' \in 0..MaxNow
    BY <1>0, <2>1, KeysBounds
  <2> QED BY <1>0, <1>1, <2>1, <2>2
<1>9. CASE UNCHANGED keysVars
  <2>1. UNCHANGED <<stray, low, floated, now>>
    BY <1>9 DEF keysVars
  <2> QED BY <1>0, <1>1, <2>1
<1> QED BY <1>2, <1>3, <1>4, <1>5, <1>6, <1>7, <1>8, <1>9 DEF KeysNext

-----------------------------------------------------------------------------
(* The newest signed key *)

LEMMA CurrentIsNewest ==
    ASSUME phone \in Stores, NewestKept, Made(phone)
    PROVE  Current(phone).id = Newest /\ Newest \in Nat
<1>1. PICK k \in phone.spks : k.id = Newest
  BY DEF NewestKept, HoldsSigned
<1>2. \A x \in phone.spks : x.id <= Newest /\ x.id \in Nat
  BY StoreFields DEF NewestKept, SignedKeys
<1>3. Current(phone) \in phone.spks /\ \A x \in phone.spks : x.id <= Current(phone).id
  BY <1>1, <1>2 DEF Current
<1>4. Newest \in Nat
  BY StoreFields DEF Newest
<1> QED BY <1>1, <1>2, <1>3, <1>4

LEMMA NewestStep == KeysShapes /\ NewestKept /\ [KeysNext]_keysVars => NewestKept'
<1> SUFFICES ASSUME KeysShapes, NewestKept, [KeysNext]_keysVars PROVE NewestKept'
  OBVIOUS
<1>0. /\ phone \in Stores /\ now \in 0..MaxNow /\ (job # NoJob => Made(phone))
      /\ phone.nextSpk \in Nat \ {0} /\ phone.spks \subseteq SignedKeys /\ job \in Jobs
  BY StoreFields DEF KeysShapes, StoreOK, WorldOK, JobOK
<1>1. ASSUME phone'.spks = phone.spks, phone'.nextSpk = phone.nextSpk PROVE NewestKept'
  BY <1>1 DEF NewestKept, Newest, Made, HoldsSigned
<1>2. CASE KeysStart
  <2>1. CASE Made(phone)
    BY <1>1, <1>2, <2>1 DEF KeysStart
  <2>2. CASE ~Made(phone)
    <3>1. phone'.spks = {[id |-> 1, at |-> now]} /\ phone'.nextSpk = 2
      BY <1>0, <1>2, <2>2, CreatedIsStore DEF KeysStart
    <3> QED BY <3>1 DEF NewestKept, Newest, Made, HoldsSigned
  <2> QED BY <2>1, <2>2
<1>3. ASSUME phone.nextOtk <= MaxOtk, phone' = Allocated(phone) PROVE NewestKept'
  BY <1>0, <1>1, <1>3, AllocatedIsStore
<1>4. CASE KeysPublish \/ KeysLow
  BY <1>3, <1>4 DEF KeysPublish, KeysLow, AddsKey
<1>5. CASE KeysTopUp
  BY <1>1, <1>3, <1>5 DEF KeysTopUp, AddsKey
<1>6. CASE KeysRotate
  <2>1. CASE phone' = phone
    BY <1>1, <2>1
  <2>2. CASE phone' = Rotated(phone)
    <3> DEFINE k == [id |-> phone.nextSpk, at |-> now]
    <3>1. phone'.spks = phone.spks \cup {k} /\ phone'.nextSpk = phone.nextSpk + 1
      BY <1>0, <2>2, RotatedIsStore
    <3>2. k.id = phone.nextSpk
      OBVIOUS
    <3> HIDE DEF k
    <3>3. \A x \in phone.spks : x.id \in Nat /\ x.id <= phone.nextSpk - 1
      BY <1>0 DEF NewestKept, Newest, SignedKeys
    <3>4. Newest' = phone.nextSpk
      BY <1>0, <3>1 DEF Newest
    <3>5. \A x \in phone'.spks : x.id <= Newest'
      BY <1>0, <3>1, <3>2, <3>3, <3>4
    <3>6. HoldsSigned(Newest)'
      BY <3>1, <3>2, <3>4 DEF HoldsSigned
    <3>7. Made(phone)'
      BY <1>0, <3>1 DEF Made
    <3> QED BY <3>5, <3>6, <3>7 DEF NewestKept
  <2> QED BY <1>6, <2>1, <2>2 DEF KeysRotate
<1>7. CASE KeysDrop
  BY <1>0, <1>1, <1>7, OtksDroppedIsStore DEF KeysDrop
<1>8. CASE KeysAnswered
  <2>1. CASE phone' = phone
    BY <1>1, <2>1
  <2>2. ASSUME job.answer = "ok", job.step = "publishing",
               phone' = [phone EXCEPT !.pubAt = now, !.pubFrom = job.req.otk]
        PROVE  NewestKept'
    <3>1. job.req.otk \in OneTimeKeys
      BY <1>0, <2>2, JobFields DEF Uploads
    <3> QED BY <1>0, <1>1, <2>2, <3>1, PublishedIsStore
  <2>3. ASSUME phone' = OldSpksDropped(phone), job.answer = "ok" PROVE NewestKept'
    <3>1. Made(phone)
      BY <1>0, <2>3, NoJobIsJob
    <3>2. Current(phone).id = Newest
      BY <1>0, <3>1, CurrentIsNewest
    <3>3. /\ phone'.spks = {k \in phone.spks : k.at + Keep >= now \/ k.id = Current(phone).id}
          /\ phone'.nextSpk = phone.nextSpk
      BY <1>0, <2>3, SpksDroppedIsStore
    <3>4. Newest' = Newest /\ Made(phone)'
      BY <3>1, <3>3 DEF Newest, Made
    <3>5. PICK k \in phone.spks : k.id = Newest
      BY <3>1 DEF NewestKept, HoldsSigned
    <3>6. HoldsSigned(Newest)'
      BY <3>2, <3>3, <3>4, <3>5 DEF HoldsSigned
    <3>7. \A x \in phone'.spks : x.id <= Newest'
      BY <3>3, <3>4 DEF NewestKept
    <3> QED BY <3>4, <3>6, <3>7 DEF NewestKept
  <2> QED BY <1>8, <2>1, <2>2, <2>3 DEF KeysAnswered
<1>9. ASSUME NEW h \in handed, KeysUse(h) PROVE NewestKept'
  BY <1>0, <1>1, <1>9, UsedIsStore DEF KeysUse
<1>10. CASE \/ KeysBreak \/ KeysExecute \/ KeysTaken \/ KeysHand \/ KeysTick
            \/ (\E req \in stray : KeysLate(req)) \/ UNCHANGED keysVars
  BY <1>1, <1>10 DEF KeysBreak, KeysExecute, KeysTaken, KeysHand, KeysTick, KeysLate, keysVars
<1> QED BY <1>2, <1>4, <1>5, <1>6, <1>7, <1>8, <1>9, <1>10 DEF KeysNext

LEMMA NewestInit == KeysInit => NewestKept
BY DEF KeysInit, NoKeys, NewestKept, Made

KeysShaped == KeysShapes /\ NewestKept

LEMMA ShapedStep == KeysShaped /\ [KeysNext]_keysVars => KeysShaped'
BY BundleStep, StoreStep, JobStep, HandedStep, WorldStep, NewestStep DEF KeysShapes, KeysShaped

LEMMA ShapedIsTyped == KeysShapes => KeysTypeOK
<1> SUFFICES ASSUME KeysShapes PROVE KeysTypeOK
  OBVIOUS
<1>1. /\ bundle.of \in {"none", "this", "other"} /\ bundle.spk \in Nat
      /\ \A k \in DOMAIN bundle.otks : bundle.otks[k] \in 1..MaxOtk
  <2>1. bundle.otks \in Seq(OneTimeKeys)
    BY DEF KeysShapes, BundleOK, Bundles
  <2>2. \A k \in DOMAIN bundle.otks : bundle.otks[k] \in OneTimeKeys
    BY <2>1, ElementOfSeq, LenProperties
  <2> QED BY <2>2 DEF KeysShapes, BundleOK, Bundles, OneTimeKeys
<1>2. /\ phone.spks \subseteq [id : Nat, at : 0..MaxNow] /\ phone.otks \subseteq 1..MaxOtk
      /\ phone.pubFrom \in 0..MaxOtk /\ phone.pubAt \in 0..MaxNow
  BY StoreFields DEF KeysShapes, StoreOK, SignedKeys, OneTimeKeys
<1>3. job \in Jobs /\ stray \subseteq Uploads \cup Rotations \cup Additions
  BY DEF KeysShapes, JobOK, WorldOK
<1>4. Uploads \cup Rotations \cup Additions \subseteq Reqs
  <2>1. OneTimeKeys \subseteq Nat
    BY DEF OneTimeKeys
  <2>2. Uploads \subseteq Reqs
    BY <2>1 DEF Uploads, Reqs
  <2>3. Rotations \subseteq Reqs
    BY <2>1 DEF Rotations, Reqs
  <2>4. Additions \subseteq Reqs
    <3> SUFFICES ASSUME NEW r \in Additions PROVE r \in Reqs
      OBVIOUS
    <3>1. /\ r = [kind |-> r.kind, spk |-> r.spk, otk |-> r.otk]
          /\ r.kind = "add" /\ r.spk = 0 /\ r.otk \in OneTimeKeys
      BY DEF Additions
    <3>2. r.spk \in Nat /\ r.otk \in Nat
      BY <2>1, <3>1
    <3> QED BY <3>1, <3>2 DEF Reqs
  <2> QED BY <2>2, <2>3, <2>4
<1>5. /\ job.step \in {"idle", "publish", "rotate", "topUp", "drop",
                       "publishing", "rotating", "adding", "addingOnly"}
      /\ job.answer \in {"none", "sent", "ok", "refused"} /\ job.few \in BOOLEAN
      /\ IF job.answer = "none" THEN job.req = NoKeyReq ELSE job.req \in Reqs
  BY <1>3, <1>4, JobFields DEF Answers
<1> QED BY <1>1, <1>2, <1>3, <1>4, <1>5 DEF KeysTypeOK, KeysShapes, WorldOK, HandedOK

(***************************************************************************)
(* Every reachable state of PreKeys has the right types, for any bounds:   *)
(* in particular a task waits for an answer exactly at the steps that sent *)
(* a request, and the store never lacks the signed key it would publish.   *)
(***************************************************************************)
THEOREM KeysTypeCorrect == KeysSpec => []KeysTypeOK
<1>1. KeysInit => KeysShaped
  BY KeysShapesInit, NewestInit DEF KeysShaped
<1>2. KeysShaped /\ [KeysNext]_keysVars => KeysShaped'
  BY ShapedStep
<1>3. KeysShaped => KeysTypeOK
  BY ShapedIsTyped DEF KeysShaped
<1> QED BY <1>1, <1>2, <1>3, PTL DEF KeysSpec

-----------------------------------------------------------------------------
(* The keys that are out *)

LEMMA KeyNumbers ==
    ASSUME KeysShapes
    PROVE  /\ now \in Nat /\ Keep \in Nat /\ phone.pubAt \in Nat /\ phone.pubFrom \in Nat
           /\ phone.nextOtk \in Nat /\ phone.nextSpk \in Nat \ {0}
           /\ phone.otks \subseteq Nat \ {0} /\ Offered \subseteq Nat \ {0}
           /\ HandedOut \subseteq Nat
           /\ \A h \in handed : h.at \in Nat /\ h.otk \in Nat
           /\ bundle.otks \in Seq(OneTimeKeys)
           /\ job.answer # "none" => job.req.otk \in Nat
<1>0. OneTimeKeys \subseteq Nat \ {0} /\ 0..MaxOtk \subseteq Nat /\ 0..MaxNow \subseteq Nat
  BY KeysBounds DEF OneTimeKeys
<1>1. /\ phone.pubAt \in Nat /\ phone.pubFrom \in Nat /\ phone.nextOtk \in Nat
      /\ phone.nextSpk \in Nat \ {0} /\ phone.otks \subseteq Nat \ {0}
  <2>1. phone \in Stores
    BY DEF KeysShapes, StoreOK
  <2>2. phone.pubAt \in 0..MaxNow /\ phone.pubFrom \in 0..MaxOtk
    BY <2>1, StoreFields
  <2>3. phone.otks \subseteq OneTimeKeys /\ phone.nextSpk \in Nat \ {0}
    BY <2>1, StoreFields
  <2>4. phone.nextOtk \in 1..(MaxOtk + 1)
    BY <2>1, StoreFields
  <2>5. phone.nextOtk \in Nat
    BY <2>4, KeysBounds
  <2> QED BY <1>0, <2>2, <2>3, <2>5
<1>2. now \in Nat /\ Keep \in Nat
  BY <1>0, KeysBounds DEF KeysShapes, WorldOK
<1>3. \A h \in handed : h.at \in Nat /\ h.otk \in Nat
  BY <1>0 DEF KeysShapes, HandedOK, Handouts
<1>4. HandedOut \subseteq Nat
  BY <1>3 DEF HandedOut
<1>5. bundle.otks \in Seq(OneTimeKeys)
  BY DEF KeysShapes, BundleOK, Bundles
<1>6. Offered \subseteq Nat \ {0}
  <2>1. \A k \in DOMAIN bundle.otks : bundle.otks[k] \in OneTimeKeys
    BY <1>5, ElementOfSeq, LenProperties
  <2> QED BY <1>0, <2>1 DEF Offered, Members
<1>7. job.answer # "none" => job.req.otk \in Nat
  <2>1. job \in Jobs
    BY DEF KeysShapes, JobOK
  <2>2. CASE job.req \in Uploads \/ job.req \in Additions
    <3>1. job.req.otk \in OneTimeKeys
      BY <2>2 DEF Uploads, Additions
    <3> QED BY <1>0, <3>1
  <2>3. CASE job.req \in Rotations
    <3>1. job.req.otk = 0
      BY <2>3 DEF Rotations
    <3> QED BY <3>1
  <2> QED BY <2>1, <2>2, <2>3, JobFields
<1> QED BY <1>1, <1>2, <1>3, <1>4, <1>5, <1>6, <1>7

\* The step leaves everything but the task and counters as it is, and waits for nothing.
LEMMA NothingSent ==
    ASSUME KeysShapes, KeysStand, UNCHANGED <<phone, bundle, handed>>, now' \in {now, now + 1},
           job'.answer = "none" \/ job' = job,
           job' = job \/ job'.step \notin {"rotating", "publishing"}
    PROVE  KeysStand'
<1>1. UNCHANGED <<Offered, HandedOut, Newest>>
  BY DEF Offered, HandedOut, Newest, Members
<1>2. OfferedOnce'
  BY <1>1 DEF KeysStand, OfferedOnce, Distinct
<1>3. SignedIsHeld'
  BY <1>1 DEF KeysStand, SignedIsHeld, HoldsSigned
<1>4. RequestIsNew'
  BY <1>1 DEF KeysStand, RequestIsNew
<1>5. InOrder'
  BY <1>1, KeyNumbers DEF KeysStand, InOrder
<1>6. OneTimeKeysKept'
  BY KeyNumbers DEF KeysStand, OneTimeKeysKept
<1> QED BY <1>2, <1>3, <1>4, <1>5, <1>6 DEF KeysStand

\* A new one-time key is made and sent, or the install is made.
LEMMA AllocatedStands ==
    ASSUME KeysShapes, KeysStand, UNCHANGED <<bundle, handed, now>>,
           phone.nextOtk <= MaxOtk, phone' = Allocated(phone),
           job'.answer = "sent", job'.step # "rotating", job'.req.kind # "rotate",
           job'.req.otk = phone.nextOtk,
           job'.req.kind = "upload" => job'.req.spk = Newest
    PROVE  KeysStand'
<1>0. /\ phone'.spks = phone.spks /\ phone'.nextSpk = phone.nextSpk
      /\ phone'.pubAt = phone.pubAt /\ phone'.pubFrom = phone.pubFrom
      /\ phone'.otks = phone.otks \cup {phone.nextOtk} /\ phone'.nextOtk = phone.nextOtk + 1
  BY AllocatedIsStore DEF KeysShapes, StoreOK
<1>1. Offered' = Offered /\ HandedOut' = HandedOut /\ Newest' = Newest
  BY <1>0 DEF Offered, HandedOut, Newest, Members
<1>2. OfferedOnce'
  BY <1>0, <1>1 DEF KeysStand, OfferedOnce
<1>3. SignedIsHeld'
  BY <1>0 DEF KeysStand, SignedIsHeld, HoldsSigned
<1>4. RequestIsNew'
  <2>1. phone.nextOtk \notin Offered \cup HandedOut
    BY KeyNumbers DEF KeysStand, InOrder, OfferedOnce
  <2>2. phone.nextOtk >= phone.pubFrom /\ phone.nextOtk < phone.nextOtk + 1
    BY KeyNumbers DEF KeysStand, InOrder
  <2> QED BY <1>0, <1>1, <2>1, <2>2 DEF RequestIsNew
<1>5. InOrder'
  <2>1. \A k \in phone'.otks \cup HandedOut' : k < phone'.nextOtk
    BY <1>0, <1>1, KeyNumbers DEF KeysStand, InOrder
  <2>2. phone'.pubFrom < phone'.nextOtk
    BY <1>0, KeyNumbers DEF KeysStand, InOrder
  <2> QED BY <1>0, <2>1, <2>2 DEF KeysStand, InOrder
<1>6. OneTimeKeysKept'
  BY <1>0 DEF KeysStand, OneTimeKeysKept
<1> QED BY <1>2, <1>3, <1>4, <1>5, <1>6 DEF KeysStand

LEMMA StartStands == KeysShaped /\ KeysStand /\ KeysStart => KeysStand'
<1> SUFFICES ASSUME KeysShapes, NewestKept, KeysStand, KeysStart PROVE KeysStand'
  BY DEF KeysShaped
<1>0. /\ UNCHANGED <<bundle, handed, now>> /\ job'.answer = "none"
      /\ job'.step \notin {"rotating", "publishing"}
  BY DEF KeysStart, KeysWorldUnchanged, NoJob
<1>1. CASE Made(phone)
  BY <1>0, <1>1, NothingSent DEF KeysStart
<1>2. CASE ~Made(phone)
  <2>1. phone \in Stores /\ now \in 0..MaxNow /\ phone' = Created(phone)
    BY <1>2 DEF KeysShapes, StoreOK, WorldOK, KeysStart
  <2>2. /\ phone'.otks = phone.otks /\ phone'.nextOtk = phone.nextOtk /\ phone'.pubAt = phone.pubAt
        /\ phone'.pubFrom = phone.pubFrom
    BY <2>1, CreatedIsStore
  <2>3. Offered' = Offered /\ HandedOut' = HandedOut
    BY <1>0 DEF Offered, HandedOut, Members
  <2>4. OfferedOnce'
    BY <1>0, <2>2, <2>3 DEF KeysStand, OfferedOnce
  <2>5. SignedIsHeld'
    <3>1. bundle.of # "this"
      BY <1>2 DEF KeysStand, SignedIsHeld, NewestKept, HoldsSigned
    <3> QED BY <1>0, <3>1 DEF SignedIsHeld
  <2>6. RequestIsNew'
    BY <1>0 DEF RequestIsNew
  <2>7. InOrder'
    BY <1>0, <2>2, <2>3 DEF KeysStand, InOrder
  <2>8. OneTimeKeysKept'
    BY <1>0, <2>2 DEF KeysStand, OneTimeKeysKept
  <2> QED BY <2>4, <2>5, <2>6, <2>7, <2>8 DEF KeysStand
<1> QED BY <1>1, <1>2

\* A task that has begun, and its requests.
LEMMA TaskStands ==
    KeysShaped /\ KeysStand /\ (KeysPublish \/ KeysTopUp \/ KeysLow) => KeysStand'
<1> SUFFICES ASSUME KeysShapes, NewestKept, KeysStand, KeysPublish \/ KeysTopUp \/ KeysLow
             PROVE  KeysStand'
  BY DEF KeysShaped
<1>0. job \in Jobs /\ phone \in Stores /\ (job # NoJob => Made(phone))
  BY DEF KeysShapes, JobOK, StoreOK
<1>1. UNCHANGED <<bundle, handed, now>>
  BY DEF KeysPublish, KeysTopUp, KeysLow, KeysWorldUnchanged
<1>2. CASE KeysPublish
  <2> DEFINE req == [kind |-> "upload", spk |-> Current(phone).id, otk |-> phone.nextOtk]
  <2>1. /\ phone.nextOtk <= MaxOtk /\ phone' = Allocated(phone)
        /\ JobSends("publishing", req) /\ job.step = "publish"
    BY <1>2 DEF KeysPublish
  <2>2. Current(phone).id = Newest /\ Newest \in Nat
    BY <1>0, <2>1, NoJobIsJob, CurrentIsNewest
  <2>3. req \in Uploads
    BY <1>0, <2>1, <2>2, AllocatedIsStore DEF Uploads
  <2>4. req.kind = "upload" /\ req.otk = phone.nextOtk /\ req.spk = Newest
    BY <2>2
  <2> HIDE DEF req
  <2>5. job'.answer = "sent" /\ job'.step = "publishing" /\ job'.req = req
    BY <1>0, <2>1, <2>3, JobSendsOff
  <2> QED BY <1>1, <2>1, <2>4, <2>5, AllocatedStands
<1>3. ASSUME NEW step \in {"adding", "addingOnly"}, AddsKey(step) PROVE KeysStand'
  <2> DEFINE req == [kind |-> "add", spk |-> 0, otk |-> phone.nextOtk]
  <2>1. phone.nextOtk <= MaxOtk /\ phone' = Allocated(phone) /\ JobSends(step, req)
    BY <1>3 DEF AddsKey
  <2>2. req \in Additions
    BY <1>0, <2>1, AllocatedIsStore DEF Additions
  <2>3. req.kind = "add" /\ req.otk = phone.nextOtk
    OBVIOUS
  <2> HIDE DEF req
  <2>4. job'.answer = "sent" /\ job'.step = step /\ job'.req = req
    BY <1>0, <2>1, <2>2, JobSendsOff
  <2> QED BY <1>1, <2>1, <2>3, <2>4, AllocatedStands
<1>4. CASE KeysTopUp
  <2>1. CASE JobGoes("drop") /\ UNCHANGED phone
    BY <1>0, <1>1, <2>1, JobGoesOn, NothingSent
  <2> QED BY <1>3, <1>4, <2>1 DEF KeysTopUp
<1>5. CASE KeysLow
  BY <1>3, <1>5 DEF KeysLow
<1> QED BY <1>2, <1>4, <1>5

LEMMA RotateStands == KeysShaped /\ KeysStand /\ KeysRotate => KeysStand'
<1> SUFFICES ASSUME KeysShapes, NewestKept, KeysStand, KeysRotate PROVE KeysStand'
  BY DEF KeysShaped
<1>0. job \in Jobs /\ phone \in Stores /\ now \in 0..MaxNow /\ phone.nextSpk \in Nat
  BY StoreFields DEF KeysShapes, JobOK, StoreOK, WorldOK
<1>1. UNCHANGED <<bundle, handed, now>>
  BY DEF KeysRotate, KeysWorldUnchanged
<1>2. CASE JobGoes("topUp") /\ UNCHANGED phone
  BY <1>0, <1>1, <1>2, JobGoesOn, NothingSent
<1> DEFINE req == [kind |-> "rotate", spk |-> phone.nextSpk, otk |-> 0]
<1>3. CASE phone' = Rotated(phone) /\ JobSends("rotating", req)
  <2>1. /\ phone'.spks = phone.spks \cup {[id |-> phone.nextSpk, at |-> now]}
        /\ phone'.nextSpk = phone.nextSpk + 1 /\ phone'.otks = phone.otks
        /\ phone'.nextOtk = phone.nextOtk /\ phone'.pubAt = phone.pubAt
        /\ phone'.pubFrom = phone.pubFrom
    BY <1>0, <1>3, RotatedIsStore
  <2>2. req \in Rotations /\ req.kind = "rotate" /\ req.spk = phone.nextSpk /\ req.otk = 0
    BY <1>0 DEF Rotations
  <2> HIDE DEF req
  <2>3. job'.answer = "sent" /\ job'.step = "rotating" /\ job'.req = req
    BY <1>0, <1>3, <2>2, JobSendsOff
  <2>4. Offered' = Offered /\ HandedOut' = HandedOut
    BY <1>1 DEF Offered, HandedOut, Members
  <2>5. OfferedOnce'
    BY <1>1, <2>1, <2>4 DEF KeysStand, OfferedOnce
  <2>6. SignedIsHeld'
    BY <1>1, <2>1, <2>3 DEF KeysStand, SignedIsHeld, HoldsSigned
  <2>7. RequestIsNew'
    <3>1. phone.nextOtk > 0
      BY KeyNumbers DEF KeysStand, InOrder
    <3>2. Newest' = phone.nextSpk
      BY <1>0, <2>1 DEF Newest
    <3> QED BY <2>1, <2>2, <2>3, <3>1, <3>2, KeyNumbers DEF RequestIsNew
  <2>8. InOrder'
    BY <1>1, <2>1, <2>4 DEF KeysStand, InOrder
  <2>9. OneTimeKeysKept'
    BY <1>1, <2>1 DEF KeysStand, OneTimeKeysKept
  <2> QED BY <2>5, <2>6, <2>7, <2>8, <2>9 DEF KeysStand
<1> QED BY <1>2, <1>3 DEF KeysRotate

\* A one-time key that is dropped is neither offered nor awaited.
LEMMA DropStands == KeysShaped /\ KeysStand /\ KeysDrop => KeysStand'
<1> SUFFICES ASSUME KeysShapes, KeysStand, KeysDrop PROVE KeysStand'
  BY DEF KeysShaped
<1>0. /\ UNCHANGED <<bundle, handed, now>> /\ phone' = OldOtksDropped(phone) /\ phone \in Stores
      /\ job'.answer = "none" /\ job'.step = "idle"
  BY DEF KeysDrop, KeysWorldUnchanged, JobEnds, NoJob, KeysShapes, StoreOK
<1>1. /\ phone'.otks \subseteq phone.otks
      /\ \A k \in phone.otks \ phone'.otks : k < phone.pubFrom /\ now > phone.pubAt + Keep
      /\ phone'.nextSpk = phone.nextSpk /\ phone'.spks = phone.spks
      /\ phone'.nextOtk = phone.nextOtk
      /\ phone'.pubAt = phone.pubAt /\ phone'.pubFrom = phone.pubFrom
  BY <1>0, OtksDroppedIsStore
<1>2. Offered' = Offered /\ HandedOut' = HandedOut
  BY <1>0 DEF Offered, HandedOut, Members
<1>3. OfferedOnce'
  <2>1. \A k \in Offered : k \in phone'.otks
    BY <1>1, KeyNumbers DEF KeysStand, OfferedOnce
  <2> QED BY <1>0, <1>1, <1>2, <2>1 DEF KeysStand, OfferedOnce
<1>4. SignedIsHeld'
  BY <1>0, <1>1 DEF KeysStand, SignedIsHeld, HoldsSigned
<1>5. RequestIsNew'
  BY <1>0 DEF RequestIsNew
<1>6. InOrder'
  BY <1>0, <1>1, <1>2 DEF KeysStand, InOrder
<1>7. OneTimeKeysKept'
  <2> SUFFICES ASSUME NEW h \in handed, h.otk # 0, ~h.used, now <= h.at + Keep,
                      h.otk \notin phone'.otks
               PROVE  FALSE
    BY <1>0 DEF KeysStand, OneTimeKeysKept
  <2>1. h.otk \in phone.otks
    BY DEF KeysStand, OneTimeKeysKept
  <2>2. h.otk < phone.pubFrom /\ now > phone.pubAt + Keep
    BY <1>1, <2>1
  <2>3. h.at > phone.pubAt
    BY <2>2, KeyNumbers
  <2> QED BY <2>2, <2>3, KeyNumbers DEF KeysStand, InOrder
<1> QED BY <1>3, <1>4, <1>5, <1>6, <1>7 DEF KeysStand

\* The server's answer to a task.
LEMMA AnsweredStands == KeysShaped /\ KeysStand /\ KeysAnswered => KeysStand'
<1> SUFFICES ASSUME KeysShapes, NewestKept, KeysStand, KeysAnswered PROVE KeysStand'
  BY DEF KeysShaped
<1>0. /\ job \in Jobs /\ phone \in Stores /\ (job # NoJob => Made(phone))
      /\ UNCHANGED <<bundle, handed, now>> /\ now \in 0..MaxNow
  BY DEF KeysShapes, JobOK, StoreOK, WorldOK, KeysAnswered, KeysWorldUnchanged
<1>1. JobEnds => job'.answer = "none" /\ job'.step = "idle"
  BY DEF JobEnds, NoJob
<1>2. Offered' = Offered /\ HandedOut' = HandedOut
  BY <1>0 DEF Offered, HandedOut, Members
<1>3. CASE UNCHANGED phone /\ (JobEnds \/ JobGoes("drop"))
  BY <1>0, <1>1, <1>3, JobGoesOn, NothingSent
<1>4. CASE /\ job.answer = "ok" /\ job.step = "publishing" /\ JobEnds
           /\ phone' = [phone EXCEPT !.pubAt = now, !.pubFrom = job.req.otk]
  <2>1. job.req.otk \in OneTimeKeys
    BY <1>0, <1>4, JobFields DEF Uploads
  <2>2. /\ phone'.pubAt = now /\ phone'.pubFrom = job.req.otk
        /\ phone'.nextSpk = phone.nextSpk /\ phone'.spks = phone.spks
        /\ phone'.nextOtk = phone.nextOtk /\ phone'.otks = phone.otks
    BY <1>0, <1>4, <2>1, PublishedIsStore
  <2>3. OfferedOnce'
    BY <1>0, <1>2, <1>4, <2>2 DEF KeysStand, OfferedOnce, RequestIsNew
  <2>4. SignedIsHeld'
    BY <1>0, <1>1, <1>4, <2>2 DEF KeysStand, SignedIsHeld, HoldsSigned
  <2>5. RequestIsNew'
    BY <1>1, <1>4 DEF RequestIsNew
  <2>6. InOrder'
    <3>1. phone'.pubFrom < phone'.nextOtk
      BY <1>4, <2>2 DEF KeysStand, RequestIsNew
    <3>2. \A h \in handed' : h.at <= now' /\ ~(h.at > phone'.pubAt)
      BY <1>0, <2>2, KeyNumbers DEF KeysStand, InOrder
    <3>3. phone'.pubAt <= now'
      BY <1>0, <2>2, KeyNumbers
    <3>4. \A k \in phone'.otks \cup HandedOut' : k < phone'.nextOtk
      BY <1>2, <2>2 DEF KeysStand, InOrder
    <3> QED BY <3>1, <3>2, <3>3, <3>4 DEF InOrder
  <2>7. OneTimeKeysKept'
    BY <1>0, <2>2 DEF KeysStand, OneTimeKeysKept
  <2> QED BY <2>3, <2>4, <2>5, <2>6, <2>7 DEF KeysStand
<1>5. CASE /\ job.answer = "ok" /\ job.step = "rotating" /\ JobGoes("topUp")
           /\ phone' = OldSpksDropped(phone)
  <2>1. /\ phone'.spks = {k \in phone.spks : k.at + Keep >= now \/ k.id = Current(phone).id}
        /\ phone'.nextSpk = phone.nextSpk /\ phone'.otks = phone.otks
        /\ phone'.nextOtk = phone.nextOtk
        /\ phone'.pubAt = phone.pubAt /\ phone'.pubFrom = phone.pubFrom
    BY <1>0, <1>5, SpksDroppedIsStore
  <2>2. job'.answer = "none" /\ job'.step = "topUp"
    BY <1>0, <1>5, JobGoesOn
  <2>3. OfferedOnce'
    BY <1>0, <1>2, <2>1 DEF KeysStand, OfferedOnce
  <2>4. SignedIsHeld'
    <3> SUFFICES ASSUME bundle.of = "this" PROVE HoldsSigned(bundle.spk)'
      BY <1>0, <2>2 DEF SignedIsHeld
    <3>1. bundle.spk = Newest /\ HoldsSigned(Newest)
      BY <1>5 DEF KeysStand, SignedIsHeld
    <3>2. Current(phone).id = Newest
      BY <1>0, <1>5, NoJobIsJob, CurrentIsNewest
    <3> QED BY <1>0, <2>1, <3>1, <3>2 DEF HoldsSigned
  <2>5. RequestIsNew'
    BY <2>2 DEF RequestIsNew
  <2>6. InOrder'
    BY <1>0, <1>2, <2>1 DEF KeysStand, InOrder
  <2>7. OneTimeKeysKept'
    BY <1>0, <2>1 DEF KeysStand, OneTimeKeysKept
  <2> QED BY <2>3, <2>4, <2>5, <2>6, <2>7 DEF KeysStand
<1> QED BY <1>3, <1>4, <1>5 DEF KeysAnswered

\* The server carries out a request whose task still waits for it.
LEMMA ExecuteStands == KeysShaped /\ KeysStand /\ KeysExecute => KeysStand'
<1> SUFFICES ASSUME KeysShapes, NewestKept, KeysStand, KeysExecute PROVE KeysStand'
  BY DEF KeysShaped
<1>0. /\ job \in Jobs /\ (job # NoJob => Made(phone)) /\ BundleOK
      /\ UNCHANGED <<phone, handed, now>> /\ job.answer = "sent" /\ Effect(job.req)
  BY DEF KeysShapes, JobOK, KeysExecute
<1>1. PICK answer \in {"ok", "refused"} :
        /\ answer = "refused" => job.req.kind # "upload" /\ bundle.of # "this"
        /\ job' = [job EXCEPT !.answer = answer]
  BY DEF KeysExecute
<1>2. job'.step = job.step /\ job'.req = job.req /\ job'.answer = answer
  BY <1>0, <1>1, JobAnswered DEF Answers
<1>3. /\ HandedOut' = HandedOut /\ Newest' = Newest
      /\ \A id : HoldsSigned(id)' <=> HoldsSigned(id)
  BY <1>0 DEF HandedOut, Newest, HoldsSigned
<1>4. \/ job.step = "publishing" /\ job.req \in Uploads
      \/ job.step = "rotating" /\ job.req \in Rotations
      \/ job.step \in {"adding", "addingOnly"} /\ job.req \in Additions
  BY <1>0, JobFields
<1>5. /\ job.req \in Uploads => job.req.kind = "upload" /\ job.req.otk \in OneTimeKeys
      /\ job.req \in Rotations => job.req.kind = "rotate"
      /\ job.req \in Additions => job.req.kind = "add" /\ job.req.otk \in OneTimeKeys
  BY DEF Uploads, Rotations, Additions
<1>6. Made(phone) /\ HoldsSigned(Newest)
  BY <1>0, NoJobIsJob DEF NewestKept
<1>7. InOrder' /\ OneTimeKeysKept'
  BY <1>0, <1>3 DEF KeysStand, InOrder, OneTimeKeysKept
<1>8. CASE /\ job.req \in Uploads
           /\ bundle'.of = "this" /\ bundle'.spk = job.req.spk /\ bundle'.otks = <<job.req.otk>>
  <2> DEFINE k == job.req.otk
             s == <<k>>
  <2>1. DOMAIN s = {1} /\ s[1] = k
    OBVIOUS
  <2>2. Offered' = {k} /\ Distinct(bundle'.otks)
    BY <1>8, <2>1 DEF Offered, Members, Distinct
  <2>3. /\ k \in phone.otks \ HandedOut /\ k >= phone.pubFrom /\ job.req.spk = Newest
        /\ k < phone.nextOtk /\ k \in Nat
    BY <1>0, <1>5, <1>8, KeyNumbers DEF KeysStand, RequestIsNew
  <2>4. OfferedOnce'
    BY <1>0, <1>3, <2>2, <2>3 DEF OfferedOnce
  <2>5. SignedIsHeld'
    <3>1. job.step = "publishing"
      BY <1>4, <1>5, <1>8
    <3> QED BY <1>2, <1>3, <1>6, <1>8, <2>3, <3>1 DEF SignedIsHeld
  <2>6. RequestIsNew'
    <3>1. \A j \in Offered' : j >= k
      BY <2>2, <2>3
    <3> QED BY <1>0, <1>1, <1>2, <2>3, <3>1 DEF RequestIsNew
  <2> QED BY <1>7, <2>4, <2>5, <2>6 DEF KeysStand
<1>9. CASE job.req \notin Uploads /\ bundle.of # "this" /\ bundle' = bundle
  <2>1. Offered' = Offered
    BY <1>9 DEF Offered, Members
  <2>2. OfferedOnce'
    BY <1>0, <1>3, <1>9, <2>1 DEF KeysStand, OfferedOnce
  <2>3. SignedIsHeld'
    BY <1>9 DEF SignedIsHeld
  <2>4. RequestIsNew'
    BY <1>0, <1>1, <1>2, <1>4, <1>5, <1>9 DEF KeysStand, RequestIsNew
  <2> QED BY <1>7, <2>2, <2>3, <2>4 DEF KeysStand
<1>10. CASE /\ job.req \in Rotations /\ bundle.of = "this"
            /\ bundle'.of = "this" /\ bundle'.spk = job.req.spk /\ bundle'.otks = bundle.otks
  <2>1. Offered' = Offered
    BY <1>10 DEF Offered, Members
  <2>2. OfferedOnce'
    BY <1>0, <1>3, <1>10, <2>1 DEF KeysStand, OfferedOnce
  <2>3. job.req.spk = Newest /\ job.step = "rotating"
    BY <1>0, <1>4, <1>5, <1>10 DEF KeysStand, RequestIsNew
  <2>4. SignedIsHeld'
    BY <1>3, <1>6, <1>10, <2>3 DEF SignedIsHeld
  <2>5. RequestIsNew'
    BY <1>0, <1>1, <1>2, <2>3 DEF KeysStand, RequestIsNew
  <2> QED BY <1>7, <2>2, <2>4, <2>5 DEF KeysStand
<1>11. CASE /\ job.req \in Additions /\ bundle.of = "this"
            /\ bundle'.of = "this" /\ bundle'.spk = bundle.spk
            /\ bundle'.otks = Append(bundle.otks, job.req.otk)
  <2> DEFINE k == job.req.otk
  <2>1. /\ k \in phone.otks \ (Offered \cup HandedOut) /\ k >= phone.pubFrom
        /\ k < phone.nextOtk /\ k \in OneTimeKeys
    BY <1>0, <1>5, <1>11 DEF KeysStand, RequestIsNew
  <2>2. Offered' = Offered \cup {k} /\ Distinct(bundle'.otks)
    BY <1>11, <2>1, KeyNumbers, MembersOfAppend DEF KeysStand, OfferedOnce, Offered
  <2>3. OfferedOnce'
    BY <1>0, <1>3, <2>1, <2>2 DEF KeysStand, OfferedOnce
  <2>4. job.step \in {"adding", "addingOnly"}
    BY <1>4, <1>5, <1>11
  <2>5. SignedIsHeld'
    BY <1>2, <1>3, <1>11, <2>4 DEF KeysStand, SignedIsHeld
  <2>6. RequestIsNew'
    BY <1>0, <1>1, <1>2, <2>1, <2>4 DEF RequestIsNew
  <2> QED BY <1>7, <2>3, <2>5, <2>6 DEF KeysStand
<1> QED BY <1>0, <1>4, <1>8, <1>9, <1>10, <1>11, EffectOnBundle

LEMMA TakenStands == KeysShaped /\ KeysStand /\ KeysTaken => KeysStand'
<1> SUFFICES ASSUME KeysShapes, KeysStand, KeysTaken PROVE KeysStand'
  BY DEF KeysShaped
<1>1. /\ UNCHANGED <<phone, job, handed, now>>
      /\ bundle'.of = "other" /\ bundle'.otks = << >>
  BY DEF KeysTaken, OtherBundle, NoBundle
<1>2. Offered' = {} /\ HandedOut' = HandedOut /\ Newest' = Newest /\ Distinct(bundle'.otks)
  BY <1>1 DEF Offered, Members, HandedOut, Newest, Distinct
<1>3. OfferedOnce'
  BY <1>2 DEF OfferedOnce
<1>4. SignedIsHeld'
  BY <1>1 DEF SignedIsHeld
<1>5. RequestIsNew'
  BY <1>1, <1>2 DEF KeysStand, RequestIsNew
<1>6. InOrder' /\ OneTimeKeysKept'
  BY <1>1, <1>2 DEF KeysStand, InOrder, OneTimeKeysKept
<1> QED BY <1>3, <1>4, <1>5, <1>6 DEF KeysStand

\* A sender is handed a bundle: its one-time key is no longer offered, and is kept.
LEMMA HandStands == KeysShaped /\ KeysStand /\ KeysHand => KeysStand'
<1> SUFFICES ASSUME KeysShapes, KeysStand, KeysHand PROVE KeysStand'
  BY DEF KeysShaped
<1> DEFINE otk == IF bundle.otks = << >> THEN 0 ELSE Head(bundle.otks)
           h == [n |-> Cardinality(handed), spk |-> bundle.spk, otk |-> otk, at |-> now,
                 used |-> FALSE]
<1>0. /\ UNCHANGED <<phone, job, now>> /\ BundleOK
  BY DEF KeysHand, KeysShapes
<1>1. /\ bundle'.of = "this" /\ bundle'.spk = bundle.spk /\ bundle.of = "this"
      /\ bundle'.otks = IF bundle.otks = << >> THEN << >> ELSE Tail(bundle.otks)
      /\ handed' = handed \cup {h}
  BY <1>0, HandedFields DEF KeysHand
<1>2. h.otk = otk /\ h.at = now /\ ~h.used
  OBVIOUS
<1>3. /\ Distinct(bundle'.otks) /\ Offered' \subseteq Offered \ {otk}
      /\ otk # 0 => otk \in Offered
  <2>1. CASE bundle.otks = << >>
    BY <1>1, <2>1 DEF Offered, Members, Distinct
  <2>2. CASE bundle.otks # << >>
    <3>1. Distinct(bundle.otks) /\ bundle.otks \in Seq(OneTimeKeys)
      BY KeyNumbers DEF KeysStand, OfferedOnce
    <3> QED BY <1>1, <2>2, <3>1, MembersOfTail DEF Offered
  <2> QED BY <2>1, <2>2
<1> HIDE DEF otk, h
<1>4. HandedOut' = HandedOut \cup {otk} /\ Newest' = Newest
  BY <1>0, <1>1, <1>2 DEF HandedOut, Newest
<1>5. OfferedOnce'
  BY <1>0, <1>3, <1>4 DEF KeysStand, OfferedOnce
<1>6. SignedIsHeld'
  BY <1>0, <1>1, <1>4 DEF KeysStand, SignedIsHeld, HoldsSigned
<1>7. RequestIsNew'
  <2>1. ASSUME job.answer = "sent", job.req.kind \in {"upload", "add"} PROVE job.req.otk # otk
    <3>1. job.req.otk \in phone.otks \ Offered
      BY <2>1 DEF KeysStand, RequestIsNew
    <3>2. job.req.otk # 0
      BY <3>1, KeyNumbers
    <3> QED BY <1>3, <3>1, <3>2
  <2>2. \A k \in Offered' : k \in Offered
    BY <1>3
  <2> QED BY <1>0, <1>4, <2>1, <2>2 DEF KeysStand, RequestIsNew
<1>8. InOrder'
  <2>1. otk < phone.nextOtk
    BY <1>3, KeyNumbers DEF KeysStand, OfferedOnce, InOrder
  <2>2. \A k \in phone'.otks \cup HandedOut' : k < phone'.nextOtk
    BY <1>0, <1>4, <2>1 DEF KeysStand, InOrder
  <2>3. otk # 0 => otk >= phone.pubFrom
    BY <1>3 DEF KeysStand, OfferedOnce
  <2>4. \A g \in handed' : g.at <= now /\ (g.otk # 0 /\ g.at > phone.pubAt => g.otk >= phone.pubFrom)
    BY <1>1, <1>2, <2>3, KeyNumbers DEF KeysStand, InOrder
  <2> QED BY <1>0, <2>2, <2>4 DEF KeysStand, InOrder
<1>9. OneTimeKeysKept'
  <2>1. otk # 0 => otk \in phone.otks /\ \A g \in handed : g.otk # otk
    BY <1>3 DEF KeysStand, OfferedOnce, HandedOut
  <2>2. \A f, g \in handed' : f.otk # 0 /\ f.otk = g.otk => f = g
    BY <1>1, <1>2, <2>1 DEF KeysStand, OneTimeKeysKept
  <2>3. \A g \in handed' : g.otk # 0 /\ ~g.used /\ now <= g.at + Keep => g.otk \in phone.otks
    BY <1>1, <1>2, <2>1 DEF KeysStand, OneTimeKeysKept
  <2> QED BY <1>0, <2>2, <2>3 DEF OneTimeKeysKept
<1> QED BY <1>5, <1>6, <1>7, <1>8, <1>9 DEF KeysStand

\* A first message is read: nobody else was handed its one-time key.
LEMMA UseStands ==
    ASSUME KeysShaped, KeysStand, NEW h \in handed, KeysUse(h)
    PROVE  KeysStand'
<1> DEFINE g == [h EXCEPT !.used = TRUE]
<1>0. /\ UNCHANGED <<bundle, job, now>> /\ KeysShapes /\ phone \in Stores
      /\ handed \subseteq Handouts
      /\ phone' = [phone EXCEPT !.otks = @ \ {h.otk}] /\ handed' = (handed \ {h}) \cup {g}
  BY DEF KeysUse, KeysShaped, KeysShapes, StoreOK, HandedOK
<1>1. g.otk = h.otk /\ g.at = h.at /\ g.used
  BY <1>0, UsedFields
<1>2. /\ phone'.pubAt = phone.pubAt /\ phone'.pubFrom = phone.pubFrom
      /\ phone'.nextSpk = phone.nextSpk /\ phone'.spks = phone.spks
      /\ phone'.nextOtk = phone.nextOtk /\ phone'.otks = phone.otks \ {h.otk}
  BY <1>0, UsedIsStore
<1> HIDE DEF g
<1>3. HandedOut' = HandedOut /\ Offered' = Offered /\ Newest' = Newest
  <2>1. HandedOut' \subseteq HandedOut
    BY <1>0, <1>1 DEF HandedOut
  <2>2. HandedOut \subseteq HandedOut'
    <3> SUFFICES ASSUME NEW f \in handed PROVE \E e \in handed' : e.otk = f.otk
      BY DEF HandedOut
    <3>1. CASE f = h
      BY <1>0, <1>1, <3>1
    <3>2. CASE f # h
      BY <1>0, <3>2
    <3> QED BY <3>1, <3>2
  <2> QED BY <1>0, <1>2, <2>1, <2>2 DEF Offered, Members, Newest
<1>4. h.otk \in HandedOut
  BY DEF HandedOut
<1>5. OfferedOnce'
  BY <1>0, <1>2, <1>3, <1>4 DEF KeysStand, OfferedOnce
<1>6. SignedIsHeld'
  BY <1>0, <1>2, <1>3 DEF KeysStand, SignedIsHeld, HoldsSigned
<1>7. RequestIsNew'
  BY <1>0, <1>2, <1>3, <1>4 DEF KeysStand, RequestIsNew
<1>8. InOrder'
  <2>1. \A k \in phone'.otks \cup HandedOut' : k < phone'.nextOtk
    BY <1>2, <1>3 DEF KeysStand, InOrder
  <2>2. \A f \in handed' : /\ f.at <= now
                           /\ f.otk # 0 /\ f.at > phone.pubAt => f.otk >= phone.pubFrom
    BY <1>0, <1>1 DEF KeysStand, InOrder
  <2> QED BY <1>0, <1>2, <2>1, <2>2 DEF KeysStand, InOrder
<1>9. OneTimeKeysKept'
  <2>1. \A e, f \in handed : e.otk # 0 /\ e.otk = f.otk => e = f
    BY DEF KeysStand, OneTimeKeysKept
  <2>2. \A e, f \in handed' : e.otk # 0 /\ e.otk = f.otk => e = f
    <3> SUFFICES ASSUME NEW e \in handed', NEW f \in handed', e.otk # 0, e.otk = f.otk
                 PROVE  e = f
      OBVIOUS
    <3>1. CASE e = g
      BY <1>0, <1>1, <2>1, <3>1
    <3>2. CASE e # g
      BY <1>0, <1>1, <2>1, <3>2
    <3> QED BY <3>1, <3>2
  <2>3. ASSUME NEW f \in handed', f.otk # 0, ~f.used, now <= f.at + Keep
        PROVE  f.otk \in phone'.otks
    <3>1. f \in handed \ {h}
      BY <1>0, <1>1, <2>3
    <3>2. f.otk # h.otk
      BY <2>1, <2>3, <3>1
    <3> QED BY <1>2, <2>3, <3>1, <3>2 DEF KeysStand, OneTimeKeysKept
  <2> QED BY <1>0, <2>2, <2>3 DEF OneTimeKeysKept
<1> QED BY <1>5, <1>6, <1>7, <1>8, <1>9 DEF KeysStand

LEMMA StandInit == KeysInit => KeysStand
<1> SUFFICES ASSUME KeysInit PROVE KeysStand
  OBVIOUS
<1>1. /\ bundle.of = "none" /\ bundle.otks = << >> /\ phone = NoKeys
      /\ job.step = "idle" /\ job.answer = "none" /\ now = 0 /\ handed = {}
  BY DEF KeysInit, NoBundle, NoJob
<1>2. Offered = {} /\ HandedOut = {} /\ Distinct(bundle.otks)
  BY <1>1 DEF Offered, Members, HandedOut, Distinct
<1>3. OfferedOnce
  BY <1>2 DEF OfferedOnce
<1>4. SignedIsHeld /\ RequestIsNew /\ OneTimeKeysKept
  BY <1>1 DEF SignedIsHeld, RequestIsNew, OneTimeKeysKept
<1>5. InOrder
  BY <1>1, <1>2 DEF InOrder, NoKeys
<1> QED BY <1>3, <1>4, <1>5 DEF KeysStand

\* Until a request floats.
Stand == ~floated => KeysStand

LEMMA StandStep == KeysShaped /\ Stand /\ [KeysNext]_keysVars => Stand'
<1> SUFFICES ASSUME KeysShaped, Stand, [KeysNext]_keysVars, ~floated' PROVE KeysStand'
  BY DEF Stand
<1>1. CASE \E req \in stray : KeysLate(req)
  BY <1>1 DEF KeysLate
<1>2. ASSUME UNCHANGED floated PROVE KeysStand
  BY <1>2 DEF Stand
<1>3. KeysShapes
  BY DEF KeysShaped
<1>4. CASE KeysStart
  BY <1>2, <1>4, StartStands DEF KeysStart, KeysWorldUnchanged
<1>5. CASE KeysPublish \/ KeysTopUp \/ KeysLow
  BY <1>2, <1>5, TaskStands DEF KeysPublish, KeysTopUp, KeysLow, KeysWorldUnchanged
<1>6. CASE KeysRotate
  BY <1>2, <1>6, RotateStands DEF KeysRotate, KeysWorldUnchanged
<1>7. CASE KeysDrop
  BY <1>2, <1>7, DropStands DEF KeysDrop, KeysWorldUnchanged
<1>8. CASE KeysAnswered
  BY <1>2, <1>8, AnsweredStands DEF KeysAnswered, KeysWorldUnchanged
<1>9. CASE KeysBreak
  <2>1. /\ UNCHANGED <<phone, bundle, handed, now, floated>>
        /\ job'.answer = "none" /\ job'.step = "idle"
    BY <1>9 DEF KeysBreak, JobEnds, NoJob
  <2> QED BY <1>2, <1>3, <2>1, NothingSent
<1>10. CASE KeysExecute
  BY <1>2, <1>10, ExecuteStands DEF KeysExecute
<1>11. CASE KeysTaken
  BY <1>2, <1>11, TakenStands DEF KeysTaken
<1>12. CASE KeysHand
  BY <1>2, <1>12, HandStands DEF KeysHand
<1>13. CASE KeysTick
  <2>1. UNCHANGED <<phone, bundle, handed, job, floated>> /\ now' = now + 1
    BY <1>13 DEF KeysTick
  <2> QED BY <1>2, <1>3, <2>1, NothingSent
<1>14. CASE \E h \in handed : KeysUse(h)
  BY <1>2, <1>14, UseStands DEF KeysUse
<1>15. CASE UNCHANGED keysVars
  <2>1. UNCHANGED <<phone, bundle, handed, job, floated, now>>
    BY <1>15 DEF keysVars
  <2> QED BY <1>2, <1>3, <2>1, NothingSent
<1> QED BY <1>1, <1>4, <1>5, <1>6, <1>7, <1>8, <1>9, <1>10, <1>11, <1>12, <1>13, <1>14, <1>15
        DEF KeysNext

(***************************************************************************)
(* Until a request is carried out that the phone had given up, the         *)
(* published install holds every key of its bundle, no one-time key is     *)
(* handed out twice, and one that is out is kept for as long as its        *)
(* message may be on the way: for every keeping time, number of keys and   *)
(* order of failures, restarts and takeovers (keyManager.ts and            *)
(* getPreKeyBundle).                                                       *)
(***************************************************************************)
THEOREM PublishedKeysAreHeld == KeysSpec => []KeysAreHeld
<1> DEFINE IInv == KeysShaped /\ Stand
<1>1. KeysInit => IInv
  BY KeysShapesInit, NewestInit, StandInit DEF KeysShaped, Stand
<1>2. IInv /\ [KeysNext]_keysVars => IInv'
  BY ShapedStep, StandStep
<1>3. IInv => KeysAreHeld
  <2> SUFFICES ASSUME KeysStand
               PROVE  (bundle.of = "this" => BundleIsUsable) /\ OneTimeKeysKept
    BY DEF Stand, KeysAreHeld
  <2>1. \A k \in DOMAIN bundle.otks : bundle.otks[k] \in phone.otks
    BY DEF KeysStand, OfferedOnce, Offered, Members
  <2> QED BY <2>1 DEF KeysStand, SignedIsHeld, BundleIsUsable
<1> QED BY <1>1, <1>2, <1>3, PTL DEF KeysSpec

=============================================================================
