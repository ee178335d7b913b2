------------------------------- MODULE PreKeys ------------------------------
(***************************************************************************)
(* The keys one install of an account publishes (keyManager.ts) and the    *)
(* server hands out (keyFunctions.js). Another install may take over by    *)
(* publishing its own, and this one come back. It runs one key task at a   *)
(* time (the "keys" lock of engine.ts); a request of it may fail before or *)
(* after the server has executed it, or be executed late.                  *)
(*                                                                         *)
(* Time passes in steps that are long beside a task, which is why no task  *)
(* is under way when it does. PREKEY_BATCH and PREKEY_LOW are 1. One-time  *)
(* keys are created in the order of their ids, so "created before" is an   *)
(* order of ids.                                                           *)
(***************************************************************************)
EXTENDS Naturals, FiniteSets, Sequences

CONSTANTS
    Keep,       \* SIGNED_PREKEY_MAX_AGE, OLD_SIGNED_PREKEY_KEEP and OLD_ONE_TIME_PREKEY_KEEP
    MaxNow,     \* bound: the last moment
    MaxOtk,     \* bound: one-time keys made
    MaxTaken,   \* bound: times the other install takes over
    MaxHanded,  \* bound: bundles handed out
    KeyFaults   \* bound: restarts and failed requests

ASSUME KeysAssumption == {Keep, MaxNow, MaxOtk, MaxTaken, MaxHanded, KeyFaults} \subseteq Nat

VARIABLES
    bundle,  \* KeyBundle: [of, spk, otks], the keys only if it is of this install
    phone,   \* this install's local store
    job,     \* its key task
    low,     \* a "prekeys_low" is on its way
    stray,   \* requests given up that the server may still execute
    now,     \* the time
    handed,  \* bundles handed out to senders
    taken, failures, \* counters for the bounds
    floated  \* history: a request was executed after the phone gave it up

keysVars == <<bundle, phone, job, low, stray, now, handed, taken, failures, floated>>

NoBundle == [of |-> "none", spk |-> 0, otks |-> << >>]
OtherBundle == [NoBundle EXCEPT !.of = "other"]
NoKeyReq == [kind |-> "none", spk |-> 0, otk |-> 0]
NoJob == [step |-> "idle", few |-> FALSE, req |-> NoKeyReq, answer |-> "none"]
NoKeys == [spks |-> {}, otks |-> {}, nextOtk |-> 1, nextSpk |-> 1, pubAt |-> 0, pubFrom |-> 0]

Reqs == [kind : {"upload", "rotate", "add"}, spk : Nat, otk : Nat]

KeysTypeOK ==
    /\ bundle.of \in {"none", "this", "other"} /\ bundle.spk \in Nat
    /\ \A k \in DOMAIN bundle.otks : bundle.otks[k] \in 1..MaxOtk
    /\ phone.spks \subseteq [id : Nat, at : 0..MaxNow] /\ phone.otks \subseteq 1..MaxOtk
    /\ phone.pubFrom \in 0..MaxOtk /\ phone.pubAt \in 0..MaxNow
    /\ job.step \in {"idle", "publish", "rotate", "topUp", "drop",
                     "publishing", "rotating", "adding", "addingOnly"}
    /\ job.answer \in {"none", "sent", "ok", "refused"} /\ job.few \in BOOLEAN
    /\ IF job.answer = "none" THEN job.req = NoKeyReq ELSE job.req \in Reqs
    /\ stray \subseteq Reqs /\ low \in BOOLEAN /\ floated \in BOOLEAN
    /\ now \in 0..MaxNow /\ Cardinality(handed) <= MaxHanded

KeysInit ==
    /\ bundle = NoBundle /\ phone = NoKeys /\ job = NoJob
    /\ low = FALSE /\ stray = {} /\ now = 0 /\ handed = {}
    /\ taken = 0 /\ failures = 0 /\ floated = FALSE

-----------------------------------------------------------------------------
(* The local store p of the install *)

Made(p) == p.nextSpk > 1

\* getCurrentSignedPreKey
Current(p) == CHOOSE k \in p.spks : \A x \in p.spks : x.id <= k.id

\* allocatePreKeys
Allocated(p) == [p EXCEPT !.otks = @ \cup {p.nextOtk}, !.nextOtk = @ + 1]

\* createInstall
Created(p) == [p EXCEPT !.spks = {[id |-> 1, at |-> now]}, !.nextSpk = 2]

\* Mutant: the replaced key is dropped before the server has the new one.
RotatedEarly(p) == [p EXCEPT !.spks = {[id |-> p.nextSpk, at |-> now]}, !.nextSpk = @ + 1]

\* rotateIfOld up to the request
Rotated(p) == [p EXCEPT !.spks = @ \cup {[id |-> p.nextSpk, at |-> now]}, !.nextSpk = @ + 1]

\* rotateIfOld after the request: deleteSignedPreKeysBefore
OldSpksDropped(p) ==
    [p EXCEPT !.spks = {k \in @ : k.at + Keep >= now \/ k.id = Current(p).id}]

\* The end of ensureKeysPublished: deleteOneTimePreKeysBefore
OldOtksDropped(p) ==
    IF p.pubFrom > 0 /\ now > p.pubAt + Keep
    THEN [p EXCEPT !.otks = {k \in @ : k >= p.pubFrom}]
    ELSE p

-----------------------------------------------------------------------------
(* A key task *)

JobGoes(step) == job' = [NoJob EXCEPT !.step = step, !.few = job.few]
JobEnds == job' = NoJob
JobSends(step, req) == job' = [NoJob EXCEPT !.step = step, !.few = job.few, !.req = req,
                                        !.answer = "sent"]

KeysWorldUnchanged == UNCHANGED <<bundle, stray, now, handed, taken, failures, floated>>

\* ensureKeys, at a start of the app or when its retry timer fires: createInstall if
\* there is none, then getOwnKeyStatus tells whether this is the published install.
KeysStart ==
    /\ job = NoJob
    /\ phone' = IF Made(phone) THEN phone ELSE Created(phone)
    /\ job' = [NoJob EXCEPT !.step = IF bundle.of = "this" THEN "rotate" ELSE "publish",
                           !.few = bundle.otks = << >>]
    /\ UNCHANGED low /\ KeysWorldUnchanged

\* publishFullBundle
KeysPublish ==
    /\ job.step = "publish" /\ phone.nextOtk <= MaxOtk
    /\ phone' = Allocated(phone)
    /\ JobSends("publishing", [kind |-> "upload", spk |-> Current(phone).id, otk |-> phone.nextOtk])
    /\ UNCHANGED low /\ KeysWorldUnchanged

\* rotateIfOld
KeysRotate ==
    /\ job.step = "rotate"
    /\ \/ /\ now < Current(phone).at + Keep
          /\ JobGoes("topUp") /\ UNCHANGED phone
       \/ /\ now >= Current(phone).at + Keep
          /\ phone' = Rotated(phone)
          /\ JobSends("rotating", [kind |-> "rotate", spk |-> phone.nextSpk, otk |-> 0])
    /\ UNCHANGED low /\ KeysWorldUnchanged

\* topUpPreKeys
AddsKey(step) ==
    /\ phone.nextOtk <= MaxOtk
    /\ phone' = Allocated(phone)
    /\ JobSends(step, [kind |-> "add", spk |-> 0, otk |-> phone.nextOtk])

\* ... if the server had few
KeysTopUp ==
    /\ job.step = "topUp"
    /\ \/ job.few /\ AddsKey("adding")
       \/ ~job.few /\ JobGoes("drop") /\ UNCHANGED phone
    /\ UNCHANGED low /\ KeysWorldUnchanged

\* "prekeys_low": topUpPreKeys under the same lock
KeysLow ==
    /\ low /\ job = NoJob /\ Made(phone)
    /\ AddsKey("addingOnly")
    /\ low' = FALSE
    /\ KeysWorldUnchanged

KeysDrop ==
    /\ job.step = "drop"
    /\ phone' = OldOtksDropped(phone)
    /\ JobEnds
    /\ UNCHANGED low /\ KeysWorldUnchanged

\* The task goes on once its request was answered. An error ends it.
KeysAnswered ==
    /\ \/ job.answer = "refused" /\ JobEnds /\ UNCHANGED phone
       \/ /\ job.answer = "ok"
          /\ \/ /\ job.step = "publishing"
                /\ phone' = [phone EXCEPT !.pubAt = now, !.pubFrom = job.req.otk]
                /\ JobEnds
             \/ job.step = "rotating" /\ phone' = OldSpksDropped(phone) /\ JobGoes("topUp")
             \/ job.step = "adding" /\ JobGoes("drop") /\ UNCHANGED phone
             \/ job.step = "addingOnly" /\ JobEnds /\ UNCHANGED phone
    /\ UNCHANGED low /\ KeysWorldUnchanged

\* A request fails, before or after its execution, or the app restarts or signs out.
KeysBreak ==
    /\ failures < KeyFaults /\ job # NoJob
    /\ failures' = failures + 1
    /\ JobEnds
    /\ stray' \in {stray, stray \cup IF job.answer = "sent" THEN {job.req} ELSE {}}
    /\ UNCHANGED <<bundle, phone, low, now, handed, taken, floated>>

-----------------------------------------------------------------------------
(* The server *)

\* uploadKeys, rotateSignedPreKey and addOneTimePreKeys. The last two name the install
\* (loadOwnBundle), and write only where it is still the published one.
Effect(req) ==
    bundle' = IF req.kind = "upload"
              THEN [of |-> "this", spk |-> req.spk, otks |-> <<req.otk>>]
              ELSE IF bundle.of # "this" THEN bundle
              ELSE IF req.kind = "rotate" THEN [bundle EXCEPT !.spk = req.spk]
              ELSE [bundle EXCEPT !.otks = Append(@, req.otk)]

\* When the bundle is replaced between loadOwnBundle and the write, nothing is written
\* and the answer is still "ok".
KeysExecute ==
    /\ job.answer = "sent"
    /\ Effect(job.req)
    /\ \E answer \in {"ok", "refused"} :
        /\ answer = "refused" => job.req.kind # "upload" /\ bundle.of # "this"
        /\ job' = [job EXCEPT !.answer = answer]
    /\ UNCHANGED <<phone, low, stray, now, handed, taken, failures, floated>>

\* A request the phone gave up is executed all the same.
KeysLate(req) ==
    /\ Effect(req)
    /\ stray' = stray \ {req}
    /\ floated' = TRUE
    /\ UNCHANGED <<phone, job, low, now, handed, taken, failures>>

\* The other install publishes its keys.
KeysTaken ==
    /\ taken < MaxTaken /\ bundle.of = "this"
    /\ taken' = taken + 1
    /\ bundle' = OtherBundle
    /\ UNCHANGED <<phone, job, low, stray, now, handed, failures, floated>>

\* getPreKeyBundle: the oldest one-time key leaves the bundle in the same operation.
\* "prekeys_low" reaches the phone only if it has a socket.
KeysHand ==
    /\ bundle.of = "this" /\ Cardinality(handed) < MaxHanded
    /\ handed' = handed \cup {[n |-> Cardinality(handed), spk |-> bundle.spk,
                               otk |-> IF bundle.otks = << >> THEN 0 ELSE Head(bundle.otks),
                               at |-> now, used |-> FALSE]}
    /\ bundle' = [bundle EXCEPT !.otks = IF @ = << >> THEN @ ELSE Tail(@)]
    /\ low' \in {low, low \/ Len(bundle.otks) <= 1}
    /\ UNCHANGED <<phone, job, stray, now, taken, failures, floated>>

HoldsSigned(spk) == \E k \in phone.spks : k.id = spk

\* The first message of h is decrypted: its one-time key goes with the commit.
KeysUse(h) ==
    /\ ~h.used /\ HoldsSigned(h.spk) /\ h.otk \in phone.otks \cup {0}
    /\ phone' = [phone EXCEPT !.otks = @ \ {h.otk}]
    /\ handed' = (handed \ {h}) \cup {[h EXCEPT !.used = TRUE]}
    /\ UNCHANGED <<bundle, job, low, stray, now, taken, failures, floated>>

\* Time passes.
KeysTick ==
    /\ now < MaxNow /\ stray = {} /\ job = NoJob
    /\ now' = now + 1
    /\ UNCHANGED <<bundle, phone, job, low, stray, handed, taken, failures, floated>>

KeysNext ==
    \/ KeysStart \/ KeysPublish \/ KeysRotate \/ KeysTopUp \/ KeysLow \/ KeysDrop
    \/ KeysAnswered \/ KeysBreak \/ KeysExecute \/ KeysTaken \/ KeysHand \/ KeysTick
    \/ \E req \in stray : KeysLate(req)
    \/ \E h \in handed : KeysUse(h)

KeysSpec == KeysInit /\ [][KeysNext]_keysVars

-----------------------------------------------------------------------------
BundleIsUsable ==
    /\ HoldsSigned(bundle.spk)
    /\ \A k \in DOMAIN bundle.otks : bundle.otks[k] \in phone.otks

OneTimeKeysKept ==
    /\ \A h, g \in handed : h.otk # 0 /\ h.otk = g.otk => h = g
    /\ \A h \in handed : h.otk # 0 /\ ~h.used /\ now <= h.at + Keep => h.otk \in phone.otks

\* The published install holds the private half of every key in its bundle, whatever
\* requests were lost and whoever took over in between: a sender who starts a session
\* from it can be answered (keyManager.ts saves keys before it sends them, and drops
\* replaced ones only after the server's answer). A one-time key is handed out once
\* (getPreKeyBundle), and its private half is kept for messages still on their way until
\* a message used it or Keep has passed (full_publish_at of ensureKeysPublished). A
\* request carried out after the phone gave it up can break both.
KeysAreHeld == ~floated => (bundle.of = "this" => BundleIsUsable) /\ OneTimeKeysKept

\* "Old private keys are kept a while so messages already on their way can still be
\* read" (keyManager.ts:22), said of the signed prekeys: whoever was handed one in this
\* same stretch of time can be answered.
SignedPreKeyKept == \A h \in handed : ~h.used /\ h.at = now => HoldsSigned(h.spk)
=============================================================================
