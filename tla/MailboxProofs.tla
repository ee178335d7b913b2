---------------------------- MODULE MailboxProofs ----------------------------
(***************************************************************************)
(* Machine-checked facts about Mailbox, for every number of messages,      *)
(* installs and faults and every page and batch size.                      *)
(***************************************************************************)
EXTENDS Mailbox, TLAPS

-----------------------------------------------------------------------------
(* Lemmas about the operators *)

LEMMA Bounds ==
    /\ MaxDocs \in Nat /\ MaxDocs >= 1 /\ MaxReg \in Nat /\ MaxReg >= 1
    /\ MaxPages \in Nat /\ MaxPages >= 1 /\ MaxFaults \in Nat
BY StoreAssumption, MailboxAssumption DEF StoreAssumption, MailboxAssumption

\* A slice takes only what is there.
LEMMA SliceIsPart ==
    ASSUME NEW S, NEW limit, NEW T \in Slice(S, limit)
    PROVE  T \subseteq S
<1>1. CASE Cardinality(S) <= limit
  BY <1>1 DEF Slice
<1>2. CASE ~(Cardinality(S) <= limit)
  BY <1>2 DEF Slice
<1> QED BY <1>1, <1>2

\* A page of the pending queue holds stored messages only.
LEMMA PageIsStored == ASSUME NEW limit PROVE PendingPage(limit) \subseteq Stored
BY DEF PendingPage, Pending

\* Document ids are bounded.
LEMMA StoredInIds == ASSUME StoreTypeOK PROVE Stored = 1..Len(docs) /\ Stored \subseteq Ids
BY Bounds DEF StoreTypeOK, Stored, Ids

\* Message.create() adds one document at the end and changes no other.
LEMMA CreateGrows ==
    ASSUME StoreTypeOK, NEW d \in Doc, Create(d)
    PROVE  /\ docs' \in Seq(Doc) /\ Len(docs') <= MaxDocs
           /\ Stored \subseteq Stored' /\ Stored' \subseteq Ids
           /\ Stored' = Stored \cup {Len(docs) + 1}
           /\ Len(docs) + 1 \in Ids /\ Len(docs) + 1 \notin Stored
           /\ \A i \in Stored : docs'[i] = docs[i]
BY Bounds DEF StoreTypeOK, Create, Stored, Ids

-----------------------------------------------------------------------------
(* Type correctness *)

LEMMA IdleIsDrain == NotDraining \in Drain
BY Bounds DEF NotDraining, Drain, DrainState

LEMMA InitType == Init => TypeOK
<1> SUFFICES ASSUME Init PROVE TypeOK OBVIOUS
<1>1. StoreTypeOK
  BY Bounds DEF Init, StoreInit, StoreTypeOK
<1>2. ServerTypeOK
  BY Bounds DEF Init, ServerTypeOK, Regs
<1>3. SocketTypeOK
  <2>1. pushed \in Seq(Ids)
    BY DEF Init
  <2> QED BY <2>1 DEF Init, SocketTypeOK
<1>4. PhoneTypeOK
  BY Bounds DEF Init, PhoneTypeOK, Kinds, Regs
<1>5. MemoryTypeOK
  BY IdleIsDrain DEF Init, MemoryTypeOK
<1> QED BY <1>1, <1>2, <1>3, <1>4, <1>5, Bounds DEF TypeOK, Init

\* What an action leaves alone keeps its type.
LEMMA KeptType ==
    ASSUME TypeOK
    PROVE  /\ UNCHANGED storeVars => StoreTypeOK'
           /\ UNCHANGED serverVars => ServerTypeOK'
           /\ UNCHANGED socketVars => SocketTypeOK'
           /\ UNCHANGED phoneVars => PhoneTypeOK'
           /\ UNCHANGED memoryVars => MemoryTypeOK'
<1>1. UNCHANGED storeVars => StoreTypeOK'
  BY DEF TypeOK, storeVars, StoreTypeOK
<1>2. UNCHANGED serverVars => ServerTypeOK'
  BY DEF TypeOK, serverVars, ServerTypeOK
<1>3. UNCHANGED socketVars => SocketTypeOK'
  BY DEF TypeOK, socketVars, SocketTypeOK
<1>4. UNCHANGED phoneVars => PhoneTypeOK'
  BY DEF TypeOK, phoneVars, PhoneTypeOK
<1>5. UNCHANGED memoryVars => MemoryTypeOK'
  BY DEF TypeOK, memoryVars, MemoryTypeOK
<1> QED BY <1>1, <1>2, <1>3, <1>4, <1>5

\* The receiving phone keeps its types whichever way it processes a message.
LEMMA ProcessType ==
    ASSUME TypeOK, NEW i \in Ids, Process(i)
    PROVE  /\ PhoneTypeOK'
           /\ pendingAcks' \subseteq Ids /\ resetRequests' \subseteq Ids
           /\ resetTimer' \in BOOLEAN
<1> USE DEF TypeOK, PhoneTypeOK, MemoryTypeOK
<1>1. reg \in 0..MaxReg
  BY Bounds DEF Regs
<1>2. CASE AlreadyStored(i) \/ Duplicate(i)
  BY <1>2 DEF Process, AlreadyStored, Duplicate, phoneVars
<1>3. CASE OtherInstall(i)
  BY <1>1, <1>3 DEF Process, OtherInstall, Kinds
<1>4. CASE Unreadable(i)
  <2>1. resetTimer' \in BOOLEAN
    BY <1>4 DEF Unreadable
  <2> QED BY <1>1, <1>4, <2>1 DEF Process, Unreadable, Kinds
<1>5. CASE Readable(i)
  BY <1>1, <1>5 DEF Process, Readable, Kinds
<1> QED BY <1>2, <1>3, <1>4, <1>5 DEF Process

\* Sending acknowledgements adds at most a task for ids the phone was keeping.
LEMMA FlushAcksType ==
    ASSUME TypeOK, FlushAcks \/ FlushAcksFails
    PROVE  ackTasks' \subseteq AckTask /\ pendingAcks' \subseteq Ids
<1>1. ackTasks \subseteq AckTask /\ pendingAcks \subseteq Ids
  BY DEF TypeOK, ServerTypeOK, MemoryTypeOK
<1>2. ASSUME NEW ids \in Slice(pendingAcks, AckLimit), SendAcks(ids)
      PROVE  ackTasks' \subseteq AckTask
  <2>1. ids \subseteq Ids
    BY <1>1, <1>2, SliceIsPart
  <2> QED BY <1>1, <1>2, <2>1 DEF SendAcks, AckTask
<1> QED BY <1>1, <1>2 DEF FlushAcks, FlushAcksFails

LEMMA FlushResetRequestsType ==
    ASSUME TypeOK, FlushResetRequests
    PROVE  /\ resetTasks' \subseteq SUBSET Ids /\ resetRequests' \subseteq Ids
           /\ cut' \subseteq Ids
<1>1. ASSUME NEW ids \in Slice(resetRequests, ResetLimit) PROVE ids \subseteq Ids
  BY SliceIsPart DEF TypeOK, MemoryTypeOK
<1> QED BY <1>1 DEF FlushResetRequests, TypeOK, ServerTypeOK, MemoryTypeOK

LEMMA CutDownType == ASSUME TypeOK, CutDown PROVE online' \in BOOLEAN /\ pushed' \in Seq(Ids)
<1>1. online' \in BOOLEAN
  BY DEF CutDown
<1>2. pushed \in Seq(Ids)
  BY DEF TypeOK, SocketTypeOK
<1>3. pushed' \in Seq(Ids)
  <2> SUFFICES ASSUME NEW n \in 0..Len(pushed), pushed' = SubSeq(pushed, 1, n)
               PROVE  pushed' \in Seq(Ids)
    BY DEF CutDown
  <2> QED BY <1>2
<1> QED BY <1>1, <1>3

LEMMA LoseFramesType ==
    ASSUME TypeOK, NEW S \in SUBSET Ids, LoseFrames(S)
    PROVE  /\ ackTasks' \subseteq AckTask /\ resetTasks' \subseteq SUBSET Ids
           /\ cut' \subseteq Ids
<1>1. ackTasks' \subseteq AckTask
  BY DEF TypeOK, ServerTypeOK, LoseFrames
<1>2. PICK lost \in SUBSET resetTasks :
         resetTasks' = resetTasks \ lost /\ cut' = cut \cup S \cup UNION lost
  BY DEF LoseFrames
<1>3. UNION lost \subseteq Ids
  BY <1>2 DEF TypeOK, ServerTypeOK
<1>4. resetTasks' \subseteq SUBSET Ids
  BY <1>2 DEF TypeOK, ServerTypeOK
<1>5. cut' \subseteq Ids
  BY <1>2, <1>3 DEF TypeOK
<1> QED BY <1>1, <1>4, <1>5

LEMMA ForgetMemoryType == ASSUME ForgetMemory PROVE SocketTypeOK' /\ MemoryTypeOK'
<1>1. pushed' \in Seq(Ids)
  BY DEF ForgetMemory
<1>2. SocketTypeOK'
  BY <1>1 DEF ForgetMemory, SocketTypeOK
<1>3. MemoryTypeOK'
  BY IdleIsDrain DEF ForgetMemory, MemoryTypeOK
<1> QED BY <1>2, <1>3

LEMMA FaultType == ASSUME TypeOK, NEW k, Fault(k) PROVE faults' \in 0..MaxFaults
BY Bounds DEF TypeOK, Fault

\* The server's own steps.
LEMMA ServerStepType == ASSUME TypeOK, ServerStep PROVE TypeOK'
<1> USE KeptType
<1>1. ASSUME NEW i \in emitting, Push(i) PROVE TypeOK'
  <2>1. i \in Ids
    BY DEF TypeOK, StoreTypeOK
  <2>2. pushed' \in Seq(Ids)
    BY <1>1, <2>1 DEF Push, TypeOK, SocketTypeOK
  <2>3. SocketTypeOK'
    BY <1>1, <2>2 DEF Push, TypeOK, SocketTypeOK
  <2>4. StoreTypeOK'
    BY <1>1 DEF Push, Emitted, TypeOK, StoreTypeOK
  <2> QED BY <1>1, <2>3, <2>4 DEF Push, TypeOK
<1>2. ASSUME NEW t \in ackTasks, AckDrops(t) PROVE TypeOK'
  <2>1. t \in AckTask
    BY DEF TypeOK, ServerTypeOK
  <2>2. StoreTypeOK'
    BY <1>2, <2>1 DEF AckDrops, DropEnvelopes, TypeOK, StoreTypeOK, AckTask
  <2>3. ackTasks' \subseteq AckTask
    BY <1>2, <2>1 DEF AckDrops, TypeOK, ServerTypeOK, AckTask
  <2>4. ServerTypeOK'
    BY <1>2, <2>3 DEF AckDrops, TypeOK, ServerTypeOK
  <2> QED BY <1>2, <2>2, <2>4 DEF AckDrops, TypeOK
<1>3. ASSUME NEW t \in ackTasks, AckDelivers(t) PROVE TypeOK'
  <2>1. t \in AckTask
    BY DEF TypeOK, ServerTypeOK
  <2>2. StoreTypeOK'
    BY <1>3, <2>1 DEF AckDelivers, CountDelivered, TypeOK, StoreTypeOK, AckTask
  <2>3. ServerTypeOK'
    BY <1>3 DEF AckDelivers, TypeOK, ServerTypeOK
  <2> QED BY <1>3, <2>2, <2>3 DEF AckDelivers, TypeOK
<1>4. ASSUME NEW ids \in resetTasks, StoreReset(ids) PROVE TypeOK'
  <2>1. ids \subseteq Ids
    BY DEF TypeOK, ServerTypeOK
  <2>2. resets' \in Seq(SUBSET Ids) /\ asked' \subseteq Ids /\ cut' \subseteq Ids
    BY <1>4, <2>1 DEF StoreReset, TypeOK, ServerTypeOK
  <2>3. ServerTypeOK'
    BY <1>4, <2>2 DEF StoreReset, TypeOK, ServerTypeOK
  <2> QED BY <1>4, <2>2, <2>3 DEF StoreReset, TypeOK
<1> QED BY <1>1, <1>2, <1>3, <1>4 DEF ServerStep

\* The phone's timers and the messages pushed to it.
LEMMA ReceivingType ==
    ASSUME TypeOK, ReceivePush \/ ReceivePushFails \/ AckTimerFires \/ ResetTimerFires
    PROVE  TypeOK'
<1> USE KeptType
<1>1. ASSUME pushed # << >> PROVE Head(pushed) \in Ids /\ Tail(pushed) \in Seq(Ids)
  BY <1>1 DEF TypeOK, SocketTypeOK
<1>2. CASE ReceivePush
  <2>1. PhoneTypeOK' /\ MemoryTypeOK'
    BY <1>1, <1>2, ProcessType DEF ReceivePush, TypeOK, MemoryTypeOK
  <2>2. SocketTypeOK'
    BY <1>1, <1>2 DEF ReceivePush, TypeOK, SocketTypeOK
  <2> QED BY <1>2, <2>1, <2>2 DEF ReceivePush, TypeOK
<1>3. CASE ReceivePushFails
  <2>1. SocketTypeOK'
    BY <1>1, <1>3 DEF ReceivePushFails, TypeOK, SocketTypeOK
  <2> QED BY <1>3, <2>1, FaultType DEF ReceivePushFails, TypeOK
<1>4. CASE AckTimerFires
  <2>1. ackTasks' \subseteq AckTask /\ pendingAcks' \subseteq Ids
    BY <1>4, FlushAcksType DEF AckTimerFires
  <2>2. ServerTypeOK'
    BY <1>4, <2>1 DEF AckTimerFires, TypeOK, ServerTypeOK
  <2>3. MemoryTypeOK'
    BY <1>4, <2>1 DEF AckTimerFires, TypeOK, MemoryTypeOK
  <2> QED BY <1>4, <2>2, <2>3 DEF AckTimerFires, TypeOK
<1>5. CASE ResetTimerFires
  <2>1. /\ resetTasks' \subseteq SUBSET Ids /\ resetRequests' \subseteq Ids
        /\ cut' \subseteq Ids
    BY <1>5, FlushResetRequestsType DEF ResetTimerFires
  <2>2. ServerTypeOK'
    BY <1>5, <2>1 DEF ResetTimerFires, TypeOK, ServerTypeOK
  <2>3. MemoryTypeOK'
    BY <1>5, <2>1 DEF ResetTimerFires, TypeOK, MemoryTypeOK
  <2> QED BY <1>5, <2>1, <2>2, <2>3 DEF ResetTimerFires, TypeOK
<1> QED BY <1>2, <1>3, <1>4, <1>5

\* The drain after a reconnect.
LEMMA DrainFields ==
    ASSUME TypeOK
    PROVE  /\ NextPageDue => [drain EXCEPT !.stage = "fetch"] \in Drain
           /\ [drain EXCEPT !.again = TRUE] \in Drain
           /\ [NotDraining EXCEPT !.stage = "fetch"] \in Drain
           /\ \A i : [drain EXCEPT !.batch = @ \ {i}] \in Drain
           /\ \A i : [drain EXCEPT !.batch = @ \ {i}, !.handled = TRUE] \in Drain
           /\ drain.batch \subseteq Ids
<1>1. drain \in Drain
  BY DEF TypeOK, MemoryTypeOK
<1>2. [NotDraining EXCEPT !.stage = "fetch"] \in Drain
  <2>1. /\ NotDraining \in DrainState /\ NotDraining.page = 0 /\ 0 < MaxPages
        /\ "fetch" \in {"idle", "fetch", "page"}
    BY IdleIsDrain, Bounds DEF NotDraining, Drain
  <2>2. \A d \in DrainState : [d EXCEPT !.stage = "fetch"] \in DrainState
    BY DEF DrainState
  <2> QED BY <2>1, <2>2 DEF Drain, DrainState
<1> QED BY <1>1, <1>2 DEF Drain, DrainState, NextPageDue

LEMMA DrainType ==
    ASSUME TypeOK,
           \/ HandleRegistered \/ FetchPage \/ FetchFails
           \/ DrainOne \/ DrainOneFails \/ EndPage \/ EndPageFails
    PROVE  TypeOK'
<1> USE KeptType
<1>1. CASE HandleRegistered
  <2>1. drain' \in Drain
    BY <1>1, DrainFields DEF HandleRegistered
  <2>2. /\ resetTasks' \subseteq SUBSET Ids /\ resetRequests' \subseteq Ids
        /\ cut' \subseteq Ids
    BY <1>1, FlushResetRequestsType
       DEF HandleRegistered, TypeOK, ServerTypeOK, MemoryTypeOK
  <2>3. ServerTypeOK'
    BY <1>1, <2>2 DEF HandleRegistered, TypeOK, ServerTypeOK
  <2>4. SocketTypeOK'
    <3>1. registered' \in BOOLEAN
      BY <1>1 DEF HandleRegistered
    <3> QED BY <1>1, <3>1 DEF HandleRegistered, TypeOK, SocketTypeOK
  <2>5. MemoryTypeOK'
    BY <1>1, <2>1, <2>2 DEF HandleRegistered, TypeOK, MemoryTypeOK
  <2> QED BY <1>1, <2>2, <2>3, <2>4, <2>5 DEF HandleRegistered, TypeOK
<1>2. CASE FetchPage
  <2>1. drain \in Drain /\ PendingPage(PageSize) \subseteq Ids
    BY PageIsStored, StoredInIds DEF TypeOK, MemoryTypeOK
  <2>2. drain.page + 1 \in 0..MaxPages /\ 0 \in 0..MaxPages
    BY <1>2, <2>1, Bounds DEF FetchPage, Drain, DrainState
  <2>4. (PendingPage(PageSize) # Pending) \in BOOLEAN
    OBVIOUS
  <2>5. drain' \in DrainState /\ drain'.stage = "page"
    BY <1>2, <2>1, <2>2, <2>4 DEF FetchPage, Drain, DrainState
  <2>6. drain' \in Drain
    BY <2>5 DEF Drain
  <2>3. MemoryTypeOK'
    BY <1>2, <2>6 DEF FetchPage, TypeOK, MemoryTypeOK
  <2> QED BY <1>2, <2>3 DEF FetchPage, TypeOK
<1>3. CASE FetchFails
  <2>1. MemoryTypeOK'
    BY <1>3, IdleIsDrain DEF FetchFails, TypeOK, MemoryTypeOK
  <2> QED BY <1>3, <2>1, FaultType DEF FetchFails, TypeOK
<1>4. CASE DrainOne
  <2> PICK i \in drain.batch :
         Process(i) /\ drain' = [drain EXCEPT !.batch = @ \ {i}, !.handled = TRUE]
    BY <1>4 DEF DrainOne
  <2>1. i \in Ids /\ drain' \in Drain
    BY DrainFields
  <2>2. PhoneTypeOK' /\ MemoryTypeOK'
    BY <1>4, <2>1, ProcessType DEF DrainOne, TypeOK, MemoryTypeOK
  <2> QED BY <1>4, <2>2 DEF DrainOne, TypeOK
<1>5. CASE DrainOneFails
  <2>1. drain' \in Drain
    BY <1>5, DrainFields DEF DrainOneFails
  <2>2. MemoryTypeOK'
    BY <1>5, <2>1 DEF DrainOneFails, TypeOK, MemoryTypeOK
  <2> QED BY <1>5, <2>2, FaultType DEF DrainOneFails, TypeOK
<1>6. CASE EndPage
  <2>1. drain' \in Drain
    BY <1>6, DrainFields, IdleIsDrain DEF EndPage
  <2>2. ackTasks' \subseteq AckTask /\ pendingAcks' \subseteq Ids
    BY <1>6, FlushAcksType DEF EndPage
  <2>3. /\ resetTasks' \subseteq SUBSET Ids /\ resetRequests' \subseteq Ids
        /\ cut' \subseteq Ids
    BY <1>6, FlushResetRequestsType DEF EndPage, TypeOK, ServerTypeOK, MemoryTypeOK
  <2>4. ServerTypeOK'
    BY <1>6, <2>2, <2>3 DEF EndPage, TypeOK, ServerTypeOK
  <2>5. MemoryTypeOK'
    BY <1>6, <2>1, <2>2, <2>3 DEF EndPage, TypeOK, MemoryTypeOK
  <2> QED BY <1>6, <2>3, <2>4, <2>5 DEF EndPage, TypeOK
<1>7. CASE EndPageFails
  <2>1. ackTasks' \subseteq AckTask /\ pendingAcks' \subseteq Ids
    BY <1>7, FlushAcksType DEF EndPageFails
  <2>2. ServerTypeOK'
    BY <1>7, <2>1 DEF EndPageFails, TypeOK, ServerTypeOK
  <2>3. MemoryTypeOK'
    BY <1>7, <2>1, IdleIsDrain DEF EndPageFails, TypeOK, MemoryTypeOK
  <2> QED BY <1>7, <2>2, <2>3 DEF EndPageFails, TypeOK
<1> QED BY <1>1, <1>2, <1>3, <1>4, <1>5, <1>6, <1>7

\* Connections, senders and faults.
LEMMA EnvironmentType ==
    ASSUME TypeOK,
           \/ \E m \in Msgs, good \in BOOLEAN, o \in Stored \cup {NoId} : Deposit(m, good, o)
           \/ TargetAcksReset \/ Connect \/ PublishKeys
           \/ Drop \/ Crash \/ Reinstall \/ ServerCrash
    PROVE  TypeOK'
<1> USE KeptType
<1>1. ASSUME NEW m \in Msgs, NEW good \in BOOLEAN, NEW o \in Stored \cup {NoId},
             Deposit(m, good, o)
      PROVE  TypeOK'
  <2> DEFINE d == [msg |-> m, reg |-> srvReg, good |-> good, resendOf |-> o]
  <2>1. d \in Doc
    BY StoredInIds DEF TypeOK, ServerTypeOK, Doc
  <2>2. Create(d)
    BY <1>1 DEF Deposit
  <2>3. /\ docs' \in Seq(Doc) /\ Len(docs') <= MaxDocs /\ Len(docs) + 1 \in Ids
    BY <2>1, <2>2, CreateGrows DEF TypeOK
  <2>4. StoreTypeOK'
    BY <2>2, <2>3 DEF Create, TypeOK, StoreTypeOK
  <2> QED BY <1>1, <2>4 DEF Deposit, TypeOK
<1>2. CASE TargetAcksReset
  <2>1. ServerTypeOK'
    BY <1>2 DEF TargetAcksReset, TypeOK, ServerTypeOK
  <2> QED BY <1>2, <2>1 DEF TargetAcksReset, TypeOK
<1>3. CASE Connect
  <2>1. SocketTypeOK'
    BY <1>3 DEF Connect, TypeOK, SocketTypeOK
  <2> QED BY <1>3, <2>1 DEF Connect, TypeOK
<1>4. CASE PublishKeys
  <2>1. ServerTypeOK'
    BY <1>4 DEF PublishKeys, TypeOK, ServerTypeOK, PhoneTypeOK
  <2> QED BY <1>4, <2>1 DEF PublishKeys, TypeOK
<1>5. CASE Drop
  <2>1. SocketTypeOK'
    BY <1>5, CutDownType DEF Drop, TypeOK, SocketTypeOK
  <2>2. ServerTypeOK' /\ cut' \subseteq Ids
    BY <1>5, LoseFramesType DEF Drop, TypeOK, ServerTypeOK
  <2> QED BY <1>5, <2>1, <2>2, FaultType DEF Drop, TypeOK
<1>6. CASE Crash
  <2>1. SocketTypeOK' /\ MemoryTypeOK'
    BY <1>6, ForgetMemoryType DEF Crash
  <2>2. resetRequests \subseteq Ids
    BY DEF TypeOK, MemoryTypeOK
  <2>3. ServerTypeOK' /\ cut' \subseteq Ids
    BY <1>6, <2>2, LoseFramesType DEF Crash, TypeOK, ServerTypeOK
  <2> QED BY <1>6, <2>1, <2>3, FaultType DEF Crash, TypeOK
<1>7. CASE Reinstall
  <2>1. SocketTypeOK' /\ MemoryTypeOK'
    BY <1>7, ForgetMemoryType DEF Reinstall
  <2>2. reg' \in Regs
    BY <1>7, Bounds DEF Reinstall, TypeOK, PhoneTypeOK, Regs
  <2>3. rows' \in [Ids -> Kinds] /\ consumed' = {} /\ held' = held
    BY <1>7 DEF Reinstall, Kinds
  <2>4. PhoneTypeOK'
    BY <2>2, <2>3 DEF TypeOK, PhoneTypeOK
  <2> QED BY <1>7, <2>1, <2>4, FaultType DEF Reinstall, TypeOK
<1>8. CASE ServerCrash
  <2>1. SocketTypeOK'
    BY <1>8, CutDownType DEF ServerCrash, TypeOK, SocketTypeOK
  <2>2. StoreTypeOK'
    BY <1>8 DEF ServerCrash, TypeOK, StoreTypeOK
  <2>3. ServerTypeOK'
    BY <1>8 DEF ServerCrash, TypeOK, ServerTypeOK
  <2>4. UNION resetTasks \subseteq Ids
    BY DEF TypeOK, ServerTypeOK
  <2>5. cut' \subseteq Ids
    BY <1>8, <2>4 DEF ServerCrash, TypeOK
  <2> QED BY <1>8, <2>1, <2>2, <2>3, <2>5, FaultType DEF ServerCrash, TypeOK
<1> QED BY <1>1, <1>2, <1>3, <1>4, <1>5, <1>6, <1>7, <1>8

\* Every step keeps the types.
LEMMA NextType == ASSUME TypeOK, [Next]_vars PROVE TypeOK'
<1>1. CASE UNCHANGED vars
  BY <1>1, KeptType DEF vars, TypeOK
<1>2. CASE Next
  BY <1>2, ServerStepType, ReceivingType, DrainType, EnvironmentType
     DEF Next, PhoneStep, Environment
<1> QED BY <1>1, <1>2

(***************************************************************************)
(* Every reachable state of the mailbox is well typed.                     *)
(***************************************************************************)
THEOREM MailboxTypeCorrect == Spec => []TypeOK
BY InitType, NextType, PTL DEF Spec

-----------------------------------------------------------------------------
(* Custody *)

(***************************************************************************)
(* AckedIsHeld is not inductive: an id travels from the phone's row over   *)
(* pendingAcks and an ack on its way to the server's update, and each link *)
(* of that chain must only carry recorded ids.  Sessions count as well: a  *)
(* duplicate is acknowledged because its key was used, with no row to see. *)
(***************************************************************************)
AckChain ==
    /\ acked \subseteq Held
    /\ \A t \in ackTasks : t.ids \subseteq Held
    /\ pendingAcks \subseteq Held
    /\ consumed \subseteq Held
    /\ \A i \in Ids : rows[i] # "none" => i \in Held

LEMMA InitChain == Init => AckChain
BY DEF Init, StoreInit, AckChain

\* Whichever way a message is processed, it is on record afterwards.
LEMMA ProcessRecords ==
    ASSUME TypeOK, AckChain, NEW i \in Ids, Process(i)
    PROVE  /\ Held' = Held \cup {i} /\ consumed' \subseteq Held'
           /\ pendingAcks' \subseteq Held'
           /\ \A j \in Ids : rows'[j] # "none" => j \in Held'
<1> USE DEF TypeOK, PhoneTypeOK, AckChain, Held
<1>1. reg # 0 /\ reg \in 0..MaxReg
  BY Bounds DEF Regs
<1>2. CASE AlreadyStored(i) \/ Duplicate(i)
  BY <1>2 DEF Process, AlreadyStored, Duplicate, phoneVars
<1>3. CASE OtherInstall(i) \/ Unreadable(i)
  BY <1>1, <1>3 DEF Process, OtherInstall, Unreadable
<1>4. CASE Readable(i)
  BY <1>1, <1>4 DEF Process, Readable
<1> QED BY <1>2, <1>3, <1>4 DEF Process

\* Acknowledging sends on only what was waiting.
LEMMA FlushAcksChain ==
    ASSUME AckChain, FlushAcks \/ FlushAcksFails
    PROVE  (\A t \in ackTasks' : t.ids \subseteq Held) /\ pendingAcks' \subseteq Held
<1>1. ASSUME NEW ids \in Slice(pendingAcks, AckLimit), SendAcks(ids)
      PROVE  \A t \in ackTasks' : t.ids \subseteq Held
  <2>1. ids \subseteq Held
    BY <1>1, SliceIsPart DEF AckChain
  <2> QED BY <1>1, <2>1 DEF SendAcks, AckChain
<1> QED BY <1>1 DEF FlushAcks, FlushAcksFails, AckChain

LEMMA LoseFramesChain ==
    ASSUME AckChain, NEW S, LoseFrames(S)
    PROVE  \A t \in ackTasks' : t.ids \subseteq Held
BY DEF LoseFrames, AckChain

LEMMA ChainNext == ASSUME TypeOK, AckChain, [Next]_vars PROVE AckChain'
<1>1. ASSUME UNCHANGED held PROVE Held' = Held
  BY <1>1 DEF Held
<1>2. CASE UNCHANGED vars
  BY <1>1, <1>2 DEF vars, storeVars, serverVars, phoneVars, memoryVars, AckChain
<1>3. ASSUME NEW i \in emitting, Push(i) PROVE AckChain'
  BY <1>1, <1>3 DEF Push, Emitted, serverVars, phoneVars, memoryVars, AckChain
<1>4. ASSUME NEW t \in ackTasks, AckDrops(t) PROVE AckChain'
  BY <1>1, <1>4 DEF AckDrops, DropEnvelopes, phoneVars, memoryVars, AckChain
<1>5. ASSUME NEW t \in ackTasks, AckDelivers(t) PROVE AckChain'
  BY <1>1, <1>5 DEF AckDelivers, CountDelivered, phoneVars, memoryVars, AckChain
<1>6. ASSUME NEW ids \in resetTasks, StoreReset(ids) PROVE AckChain'
  BY <1>1, <1>6 DEF StoreReset, storeVars, phoneVars, memoryVars, AckChain
<1>7. CASE ReceivePush
  <2>1. Head(pushed) \in Ids
    BY <1>7 DEF ReceivePush, TypeOK, SocketTypeOK
  <2> QED BY <1>7, <2>1, ProcessRecords DEF ReceivePush, storeVars, serverVars, AckChain
<1>8. CASE ReceivePushFails
  BY <1>1, <1>8 DEF ReceivePushFails, storeVars, serverVars, phoneVars, memoryVars, AckChain
<1>9. CASE AckTimerFires
  BY <1>1, <1>9, FlushAcksChain DEF AckTimerFires, storeVars, phoneVars, AckChain
<1>10. CASE ResetTimerFires
  BY <1>1, <1>10 DEF ResetTimerFires, storeVars, phoneVars, AckChain
<1>11. CASE HandleRegistered
  BY <1>1, <1>11 DEF HandleRegistered, storeVars, phoneVars, AckChain
<1>12. CASE FetchPage \/ FetchFails
  BY <1>1, <1>12 DEF FetchPage, FetchFails, storeVars, serverVars, phoneVars, AckChain
<1>13. CASE DrainOne
  <2> PICK i \in drain.batch : Process(i)
    BY <1>13 DEF DrainOne
  <2>1. i \in Ids
    BY DrainFields
  <2> QED BY <1>13, <2>1, ProcessRecords DEF DrainOne, storeVars, serverVars, AckChain
<1>14. CASE DrainOneFails
  BY <1>1, <1>14 DEF DrainOneFails, storeVars, serverVars, phoneVars, AckChain
<1>15. CASE EndPage
  BY <1>1, <1>15, FlushAcksChain DEF EndPage, storeVars, phoneVars, AckChain
<1>16. CASE EndPageFails
  BY <1>1, <1>16, FlushAcksChain DEF EndPageFails, storeVars, phoneVars, AckChain
<1>17. CASE Connect \/ TargetAcksReset
  BY <1>1, <1>17
     DEF Connect, TargetAcksReset, storeVars, serverVars, phoneVars, memoryVars, AckChain
<1>18. CASE PublishKeys
  BY <1>1, <1>18 DEF PublishKeys, storeVars, phoneVars, memoryVars, AckChain
<1>19. ASSUME NEW m, NEW good, NEW o, Deposit(m, good, o) PROVE AckChain'
  BY <1>1, <1>19 DEF Deposit, Create, serverVars, phoneVars, memoryVars, AckChain
<1>20. CASE Drop
  BY <1>1, <1>20, LoseFramesChain DEF Drop, storeVars, phoneVars, memoryVars, AckChain
<1>21. CASE Crash
  BY <1>1, <1>21, LoseFramesChain DEF Crash, ForgetMemory, storeVars, phoneVars, AckChain
<1>22. CASE Reinstall
  BY <1>1, <1>22 DEF Reinstall, ForgetMemory, storeVars, serverVars, AckChain
<1>23. CASE ServerCrash
  BY <1>1, <1>23 DEF ServerCrash, phoneVars, memoryVars, AckChain
<1> QED
  BY <1>2, <1>3, <1>4, <1>5, <1>6, <1>7, <1>8, <1>9, <1>10, <1>11, <1>12, <1>13, <1>14,
     <1>15, <1>16, <1>17, <1>18, <1>19, <1>20, <1>21, <1>22, <1>23
     DEF Next, ServerStep, PhoneStep, Environment

(***************************************************************************)
(* The server never deletes an envelope (acknowledgeMessages) before some  *)
(* install of the phone recorded the message (processIncoming).            *)
(***************************************************************************)
THEOREM AckedMessagesAreHeld == Spec => []AckedIsHeld
<1>1. AckChain => AckedIsHeld
  BY DEF AckChain, AckedIsHeld
<1> QED BY <1>1, InitType, NextType, InitChain, ChainNext, PTL DEF Spec

-----------------------------------------------------------------------------
(* What the phone handles is stored, and by no later install than its own *)

Known ==
    /\ \A i \in Held : i \in Stored /\ held[i] <= reg
    /\ \A n \in DOMAIN pushed : pushed[n] \in Stored
    /\ drain.batch \subseteq Stored
    /\ emitting \subseteq Stored

LEMMA InitKnown == Init => Known
BY DEF Init, StoreInit, Known, Held, NotDraining

\* Documents are only added and never changed.
LEMMA StoreGrows ==
    ASSUME TypeOK, [Next]_vars
    PROVE  /\ Stored \subseteq Stored'
           /\ \A i \in Stored : docs'[i] = docs[i]
<1>1. CASE UNCHANGED docs
  BY <1>1 DEF Stored
<1>2. ASSUME NEW m \in Msgs, NEW good \in BOOLEAN, NEW o \in Stored \cup {NoId},
             Deposit(m, good, o)
      PROVE  Stored \subseteq Stored' /\ \A i \in Stored : docs'[i] = docs[i]
  <2>1. [msg |-> m, reg |-> srvReg, good |-> good, resendOf |-> o] \in Doc
    BY StoredInIds DEF TypeOK, ServerTypeOK, Doc
  <2> QED BY <1>2, <2>1, CreateGrows DEF Deposit, TypeOK
<1>3. CASE ServerStep
  BY <1>1, <1>3
     DEF ServerStep, Push, Emitted, AckDrops, DropEnvelopes, AckDelivers, CountDelivered,
         StoreReset, storeVars
<1>4. CASE PhoneStep
  BY <1>1, <1>4
     DEF PhoneStep, ReceivePush, AckTimerFires, ResetTimerFires, HandleRegistered, FetchPage,
         DrainOne, EndPage, EndPageFails, Connect, PublishKeys, storeVars
<1>5. CASE UNCHANGED vars
  BY <1>1, <1>5 DEF vars, storeVars
<1>6. CASE TargetAcksReset \/ ReceivePushFails \/ FetchFails \/ DrainOneFails
           \/ Drop \/ Crash \/ Reinstall \/ ServerCrash
  BY <1>1, <1>6
     DEF TargetAcksReset, ReceivePushFails, FetchFails, DrainOneFails, Drop, Crash, Reinstall,
         ServerCrash, storeVars
<1> QED BY <1>2, <1>3, <1>4, <1>5, <1>6 DEF Next, Environment

\* The phone's database changes only by processing a stored message or a reinstall.
LEMMA PhoneChanges ==
    ASSUME TypeOK, Known, [Next]_vars
    PROVE  \/ UNCHANGED phoneVars
           \/ Reinstall
           \/ UNCHANGED docs /\ \E i \in Stored : Process(i)
<1>1. CASE ServerStep
  BY <1>1 DEF ServerStep, Push, AckDrops, AckDelivers, StoreReset
<1>2. CASE ReceivePush
  <2>1. 1 \in DOMAIN pushed /\ Head(pushed) = pushed[1]
    BY <1>2 DEF ReceivePush, TypeOK, SocketTypeOK
  <2> QED BY <1>2, <2>1 DEF ReceivePush, Known, storeVars
<1>3. CASE DrainOne
  BY <1>3 DEF DrainOne, Known, storeVars
<1>4. CASE AckTimerFires \/ ResetTimerFires \/ HandleRegistered \/ FetchPage \/ EndPage
           \/ EndPageFails \/ Connect \/ PublishKeys
  BY <1>4
     DEF AckTimerFires, ResetTimerFires, HandleRegistered, FetchPage, EndPage, EndPageFails,
         Connect, PublishKeys
<1>5. CASE Environment
  BY <1>5
     DEF Environment, Deposit, TargetAcksReset, ReceivePushFails, FetchFails, DrainOneFails,
         Drop, Crash, ServerCrash
<1>6. CASE UNCHANGED vars
  BY <1>6 DEF vars
<1> QED BY <1>1, <1>2, <1>3, <1>4, <1>5, <1>6 DEF Next, PhoneStep

\* Processing a message puts that message on record and no other.
LEMMA ProcessHolds ==
    ASSUME TypeOK, NEW i \in Ids, Process(i)
    PROVE  /\ reg' = reg
           /\ \A j \in Ids : held'[j] = held[j] \/ (j = i /\ held'[j] = reg)
BY DEF Process, AlreadyStored, OtherInstall, Duplicate, Unreadable, Readable, phoneVars,
       TypeOK, PhoneTypeOK

\* The frames on their way to the phone.
LEMMA PushedChanges ==
    ASSUME [Next]_vars
    PROVE  \/ UNCHANGED pushed
           \/ \E i \in emitting : Push(i)
           \/ pushed' = Tail(pushed) /\ pushed # << >>
           \/ pushed' = << >>
           \/ CutDown
<1>1. CASE ServerStep
  <2>1. ASSUME NEW t \in ackTasks, AckDrops(t) \/ AckDelivers(t) PROVE UNCHANGED pushed
    BY <2>1 DEF AckDrops, AckDelivers, socketVars
  <2>2. ASSUME NEW ids \in resetTasks, StoreReset(ids) PROVE UNCHANGED pushed
    BY <2>2 DEF StoreReset, socketVars
  <2> QED BY <1>1, <2>1, <2>2 DEF ServerStep
<1>2. CASE PhoneStep
  BY <1>2
     DEF PhoneStep, ReceivePush, AckTimerFires, ResetTimerFires, HandleRegistered, FetchPage,
         DrainOne, EndPage, EndPageFails, Connect, PublishKeys, socketVars
<1>3. CASE Environment
  BY <1>3
     DEF Environment, Deposit, TargetAcksReset, ReceivePushFails, FetchFails, DrainOneFails,
         Drop, Crash, Reinstall, ForgetMemory, ServerCrash, socketVars
<1>4. CASE UNCHANGED vars
  BY <1>4 DEF vars, socketVars
<1> QED BY <1>1, <1>2, <1>3, <1>4 DEF Next

LEMMA KnownNext == ASSUME TypeOK, Known, [Next]_vars PROVE Known'
<1>1. Stored \subseteq Stored' /\ Stored \subseteq Ids
  BY StoreGrows, StoredInIds DEF TypeOK
<1>2. \A i \in Held' : i \in Stored /\ held'[i] <= reg'
  <2>0. reg \in Nat /\ reg <= reg
    BY Bounds DEF TypeOK, PhoneTypeOK, Regs
  <2>1. CASE UNCHANGED phoneVars
    BY <2>1 DEF phoneVars, Known, Held
  <2>2. CASE Reinstall
    <3>1. reg' = reg + 1 /\ held' = held
      BY <2>2 DEF Reinstall
    <3>2. \A i \in Ids : held[i] \in Nat
      BY Bounds DEF TypeOK, PhoneTypeOK
    <3> QED BY <2>0, <3>1, <3>2 DEF Known, Held
  <2>3. ASSUME NEW i \in Stored, Process(i) PROVE \A j \in Held' : j \in Stored /\ held'[j] <= reg'
    BY <1>1, <2>0, <2>3, ProcessHolds DEF Known, Held
  <2> QED BY <2>1, <2>2, <2>3, PhoneChanges
<1>3. \A n \in DOMAIN pushed' : pushed'[n] \in Stored
  <2>0. pushed \in Seq(Ids)
    BY DEF TypeOK, SocketTypeOK
  <2>1. CASE UNCHANGED pushed
    BY <2>1 DEF Known
  <2>2. ASSUME NEW i \in emitting, Push(i)
        PROVE  \A n \in DOMAIN pushed' : pushed'[n] \in Stored
    BY <2>0, <2>2 DEF Push, Known
  <2>3. CASE pushed' = Tail(pushed) /\ pushed # << >>
    BY <2>0, <2>3 DEF Known
  <2>4. CASE pushed' = << >>
    BY <2>4
  <2>5. CASE CutDown
    <3>1. PICK k \in 0..Len(pushed) : pushed' = SubSeq(pushed, 1, k)
      BY <2>5 DEF CutDown
    <3> QED BY <2>0, <3>1 DEF Known
  <2> QED BY <2>1, <2>2, <2>3, <2>4, <2>5, PushedChanges
<1>4. drain'.batch \subseteq Stored
  <2>0. drain.batch \subseteq Stored /\ drain \in Drain
    BY DEF Known, TypeOK, MemoryTypeOK
  <2>1. CASE UNCHANGED drain
    BY <2>0, <2>1
  <2>2. CASE FetchPage
    BY <2>0, <2>2, PageIsStored DEF FetchPage, Drain, DrainState
  <2>3. CASE DrainOne \/ DrainOneFails
    <3>1. PICK i \in drain.batch : drain'.batch = drain.batch \ {i}
      BY <2>0, <2>3 DEF DrainOne, DrainOneFails, Drain, DrainState
    <3> QED BY <2>0, <3>1
  <2>4. CASE HandleRegistered \/ EndPage \/ EndPageFails \/ FetchFails
    BY <2>0, <2>4 DEF HandleRegistered, EndPage, EndPageFails, FetchFails, NotDraining, Drain,
                      DrainState
  <2>5. CASE Crash \/ Reinstall
    BY <2>5 DEF Crash, Reinstall, ForgetMemory, NotDraining
  <2>6. CASE ServerStep
    BY <2>1, <2>6 DEF ServerStep, Push, AckDrops, AckDelivers, StoreReset, memoryVars
  <2>7. CASE PhoneStep
    BY <2>1, <2>2, <2>3, <2>4, <2>7
       DEF PhoneStep, ReceivePush, AckTimerFires, ResetTimerFires, Connect, PublishKeys,
           memoryVars
  <2>8. CASE Environment
    BY <2>1, <2>3, <2>4, <2>5, <2>8
       DEF Environment, Deposit, TargetAcksReset, ReceivePushFails, Drop, ServerCrash,
           memoryVars
  <2>9. CASE UNCHANGED vars
    BY <2>1, <2>9 DEF vars, memoryVars
  <2> QED BY <2>6, <2>7, <2>8, <2>9 DEF Next
<1>5. emitting' \subseteq Stored'
  <2>1. CASE emitting' \subseteq emitting
    BY <1>1, <2>1 DEF Known
  <2>2. ASSUME NEW m \in Msgs, NEW good \in BOOLEAN, NEW o \in Stored \cup {NoId},
               Deposit(m, good, o)
        PROVE  emitting' \subseteq Stored'
    <3>1. [msg |-> m, reg |-> srvReg, good |-> good, resendOf |-> o] \in Doc
      BY StoredInIds DEF TypeOK, ServerTypeOK, Doc
    <3> QED BY <1>1, <2>2, <3>1, CreateGrows DEF Deposit, Create, Known, TypeOK
  <2>3. CASE ServerStep
    BY <2>1, <2>3
       DEF ServerStep, Push, Emitted, AckDrops, DropEnvelopes, AckDelivers, CountDelivered,
           StoreReset, storeVars
  <2>4. CASE PhoneStep
    BY <2>1, <2>4
       DEF PhoneStep, ReceivePush, AckTimerFires, ResetTimerFires, HandleRegistered,
           FetchPage, DrainOne, EndPage, EndPageFails, Connect, PublishKeys, storeVars
  <2>5. CASE TargetAcksReset \/ ReceivePushFails \/ FetchFails \/ DrainOneFails
             \/ Drop \/ Crash \/ Reinstall \/ ServerCrash
    BY <2>1, <2>5
       DEF TargetAcksReset, ReceivePushFails, FetchFails, DrainOneFails, Drop, Crash,
           Reinstall, ServerCrash, storeVars
  <2>6. CASE UNCHANGED vars
    BY <2>1, <2>6 DEF vars, storeVars
  <2> QED BY <2>2, <2>3, <2>4, <2>5, <2>6 DEF Next, Environment
<1> QED BY <1>1, <1>2, <1>3, <1>4, <1>5 DEF Known

-----------------------------------------------------------------------------
(* No message the phone recorded is swallowed *)

\* Rows of text are never deleted, and a notice goes only when a re-send came.
LEMMA RowsKept ==
    ASSUME TypeOK, NEW i \in Stored, Process(i), NEW j \in Stored, rows[j] # "none"
    PROVE  \/ rows'[j] = rows[j]
           \/ docs[i].resendOf = j /\ rows'[i] = "text"
BY StoredInIds
   DEF Process, AlreadyStored, OtherInstall, Duplicate, Unreadable, Readable, phoneVars,
       TypeOK, PhoneTypeOK

\* A message just put on record has a trace.
LEMMA RecordedIsTraced ==
    ASSUME TypeOK, NEW i \in Stored, Process(i), UNCHANGED docs, held'[i] # held[i]
    PROVE  Traced(i)'
<1>1. i \in Ids /\ rows \in [Ids -> Kinds] /\ held \in [Ids -> 0..MaxReg]
  BY StoredInIds DEF TypeOK, PhoneTypeOK
<1>2. CASE OtherInstall(i) \/ Unreadable(i)
  BY <1>1, <1>2 DEF OtherInstall, Unreadable, Traced
<1>3. CASE Readable(i)
  <2>1. docs[i].resendOf \in Ids \/ docs[i].resendOf \notin Ids
    OBVIOUS
  <2>2. NoId \notin Ids
    BY DEF NoId, Ids
  <2> QED BY <1>1, <1>3, <2>2 DEF Readable, Traced
<1>4. CASE AlreadyStored(i) \/ Duplicate(i)
  BY <1>4 DEF AlreadyStored, Duplicate, phoneVars
<1> QED BY <1>2, <1>3, <1>4 DEF Process

\* Processing a message leaves a trace of every message that had one.
LEMMA TraceKept ==
    ASSUME TypeOK, NEW i \in Stored, Process(i), UNCHANGED docs,
           NEW j \in Stored, Traced(j)
    PROVE  Traced(j)'
<1>0. Stored' = Stored
  BY DEF Stored
<1>1. \A k \in Stored : rows[k] = "text" => rows'[k] = "text"
  BY RowsKept, StoredInIds
     DEF Process, AlreadyStored, OtherInstall, Duplicate, Unreadable, Readable, phoneVars,
         TypeOK, PhoneTypeOK
<1>2. CASE rows[j] # "none"
  BY <1>0, <1>2, RowsKept DEF Traced
<1>3. CASE \E k \in Stored : docs[k].resendOf = j /\ rows[k] = "text"
  BY <1>0, <1>1, <1>3 DEF Traced
<1>4. CASE docs[j].resendOf # NoId /\ rows[docs[j].resendOf] = "text"
  <2>1. docs[j].resendOf \in Ids
    <3>1. docs[j] \in Doc
      BY DEF TypeOK, StoreTypeOK, Stored
    <3> QED BY <1>4, <3>1 DEF Doc
  <2>2. rows'[docs[j].resendOf] = "text"
    BY <1>4, <2>1
       DEF Process, AlreadyStored, OtherInstall, Duplicate, Unreadable, Readable, phoneVars,
           TypeOK, PhoneTypeOK
  <2> QED BY <1>4, <2>2 DEF Traced
<1> QED BY <1>2, <1>3, <1>4 DEF Traced

LEMMA InitTraced == Init => HeldIsTraced
BY DEF Init, StoreInit, HeldIsTraced, Stored

LEMMA TracedNext == ASSUME TypeOK, Known, HeldIsTraced, [Next]_vars PROVE HeldIsTraced'
<1>0. Stored \subseteq Ids /\ Stored \subseteq Stored' /\ Stored' \subseteq Ids
  <2>1. StoreTypeOK'
    BY NextType DEF TypeOK
  <2>2. Stored' \subseteq Ids
    BY <2>1, Bounds DEF StoreTypeOK, Stored, Ids
  <2> QED BY <2>2, StoredInIds, StoreGrows DEF TypeOK
<1>1. CASE UNCHANGED phoneVars
  <2> SUFFICES ASSUME NEW j \in Stored', held[j] = reg PROVE Traced(j)'
    BY <1>1 DEF HeldIsTraced, phoneVars
  <2>1. j \in Stored
    BY <1>0, Bounds DEF Known, Held, TypeOK, PhoneTypeOK, Regs
  <2>2. Traced(j)
    BY <2>1 DEF HeldIsTraced
  <2> QED BY <1>0, <1>1, <2>1, <2>2, StoreGrows DEF Traced, phoneVars
<1>2. CASE Reinstall
  <2>1. reg' = reg + 1 /\ held' = held /\ reg \in Nat
    BY <1>2, Bounds DEF Reinstall, TypeOK, PhoneTypeOK, Regs
  <2>2. \A j \in Ids : held[j] \in Nat /\ (held[j] # 0 => held[j] <= reg)
    BY Bounds DEF Known, Held, TypeOK, PhoneTypeOK
  <2> QED BY <1>0, <2>1, <2>2 DEF HeldIsTraced
<1>3. ASSUME NEW i \in Stored, Process(i), UNCHANGED docs PROVE HeldIsTraced'
  <2>1. Stored' = Stored /\ reg' = reg
    BY <1>0, <1>3, ProcessHolds DEF Stored
  <2> SUFFICES ASSUME NEW j \in Stored, held'[j] = reg PROVE Traced(j)'
    BY <2>1 DEF HeldIsTraced
  <2>2. CASE held'[j] = held[j]
    BY <1>3, <2>2, TraceKept DEF HeldIsTraced
  <2>3. CASE held'[j] # held[j]
    BY <1>0, <1>3, <2>3, ProcessHolds, RecordedIsTraced
  <2> QED BY <2>2, <2>3
<1> QED BY <1>1, <1>2, <1>3, PhoneChanges

(***************************************************************************)
(* Whatever order pushes, drains and re-sends reach processIncoming in,    *)
(* the chat keeps a trace of each message this install recorded.           *)
(***************************************************************************)
THEOREM HeldMessagesAreTraced == Spec => []HeldIsTraced
BY InitType, NextType, InitKnown, KnownNext, InitTraced, TracedNext, PTL DEF Spec

-----------------------------------------------------------------------------
(* Repairs *)

RepairsSomewhere == asked \cup resetRequests \cup cut \cup UNION resetTasks

\* Flushing moves the requests into a frame, or counts them as cut.
LEMMA FlushResetRequestsMoves ==
    ASSUME FlushResetRequests
    PROVE  resetRequests \cup cut \cup UNION resetTasks
             \subseteq resetRequests' \cup cut' \cup UNION resetTasks'
<1>1. ASSUME NEW ids \in Slice(resetRequests, ResetLimit),
             resetTasks' = resetTasks \cup {ids}, cut' = cut \cup (resetRequests \ ids)
      PROVE  resetRequests \cup cut \cup UNION resetTasks \subseteq cut' \cup UNION resetTasks'
  BY <1>1
<1>2. CASE online /\ resetRequests # {}
  BY <1>1, <1>2 DEF FlushResetRequests
<1>3. CASE ~(online /\ resetRequests # {})
  BY <1>3 DEF FlushResetRequests
<1> QED BY <1>2, <1>3

LEMMA LoseFramesMoves ==
    ASSUME NEW S, LoseFrames(S)
    PROVE  cut \cup S \cup UNION resetTasks \subseteq cut' \cup UNION resetTasks'
BY DEF LoseFrames

\* No step but a reinstall, which takes the notice away too, forgets a repair.
LEMMA RepairsKept ==
    ASSUME [Next]_vars
    PROVE  Reinstall \/ RepairsSomewhere \subseteq RepairsSomewhere'
<1> USE DEF RepairsSomewhere
<1>1. CASE ServerStep
  <2>1. ASSUME NEW i \in emitting, Push(i) PROVE RepairsSomewhere \subseteq RepairsSomewhere'
    BY <2>1 DEF Push, serverVars, memoryVars
  <2>2. ASSUME NEW t \in ackTasks, AckDrops(t) \/ AckDelivers(t)
        PROVE  RepairsSomewhere \subseteq RepairsSomewhere'
    BY <2>2 DEF AckDrops, AckDelivers, memoryVars
  <2>3. ASSUME NEW ids \in resetTasks, StoreReset(ids)
        PROVE  RepairsSomewhere \subseteq RepairsSomewhere'
    <3>1. /\ resetTasks' = resetTasks \ {ids} /\ resetRequests' = resetRequests
          /\ asked \subseteq asked' /\ cut \subseteq cut' /\ ids \subseteq asked' \cup cut'
      BY <2>3 DEF StoreReset, memoryVars
    <3> QED BY <3>1
  <2> QED BY <1>1, <2>1, <2>2, <2>3 DEF ServerStep
<1>2. CASE ReceivePush \/ DrainOne
  <2>1. /\ resetRequests \subseteq resetRequests' /\ resetTasks' = resetTasks
        /\ asked' = asked /\ cut' = cut
    BY <1>2
       DEF ReceivePush, DrainOne, serverVars, Process, AlreadyStored, OtherInstall, Duplicate,
           Unreadable, Readable
  <2> QED BY <2>1
<1>3. CASE ResetTimerFires \/ HandleRegistered \/ EndPage
  <2>1. asked' = asked
    BY <1>3 DEF ResetTimerFires, HandleRegistered, EndPage
  <2>2. FlushResetRequests \/ UNCHANGED <<resetTasks, resetRequests, cut>>
    BY <1>3 DEF ResetTimerFires, HandleRegistered, EndPage
  <2> QED BY <2>1, <2>2, FlushResetRequestsMoves
<1>4. CASE AckTimerFires \/ FetchPage \/ EndPageFails \/ Connect \/ PublishKeys
  BY <1>4
     DEF AckTimerFires, FetchPage, EndPageFails, Connect, PublishKeys, serverVars, memoryVars
<1>5. ASSUME NEW m, NEW good, NEW o, Deposit(m, good, o)
      PROVE  RepairsSomewhere \subseteq RepairsSomewhere'
  BY <1>5 DEF Deposit, serverVars, memoryVars
<1>6. CASE TargetAcksReset \/ ReceivePushFails \/ FetchFails \/ DrainOneFails
  BY <1>6
     DEF TargetAcksReset, ReceivePushFails, FetchFails, DrainOneFails, serverVars, memoryVars
<1>7. CASE Drop
  BY <1>7, LoseFramesMoves DEF Drop, memoryVars
<1>8. CASE Crash
  BY <1>8, LoseFramesMoves DEF Crash
<1>9. CASE ServerCrash
  BY <1>9 DEF ServerCrash, memoryVars
<1>10. CASE UNCHANGED vars
  BY <1>10 DEF vars, serverVars, memoryVars
<1> QED BY <1>1, <1>2, <1>3, <1>4, <1>5, <1>6, <1>7, <1>8, <1>9, <1>10
        DEF Next, PhoneStep, Environment

LEMMA RepairNext == ASSUME TypeOK, Known, RepairTracked, [Next]_vars PROVE RepairTracked'
<1>1. CASE UNCHANGED phoneVars
  <2>1. CASE Reinstall
    BY <2>1 DEF Reinstall, RepairTracked
  <2>2. CASE RepairsSomewhere \subseteq RepairsSomewhere'
    BY <1>1, <2>2 DEF RepairTracked, RepairsSomewhere, phoneVars
  <2> QED BY <2>1, <2>2, RepairsKept
<1>2. CASE Reinstall
  BY <1>2 DEF Reinstall, RepairTracked
<1>3. ASSUME NEW i \in Stored, Process(i) PROVE RepairTracked'
  <2>1. \A j \in Ids : rows'[j] = "undecryptable" =>
            rows[j] = "undecryptable" \/ j \in resetRequests'
    BY <1>3, StoredInIds
       DEF Process, AlreadyStored, OtherInstall, Duplicate, Unreadable, Readable, phoneVars,
           TypeOK, PhoneTypeOK
  <2>2. CASE Reinstall
    BY <2>2 DEF Reinstall, RepairTracked
  <2>3. CASE RepairsSomewhere \subseteq RepairsSomewhere'
    BY <2>1, <2>3 DEF RepairTracked, RepairsSomewhere
  <2> QED BY <2>2, <2>3, RepairsKept
<1> QED BY <1>1, <1>2, <1>3, PhoneChanges

(***************************************************************************)
(* The repair of every unreadable message is asked for, still to be asked  *)
(* for, or lost in one of the ways `cut` names (requestReset,              *)
(* flushResetRequests, createSessionReset).                                *)
(***************************************************************************)
THEOREM RepairsAreTracked == Spec => []RepairTracked
<1>1. Init => RepairTracked
  BY DEF Init, RepairTracked
<1> QED BY <1>1, InitType, NextType, InitKnown, KnownNext, RepairNext, PTL DEF Spec

-----------------------------------------------------------------------------
(* The mailbox implements Custody *)

LEMMA CustodyInit == Init => Abstract!Init
BY DEF Init, StoreInit, Abstract!Init, Stored, Held

LEMMA CustodyNext ==
    ASSUME TypeOK, AckChain, Known, [Next]_vars
    PROVE  [Abstract!Next]_(Abstract!vars)
<1> USE DEF Abstract!Next, Abstract!vars
<1>0. Stored \subseteq Ids /\ Held \subseteq Ids /\ acked \subseteq Held
  BY StoredInIds DEF TypeOK, Held, AckChain
<1>1. ASSUME UNCHANGED docs PROVE Stored' = Stored
  BY <1>1 DEF Stored
<1>2. ASSUME UNCHANGED held PROVE Held' = Held
  BY <1>2 DEF Held
<1>3. ASSUME NEW m \in Msgs, NEW good \in BOOLEAN, NEW o \in Stored \cup {NoId},
             Deposit(m, good, o)
      PROVE  Abstract!Next
  <2> DEFINE n == Len(docs) + 1
  <2>1. [msg |-> m, reg |-> srvReg, good |-> good, resendOf |-> o] \in Doc
    BY StoredInIds DEF TypeOK, ServerTypeOK, Doc
  <2>2. Stored' = Stored \cup {n} /\ n \in Ids /\ n \notin Stored
    BY <1>3, <2>1, CreateGrows DEF Deposit, TypeOK
  <2>3. acked' = acked /\ Held' = Held
    BY <1>2, <1>3 DEF Deposit, Create, phoneVars
  <2>4. n \notin acked
    BY <1>0, <2>2 DEF Known
  <2>5. Abstract!Accept(n)
    BY <2>2, <2>3, <2>4 DEF Abstract!Accept
  <2> QED BY <2>2, <2>5
<1>4. ASSUME NEW i \in Stored, Process(i), UNCHANGED <<docs, acked>>
      PROVE  [Abstract!Next]_(Abstract!vars)
  <2>1. Held' = Held \cup {i} /\ Stored' = Stored /\ i \in Ids
    BY <1>0, <1>1, <1>4, ProcessRecords
  <2>2. CASE i \in Held
    BY <1>4, <2>1, <2>2
  <2>3. CASE i \notin Held
    <3>1. Abstract!Record(i)
      BY <1>0, <1>4, <2>1, <2>3 DEF Abstract!Record
    <3> QED BY <2>1, <3>1
  <2> QED BY <2>2, <2>3
<1>5. ASSUME NEW t \in ackTasks, AckDrops(t) PROVE Abstract!Next
  <2> DEFINE gone == t.ids \ acked
  <2>1. acked' = acked \cup gone /\ Stored' = Stored /\ Held' = Held
    BY <1>1, <1>2, <1>5 DEF AckDrops, DropEnvelopes, phoneVars
  <2>2. gone \subseteq Held
    BY DEF AckChain
  <2>3. Abstract!GiveUp(gone)
    BY <2>1, <2>2 DEF Abstract!GiveUp
  <2> QED BY <1>0, <2>2, <2>3
<1>6. CASE UNCHANGED <<docs, acked, held>>
  BY <1>1, <1>2, <1>6
<1>7. CASE ServerStep
  <2>1. ASSUME NEW i \in emitting, Push(i) PROVE UNCHANGED <<docs, acked, held>>
    BY <2>1 DEF Push, Emitted, phoneVars
  <2>2. ASSUME NEW t \in ackTasks, AckDelivers(t) PROVE UNCHANGED <<docs, acked, held>>
    BY <2>2 DEF AckDelivers, CountDelivered, phoneVars
  <2>3. ASSUME NEW ids \in resetTasks, StoreReset(ids) PROVE UNCHANGED <<docs, acked, held>>
    BY <2>3 DEF StoreReset, storeVars, phoneVars
  <2> QED BY <1>5, <1>6, <1>7, <2>1, <2>2, <2>3 DEF ServerStep
<1>8. CASE ReceivePush
  <2>1. 1 \in DOMAIN pushed /\ Head(pushed) = pushed[1]
    BY <1>8 DEF ReceivePush, TypeOK, SocketTypeOK
  <2> QED BY <1>4, <1>8, <2>1 DEF ReceivePush, Known, storeVars
<1>9. CASE DrainOne
  BY <1>4, <1>9 DEF DrainOne, Known, storeVars
<1>10. CASE AckTimerFires \/ ResetTimerFires \/ HandleRegistered \/ FetchPage \/ EndPage
            \/ EndPageFails \/ Connect \/ PublishKeys
  <2>1. UNCHANGED <<docs, acked, held>>
    BY <1>10
       DEF AckTimerFires, ResetTimerFires, HandleRegistered, FetchPage, EndPage, EndPageFails,
           Connect, PublishKeys, storeVars, phoneVars
  <2> QED BY <1>6, <2>1
<1>11. CASE TargetAcksReset \/ ReceivePushFails \/ FetchFails \/ DrainOneFails
            \/ Drop \/ Crash \/ Reinstall \/ ServerCrash
  <2>1. UNCHANGED <<docs, acked, held>>
    BY <1>11
       DEF TargetAcksReset, ReceivePushFails, FetchFails, DrainOneFails, Drop, Crash,
           Reinstall, ServerCrash, storeVars, phoneVars
  <2> QED BY <1>6, <2>1
<1>12. CASE UNCHANGED vars
  BY <1>6, <1>12 DEF vars, storeVars, phoneVars
<1> QED BY <1>3, <1>7, <1>8, <1>9, <1>10, <1>11, <1>12 DEF Next, PhoneStep, Environment

(***************************************************************************)
(* Server and phone together never lose custody of an accepted message:    *)
(* every step of the mailbox is a step of Custody, or none.                *)
(***************************************************************************)
THEOREM MailboxKeepsCustody == Spec => CustodyKept
BY InitType, NextType, InitChain, ChainNext, InitKnown, KnownNext, CustodyInit, CustodyNext, PTL
   DEF Spec, CustodyKept, Abstract!Spec
=============================================================================
