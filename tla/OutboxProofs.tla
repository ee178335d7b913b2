---------------------------- MODULE OutboxProofs -----------------------------
(***************************************************************************)
(* Machine-checked facts about Outbox, for every number of messages,       *)
(* copies, installs, sockets and faults and every length of the history.   *)
(***************************************************************************)
EXTENDS Outbox, FiniteSetTheorems, WellFoundedInduction, TLAPS

-----------------------------------------------------------------------------
(* Lemmas about the operators *)

LEMMA Bounds ==
    /\ MaxDocs \in Nat /\ MaxDocs >= 1 /\ MaxReg \in Nat /\ MaxReg >= 1
    /\ MaxConns \in Nat /\ MaxConns >= 1 /\ MaxFaults \in Nat
BY StoreAssumption, OutboxAssumption DEF StoreAssumption, OutboxAssumption

\* Ids of stored documents are positions, and none is NoId.
LEMMA StoredAre ==
    ASSUME StoreTypeOK
    PROVE  Stored = 1..Len(docs) /\ Stored \subseteq Ids /\ NoId \notin Ids
BY Bounds DEF StoreTypeOK, Stored, Ids, NoId

\* What is left of a queue when its head is taken out.
LEMMA TailOf ==
    ASSUME NEW S, NEW s \in Seq(S), s # << >>
    PROVE  /\ Head(s) \in S /\ Head(s) = s[1] /\ 1 \in DOMAIN s
           /\ Tail(s) \in Seq(S)
           /\ \A k \in DOMAIN Tail(s) : k + 1 \in DOMAIN s /\ k # 0 /\ Tail(s)[k] = s[k + 1]
OBVIOUS

\* What is left of a queue when a suffix is lost.
LEMMA PrefixOf ==
    ASSUME NEW S, NEW s \in Seq(S), NEW n \in 0..Len(s)
    PROVE  /\ SubSeq(s, 1, n) \in Seq(S)
           /\ \A k \in DOMAIN SubSeq(s, 1, n) : k \in DOMAIN s /\ SubSeq(s, 1, n)[k] = s[k]
OBVIOUS

LEMMA AppendOf ==
    ASSUME NEW S, NEW s \in Seq(S), NEW x \in S
    PROVE  /\ Append(s, x) \in Seq(S)
           /\ Len(Append(s, x)) = Len(s) + 1
           /\ DOMAIN Append(s, x) = DOMAIN s \cup {Len(s) + 1} /\ Len(s) + 1 \notin DOMAIN s
           /\ Append(s, x)[Len(s) + 1] = x
           /\ \A k \in DOMAIN s : Append(s, x)[k] = s[k]
OBVIOUS

\* Message.create() adds one document at the end and changes no other.
LEMMA CreateGrows ==
    ASSUME StoreTypeOK, NEW d \in Doc, Create(d)
    PROVE  /\ StoreTypeOK'
           /\ Stored \subseteq Stored' /\ Stored' = Stored \cup {Len(docs) + 1}
           /\ Len(docs) + 1 \in Ids /\ Len(docs) + 1 \notin Stored
           /\ \A i \in Stored : docs'[i] = docs[i]
           /\ docs'[Len(docs) + 1] = d
<1>1. docs' = Append(docs, d) /\ docs \in Seq(Doc) /\ Len(docs) < MaxDocs
  BY DEF StoreTypeOK, Create
<1>2. /\ docs' \in Seq(Doc) /\ Len(docs') = Len(docs) + 1
      /\ DOMAIN docs' = DOMAIN docs \cup {Len(docs) + 1} /\ Len(docs) + 1 \notin DOMAIN docs
      /\ docs'[Len(docs) + 1] = d /\ \A i \in DOMAIN docs : docs'[i] = docs[i]
  BY <1>1, AppendOf
<1>3. Len(docs) + 1 \in Ids
  BY <1>1, Bounds DEF Ids
<1>4. Len(docs') <= MaxDocs
  BY <1>1, <1>2, Bounds
<1> QED BY <1>2, <1>3, <1>4 DEF StoreTypeOK, Create, Stored, Ids

\* A set of naturals has a least element ...
LEMMA LeastExists ==
    ASSUME NEW T \in SUBSET Nat, T # {}
    PROVE  \E i \in T : \A j \in T : i <= j
<1> DEFINE R == OpToRel(<, Nat)
<1>1. IsWellFoundedOn(R, Nat)
  BY NatLessThanWellFounded
<1>2. \A y, z \in Nat : y < z => <<y, z>> \in R
  BY Zenon DEF OpToRel
<1> HIDE DEF R
<1>3. PICK x \in T : \A y \in T : ~(<<y, x>> \in R)
  BY <1>1, WFMin
<1>4. \A y \in T : x <= y
  <2> SUFFICES ASSUME NEW y \in T PROVE x <= y OBVIOUS
  <2>1. ~(y < x)
    BY <1>2, <1>3
  <2> QED BY <2>1
<1> QED BY <1>4

\* ... and one that is bounded has a greatest.
LEMMA GreatestExists ==
    ASSUME NEW n \in Nat, NEW T \in SUBSET (1..n), T # {}
    PROVE  \E i \in T : \A j \in T : j <= i
<1> DEFINE U == {k \in 0..n : n - k \in T}
<1>1. U \in SUBSET Nat /\ U # {}
  <2>1. PICK i \in T : TRUE
    OBVIOUS
  <2>2. n - i \in U
    BY <2>1
  <2>3. \A k \in U : k \in Nat
    OBVIOUS
  <2> QED BY <2>2, <2>3
<1>2. PICK u \in U : \A v \in U : u <= v
  BY <1>1, LeastExists
<1>3. \A j \in T : j <= n - u
  <2> SUFFICES ASSUME NEW j \in T PROVE j <= n - u OBVIOUS
  <2>1. n - j \in U
    OBVIOUS
  <2> QED BY <2>1, <1>2
<1> QED BY <1>2, <1>3

-----------------------------------------------------------------------------
(* Type correctness *)

LEMMA IdleIsReconcile == NotReconciling \in Reconcile
BY DEF NotReconciling, Reconcile, ReconcileState, SentStatus, NoId

\* OutboxTypeOK in the parts the actions leave alone.
ServerTypeOK ==
    /\ srvReg \in Regs /\ linked \in BOOLEAN /\ read \subseteq Ids
    /\ handling \in [Conns -> Ids \cup {NoId}]

SocketTypeOK == socket \in Conns \cup {0} /\ online \in BOOLEAN

FramesTypeOK == up \in [Conns -> Seq(UpFrame)] /\ down \in Seq(DownFrame)

RowsTypeOK == out \in [Msgs -> Row] /\ session \in Regs \cup {NoSession}

MemoryTypeOK ==
    /\ authed \in BOOLEAN /\ confirming \subseteq [msg : Msgs, id : Ids]
    /\ retried \subseteq Msgs /\ syncing \in BOOLEAN /\ rec \in Reconcile

HistoryTypeOK == raced \subseteq Msgs /\ swallowed \in BOOLEAN /\ faults \in 0..MaxFaults

(***************************************************************************)
(* A running handler is that of a stored message: what the types of the    *)
(* frames rest on, since 'sent' carries the message of that document.      *)
(***************************************************************************)
Running == \A c \in Conns : handling[c] # NoId => handling[c] \in Stored

LEMMA TypeParts ==
    /\ OutboxTypeOK <=> /\ StoreTypeOK /\ ServerTypeOK /\ SocketTypeOK /\ FramesTypeOK
                        /\ RowsTypeOK /\ MemoryTypeOK /\ HistoryTypeOK
    /\ OutboxTypeOK' <=> /\ StoreTypeOK' /\ ServerTypeOK' /\ SocketTypeOK' /\ FramesTypeOK'
                         /\ RowsTypeOK' /\ MemoryTypeOK' /\ HistoryTypeOK'
BY DEF OutboxTypeOK, ServerTypeOK, SocketTypeOK, FramesTypeOK, RowsTypeOK, MemoryTypeOK,
       HistoryTypeOK

LEMMA InitType == OutboxInit => OutboxTypeOK
<1> SUFFICES ASSUME OutboxInit PROVE OutboxTypeOK OBVIOUS
<1> USE DEF OutboxInit
<1>1. StoreTypeOK
  BY Bounds DEF StoreInit, StoreTypeOK
<1>2. ServerTypeOK
  BY Bounds DEF ServerTypeOK, Regs
<1>3. SocketTypeOK
  BY DEF SocketTypeOK
<1>7. HistoryTypeOK
  <2>1. faults \in 0..MaxFaults
    BY Bounds
  <2> QED BY <2>1 DEF HistoryTypeOK
<1>4. FramesTypeOK
  BY DEF FramesTypeOK
<1>5. RowsTypeOK
  BY DEF RowsTypeOK, Row, Statuses
<1>6. MemoryTypeOK
  BY IdleIsReconcile DEF MemoryTypeOK
<1> QED BY <1>1, <1>2, <1>3, <1>4, <1>5, <1>6, <1>7, TypeParts

\* What a step leaves alone keeps its type.
LEMMA KeptType ==
    ASSUME OutboxTypeOK
    PROVE  /\ UNCHANGED storeVars => StoreTypeOK'
           /\ UNCHANGED serverVars => ServerTypeOK'
           /\ UNCHANGED <<socket, online>> => SocketTypeOK'
           /\ UNCHANGED <<up, down>> => FramesTypeOK'
           /\ UNCHANGED <<out, session>> => RowsTypeOK'
           /\ UNCHANGED memoryVars => MemoryTypeOK'
           /\ UNCHANGED <<raced, swallowed, faults>> => HistoryTypeOK'
<1> USE TypeParts
<1>1. UNCHANGED storeVars => StoreTypeOK'
  BY DEF storeVars, StoreTypeOK
<1>2. UNCHANGED serverVars => ServerTypeOK'
  BY DEF serverVars, ServerTypeOK
<1>3. UNCHANGED <<socket, online>> => SocketTypeOK'
  BY DEF SocketTypeOK
<1>4. UNCHANGED <<up, down>> => FramesTypeOK'
  BY DEF FramesTypeOK
<1>5. UNCHANGED <<out, session>> => RowsTypeOK'
  BY DEF RowsTypeOK
<1>6. UNCHANGED memoryVars => MemoryTypeOK'
  BY DEF memoryVars, MemoryTypeOK
<1>7. UNCHANGED <<raced, swallowed, faults>> => HistoryTypeOK'
  BY DEF HistoryTypeOK
<1> QED BY <1>1, <1>2, <1>3, <1>4, <1>5, <1>6, <1>7

LEMMA FaultType ==
    ASSUME HistoryTypeOK, NEW k, Fault(k) \/ UNCHANGED faults, UNCHANGED swallowed,
           raced' \subseteq Msgs
    PROVE  HistoryTypeOK'
BY Bounds DEF HistoryTypeOK, Fault

\* The rows keep their types under every way of writing one.
LEMMA RowTypes ==
    ASSUME RowsTypeOK
    PROVE  /\ \A ids : \A st \in SentStatus : Raised(ids, st) \in [Msgs -> Row]
           /\ \A m \in Msgs, i \in Ids : Confirmed(m, i) \in [Msgs -> Row]
           /\ \A m \in Msgs, st \in Statuses : Marked(m, st) \in [Msgs -> Row]
<1>1. ASSUME NEW ids, NEW st \in SentStatus PROVE Raised(ids, st) \in [Msgs -> Row]
  BY <1>1 DEF RowsTypeOK, Raised, Row, Statuses
<1>2. ASSUME NEW m \in Msgs, NEW i \in Ids PROVE Confirmed(m, i) \in [Msgs -> Row]
  BY <1>2 DEF RowsTypeOK, Confirmed, Row, Statuses, SentStatus
<1>3. ASSUME NEW m \in Msgs, NEW st \in Statuses PROVE Marked(m, st) \in [Msgs -> Row]
  BY <1>3 DEF RowsTypeOK, Marked, Row
<1> QED BY <1>1, <1>2, <1>3

\* A frame that is sent is one the phone knows.
LEMMA Frames ==
    /\ [kind |-> "registered"] \in DownFrame /\ [kind |-> "identity_changed"] \in DownFrame
    /\ \A m \in Msgs, i \in Ids : [kind |-> "sent", msg |-> m, id |-> i] \in DownFrame
    /\ \A ids \in SUBSET Ids, st \in SentStatus :
         [kind |-> "status", ids |-> ids, status |-> st] \in DownFrame
    /\ \A m \in Msgs, code \in {"recipient_keys_changed", "other"} :
         [kind |-> "error", msg |-> m, code |-> code] \in DownFrame
BY DEF DownFrame

\* And what it holds is known by its kind.
LEMMA FrameFields ==
    ASSUME NEW f \in DownFrame
    PROVE  /\ f.kind = "sent" => f.msg \in Msgs /\ f.id \in Ids
           /\ f.kind = "status" => f.ids \subseteq Ids /\ f.status \in SentStatus
           /\ f.kind = "error" => f.msg \in Msgs
BY DEF DownFrame

LEMMA ToPhoneType ==
    ASSUME FramesTypeOK, NEW f \in DownFrame,
           Notify(f) \/ (\E c \in Conns : ReplyOn(c, f)) \/ UNCHANGED down
    PROVE  down' \in Seq(DownFrame)
<1>1. down \in Seq(DownFrame) /\ Append(down, f) \in Seq(DownFrame)
  BY AppendOf DEF FramesTypeOK
<1> QED BY <1>1 DEF Notify, ReplyOn

LEMMA TransmitType ==
    ASSUME OutboxTypeOK, NEW m \in Msgs, Transmit(m)
    PROVE  up' \in [Conns -> Seq(UpFrame)] /\ session' \in Regs
<1> PICK s \in Regs : /\ session' = s
                      /\ up' = IF authed
                               THEN [up EXCEPT ![socket] = Append(@, [msg |-> m, reg |-> s])]
                               ELSE up
  BY DEF Transmit
<1>1. [msg |-> m, reg |-> s] \in UpFrame
  BY DEF UpFrame
<1>2. up \in [Conns -> Seq(UpFrame)]
  BY TypeParts DEF FramesTypeOK
<1>3. \A c \in Conns : Append(up[c], [msg |-> m, reg |-> s]) \in Seq(UpFrame)
  BY <1>1, <1>2, AppendOf
<1> QED BY <1>2, <1>3

LEMMA CutType ==
    ASSUME OutboxTypeOK
    PROVE  /\ CutUp => up' \in [Conns -> Seq(UpFrame)]
           /\ CutDown => down' \in Seq(DownFrame)
<1>1. ASSUME NEW n \in 0..Len(up[socket]), up' = [up EXCEPT ![socket] = SubSeq(@, 1, n)]
      PROVE  up' \in [Conns -> Seq(UpFrame)]
  <2>1. CASE socket \in Conns
    <3>1. SubSeq(up[socket], 1, n) \in Seq(UpFrame)
      BY <2>1, PrefixOf, TypeParts DEF FramesTypeOK
    <3> QED BY <1>1, <3>1, TypeParts DEF FramesTypeOK
  <2>2. CASE socket \notin Conns
    BY <1>1, <2>2, TypeParts DEF FramesTypeOK
  <2> QED BY <2>1, <2>2
<1>2. ASSUME NEW n \in 0..Len(down), down' = SubSeq(down, 1, n)
      PROVE  down' \in Seq(DownFrame)
  BY <1>2, PrefixOf, TypeParts DEF FramesTypeOK
<1> QED BY <1>1, <1>2 DEF CutUp, CutDown

\* What the phone does with a message: it writes its row and sends a frame or none.
LEMMA WriteType ==
    ASSUME OutboxTypeOK, NEW m \in Msgs, NEW st \in Statuses, out' = Marked(m, st),
           Transmit(m) \/ (PrepareOffline /\ UNCHANGED <<session, up>>),
           UNCHANGED <<storeVars, serverVars, socket, online, down, memoryVars, raced, swallowed>>
    PROVE  OutboxTypeOK'
<1> USE TypeParts
<1>1. up' \in [Conns -> Seq(UpFrame)] /\ session' \in Regs \cup {NoSession}
  <2>1. CASE Transmit(m)
    BY <2>1, TransmitType
  <2>2. CASE UNCHANGED <<session, up>>
    BY <2>2 DEF FramesTypeOK, RowsTypeOK
  <2> QED BY <2>1, <2>2
<1>2. FramesTypeOK'
  BY <1>1 DEF FramesTypeOK
<1>3. RowsTypeOK'
  BY <1>1, RowTypes DEF RowsTypeOK
<1>4. HistoryTypeOK'
  <2>1. raced' \subseteq Msgs
    BY DEF HistoryTypeOK
  <2>2. UNCHANGED faults \/ Fault("http")
    BY DEF Transmit, PrepareOffline
  <2> QED BY <2>1, <2>2, FaultType
<1> QED BY <1>2, <1>3, <1>4, KeptType DEF SocketTypeOK

LEMMA UserType ==
    ASSUME OutboxTypeOK, NEW m \in Msgs, SendText(m) \/ RetryMessage(m) \/ DeleteMessage(m)
    PROVE  OutboxTypeOK'
<1>1. CASE SendText(m) \/ RetryMessage(m)
  <2>1. "sending" \in Statuses
    BY DEF Statuses
  <2> QED BY <1>1, <2>1, WriteType DEF SendText, RetryMessage
<1>2. CASE DeleteMessage(m)
  <2>1. RowsTypeOK'
    BY <1>2, TypeParts DEF DeleteMessage, RowsTypeOK, Row, Statuses
  <2> QED BY <1>2, <2>1, KeptType, TypeParts DEF DeleteMessage, socketVars
<1> QED BY <1>1, <1>2

\* The frame a handler starts with is taken out of its queue.
LEMMA TakenType ==
    ASSUME FramesTypeOK, NEW c \in Conns, up[c] # << >>
    PROVE  /\ [up EXCEPT ![c] = Tail(@)] \in [Conns -> Seq(UpFrame)]
           /\ Head(up[c]).msg \in Msgs /\ Head(up[c]).reg \in Regs
<1>1. Tail(up[c]) \in Seq(UpFrame) /\ Head(up[c]) \in UpFrame
  BY TailOf DEF FramesTypeOK
<1> QED BY <1>1 DEF FramesTypeOK, UpFrame

LEMMA HandlerType ==
    ASSUME OutboxTypeOK, Running, NEW c \in Conns,
           Reject(c) \/ Accept(c) \/ Reply(c) \/ HandlerFails(c)
    PROVE  OutboxTypeOK'
<1> USE TypeParts
<1>1. Keep => SocketTypeOK' /\ RowsTypeOK' /\ MemoryTypeOK'
  BY KeptType DEF Keep
<1>2. Keep /\ (UNCHANGED faults \/ Fault("db")) => HistoryTypeOK'
  <2>1. raced \subseteq Msgs
    BY DEF HistoryTypeOK
  <2> QED BY <2>1, FaultType DEF Keep
<1>3. CASE Reject(c)
  <2>1. up' \in [Conns -> Seq(UpFrame)] /\ Head(up[c]).msg \in Msgs
    BY <1>3, TakenType DEF Reject
  <2>2. down' \in Seq(DownFrame)
    <3>1. PICK code \in {"recipient_keys_changed", "other"} :
            ReplyOn(c, [kind |-> "error", msg |-> Head(up[c]).msg, code |-> code])
      BY <1>3 DEF Reject
    <3> QED BY <2>1, <3>1, Frames, ToPhoneType
  <2>3. FramesTypeOK'
    BY <2>1, <2>2 DEF FramesTypeOK
  <2> QED BY <1>1, <1>2, <1>3, <2>3, KeptType DEF Reject
<1>4. CASE Accept(c)
  <2>1. up' \in [Conns -> Seq(UpFrame)] /\ Head(up[c]).msg \in Msgs
    BY <1>4, TakenType DEF Accept
  <2>2. [msg |-> Head(up[c]).msg, reg |-> srvReg, good |-> TRUE, resendOf |-> NoId] \in Doc
    BY <2>1 DEF ServerTypeOK, Doc
  <2>3. StoreTypeOK' /\ Len(docs) + 1 \in Ids
    BY <1>4, <2>2, CreateGrows DEF Accept
  <2>4. ServerTypeOK'
    BY <1>4, <2>3 DEF Accept, ServerTypeOK
  <2>5. FramesTypeOK'
    BY <1>4, <2>1 DEF Accept, FramesTypeOK
  <2> QED BY <1>1, <1>2, <1>4, <2>3, <2>4, <2>5 DEF Accept
<1>5. ASSUME handling[c] # NoId, handling' = [handling EXCEPT ![c] = NoId],
             UNCHANGED <<srvReg, linked, read>>, Emitted(handling[c])
      PROVE  StoreTypeOK' /\ ServerTypeOK'
  BY <1>5 DEF ServerTypeOK, StoreTypeOK, Emitted
<1>6. CASE Reply(c)
  <2>1. handling[c] \in Ids /\ docs[handling[c]].msg \in Msgs
    <3>1. handling[c] \in Stored
      BY <1>6 DEF Reply, Running
    <3>2. handling[c] \in Ids
      BY <3>1, StoredAre
    <3>3. docs[handling[c]] \in Doc
      BY <3>1 DEF StoreTypeOK, Stored
    <3> QED BY <3>2, <3>3 DEF Doc
  <2>2. down' \in Seq(DownFrame)
    BY <1>6, <2>1, Frames, ToPhoneType DEF Reply
  <2>3. FramesTypeOK'
    BY <1>6, <2>2 DEF Reply, FramesTypeOK
  <2> QED BY <1>1, <1>2, <1>5, <1>6, <2>3 DEF Reply
<1>7. CASE HandlerFails(c)
  <2>1. CASE /\ up[c] # << >> /\ up' = [up EXCEPT ![c] = Tail(@)]
             /\ UNCHANGED <<storeVars, handling>>
    <3>1. up' \in [Conns -> Seq(UpFrame)]
      BY <2>1, TakenType
    <3>2. FramesTypeOK'
      BY <1>7, <3>1 DEF HandlerFails, FramesTypeOK
    <3>3. UNCHANGED serverVars
      BY <1>7, <2>1 DEF HandlerFails, serverVars
    <3> QED BY <1>1, <1>2, <1>7, <2>1, <3>2, <3>3, KeptType DEF HandlerFails
  <2>2. CASE /\ handling[c] # NoId /\ handling' = [handling EXCEPT ![c] = NoId]
             /\ Emitted(handling[c]) /\ UNCHANGED up
    <3>1. FramesTypeOK'
      BY <1>7, <2>2 DEF HandlerFails, FramesTypeOK
    <3> QED BY <1>1, <1>2, <1>5, <1>7, <2>2, <3>1 DEF HandlerFails
  <2> QED BY <1>7, <2>1, <2>2 DEF HandlerFails
<1> QED BY <1>3, <1>4, <1>6, <1>7

LEMMA PeerType ==
    ASSUME OutboxTypeOK,
           PeerReinstalls \/ Unlink \/ \E i \in Stored : PeerAcks(i) \/ PeerReads(i)
    PROVE  OutboxTypeOK'
<1> USE TypeParts
<1>1. Keep => SocketTypeOK' /\ RowsTypeOK' /\ MemoryTypeOK'
  BY KeptType DEF Keep
<1>2. Keep /\ UNCHANGED faults => HistoryTypeOK'
  BY KeptType DEF Keep
<1>3. UNCHANGED up /\ down' \in Seq(DownFrame) => FramesTypeOK'
  BY DEF FramesTypeOK
<1>4. down \in Seq(DownFrame)
  BY DEF FramesTypeOK
<1>5. CASE PeerReinstalls
  <2>1. ServerTypeOK'
    BY <1>5, Bounds DEF PeerReinstalls, ServerTypeOK, Regs
  <2>2. down' \in Seq(DownFrame)
    BY <1>5, Frames, ToPhoneType DEF PeerReinstalls
  <2> QED BY <1>1, <1>2, <1>3, <1>5, <2>1, <2>2, KeptType DEF PeerReinstalls
<1>6. CASE Unlink
  <2>1. ServerTypeOK'
    BY <1>6 DEF Unlink, ServerTypeOK
  <2> QED BY <1>1, <1>2, <1>6, <2>1, KeptType DEF Unlink
<1>7. ASSUME NEW i \in Stored, PeerAcks(i) PROVE OutboxTypeOK'
  <2>1. {i} \subseteq Ids /\ "delivered" \in SentStatus
    BY StoredAre DEF SentStatus
  <2>2. StoreTypeOK'
    BY <1>7, <2>1 DEF PeerAcks, StoreTypeOK
  <2>3. down' \in Seq(DownFrame)
    BY <1>4, <1>7, <2>1, Frames, ToPhoneType DEF PeerAcks
  <2> QED BY <1>1, <1>2, <1>3, <1>7, <2>2, <2>3, KeptType DEF PeerAcks
<1>8. ASSUME NEW i \in Stored, PeerReads(i) PROVE OutboxTypeOK'
  <2> DEFINE seen == {j \in Stored \ read : j <= i}
  <2>1. seen \subseteq Ids /\ "read" \in SentStatus
    BY StoredAre DEF SentStatus
  <2>2. StoreTypeOK' /\ ServerTypeOK'
    BY <1>8, <2>1 DEF PeerReads, StoreTypeOK, ServerTypeOK
  <2>3. down' \in Seq(DownFrame)
    BY <1>8, <2>1, Frames, ToPhoneType DEF PeerReads
  <2> QED BY <1>1, <1>2, <1>3, <1>8, <2>2, <2>3 DEF PeerReads
<1> QED BY <1>5, <1>6, <1>7, <1>8

\* The frame a phone starts with is taken out of the queue.
LEMMA ReceivedType ==
    ASSUME FramesTypeOK, NEW kind, Receive(kind)
    PROVE  /\ down' \in Seq(DownFrame) /\ Head(down) \in DownFrame /\ Head(down).kind = kind
           /\ down # << >> /\ down' = Tail(down)
           /\ UNCHANGED up => FramesTypeOK'
<1>1. down \in Seq(DownFrame) /\ down # << >> /\ down' = Tail(down)
  BY DEF FramesTypeOK, Receive
<1>2. Tail(down) \in Seq(DownFrame) /\ Head(down) \in DownFrame
  BY <1>1, TailOf
<1> QED BY <1>1, <1>2 DEF FramesTypeOK, Receive

LEMMA ReceiveType ==
    ASSUME OutboxTypeOK,
           \/ HandleRegistered \/ HandleSent \/ HandleStatus \/ HandleIdentityChanged
           \/ \E task \in confirming : ConfirmSent(task)
    PROVE  OutboxTypeOK'
<1> USE TypeParts
<1>1. CASE HandleRegistered
  <2>1. MemoryTypeOK'
    BY <1>1 DEF HandleRegistered, MemoryTypeOK, SocketTypeOK
  <2> QED BY <1>1, <2>1, KeptType, ReceivedType DEF HandleRegistered
<1>2. CASE HandleSent
  <2>1. FramesTypeOK' /\ Head(down).msg \in Msgs /\ Head(down).id \in Ids
    BY <1>2, ReceivedType, FrameFields DEF HandleSent
  <2>2. MemoryTypeOK'
    BY <1>2, <2>1 DEF HandleSent, MemoryTypeOK
  <2>3. RowsTypeOK'
    <3>1. "sent" \in SentStatus
      BY DEF SentStatus
    <3> QED BY <1>2, <3>1, RowTypes DEF HandleSent, RowsTypeOK
  <2> QED BY <1>2, <2>1, <2>2, <2>3, KeptType DEF HandleSent
<1>3. CASE HandleStatus
  <2>1. FramesTypeOK' /\ Head(down).status \in SentStatus
    BY <1>3, ReceivedType, FrameFields DEF HandleStatus
  <2>2. RowsTypeOK'
    BY <1>3, <2>1, RowTypes DEF HandleStatus, RowsTypeOK
  <2> QED BY <1>3, <2>1, <2>2, KeptType DEF HandleStatus
<1>4. CASE HandleIdentityChanged
  <2>1. RowsTypeOK'
    BY <1>4 DEF HandleIdentityChanged, RowsTypeOK
  <2> QED BY <1>4, <2>1, KeptType, ReceivedType DEF HandleIdentityChanged
<1>5. ASSUME NEW task \in confirming, ConfirmSent(task) PROVE OutboxTypeOK'
  <2>1. task.msg \in Msgs /\ task.id \in Ids
    BY DEF MemoryTypeOK
  <2>2. RowsTypeOK'
    BY <1>5, <2>1, RowTypes DEF ConfirmSent, RowsTypeOK
  <2>3. MemoryTypeOK'
    BY <1>5 DEF ConfirmSent, MemoryTypeOK
  <2> QED BY <1>5, <2>2, <2>3, KeptType DEF ConfirmSent, socketVars
<1> QED BY <1>1, <1>2, <1>3, <1>4, <1>5

LEMMA ErrorType ==
    ASSUME OutboxTypeOK, HandleError
    PROVE  OutboxTypeOK'
<1> USE TypeParts
<1> DEFINE m == Head(down).msg
<1>1. m \in Msgs /\ down' \in Seq(DownFrame)
  BY ReceivedType, FrameFields DEF HandleError
<1>2. Marked(m, "failed") \in [Msgs -> Row] /\ out \in [Msgs -> Row]
  BY <1>1, RowTypes DEF Statuses, RowsTypeOK
<1>3. /\ out' = out \/ out' = Marked(m, "failed")
      /\ session' \in {session, srvReg, NoSession}
      /\ retried' = retried \/ retried' = retried \cup {m}
      /\ up' = up \/ up' = [up EXCEPT ![socket] = Append(@, [msg |-> m, reg |-> srvReg])]
      /\ Fault("http") \/ UNCHANGED faults
      /\ UNCHANGED <<storeVars, serverVars, socket, online, authed, confirming, syncing, rec,
                     raced, swallowed>>
  BY DEF HandleError
<1>4. RowsTypeOK'
  BY <1>2, <1>3 DEF RowsTypeOK, ServerTypeOK
<1>5. MemoryTypeOK'
  BY <1>1, <1>3 DEF MemoryTypeOK
<1>6. HistoryTypeOK'
  <2>1. raced \subseteq Msgs
    BY DEF HistoryTypeOK
  <2> QED BY <1>3, <2>1, FaultType
<1>7. FramesTypeOK'
  <2>1. [msg |-> m, reg |-> srvReg] \in UpFrame
    BY <1>1 DEF ServerTypeOK, UpFrame
  <2>2. up \in [Conns -> Seq(UpFrame)]
    BY DEF FramesTypeOK
  <2>3. \A c \in Conns : Append(up[c], [msg |-> m, reg |-> srvReg]) \in Seq(UpFrame)
    BY <2>1, <2>2, AppendOf
  <2>4. up' \in [Conns -> Seq(UpFrame)]
    BY <1>3, <2>2, <2>3
  <2> QED BY <1>1, <2>4 DEF FramesTypeOK
<1> QED BY <1>3, <1>4, <1>5, <1>6, <1>7, KeptType

\* The newest row of a message is one of its rows.
LEMMA NewestIsRow ==
    ASSUME StoreTypeOK, NEW rows, rows \subseteq Stored, rows # {}
    PROVE  (CHOOSE i \in rows : \A j \in rows : j <= i) \in rows
<1>1. rows \in SUBSET (1..Len(docs)) /\ Len(docs) \in Nat
  BY StoredAre DEF StoreTypeOK
<1>2. \E i \in rows : \A j \in rows : j <= i
  BY <1>1, GreatestExists
<1> QED BY <1>2

LEMMA HistoryAnswer ==
    ASSUME OutboxTypeOK, FetchHistory
    PROVE  /\ rec' = [rec EXCEPT !.stage = "rows", !.found = rec'.found, !.status = rec'.status]
           /\ rec'.found \in [Msgs -> Ids \cup {NoId}] /\ rec'.status \in [Msgs -> SentStatus]
           /\ \A m \in Msgs : rec'.found[m] # NoId =>
                /\ rec'.found[m] \in Stored /\ docs[rec'.found[m]].msg = m
                /\ rec'.status[m] = ServerStatus(rec'.found[m])
<1> USE TypeParts
<1> DEFINE rows(m) == {i \in NewestRows(HistoryLimit) : docs[i].msg = m}
           newest(m) == CHOOSE i \in rows(m) : \A j \in rows(m) : j <= i
           found == [m \in Msgs |-> IF rows(m) = {} THEN NoId ELSE newest(m)]
           status == [m \in Msgs |-> IF rows(m) = {} THEN "sent" ELSE ServerStatus(newest(m))]
<1>1. rec' = [rec EXCEPT !.stage = "rows", !.found = found, !.status = status]
  BY DEF FetchHistory
<1>2. rec'.found = found /\ rec'.status = status
  BY <1>1 DEF MemoryTypeOK, Reconcile, ReconcileState
<1>3. ASSUME NEW m \in Msgs
      PROVE  rows(m) # {} => /\ newest(m) \in Stored /\ docs[newest(m)].msg = m
                             /\ newest(m) \in Ids
  <2>1. rows(m) \subseteq Stored
    BY DEF NewestRows
  <2> HIDE DEF rows
  <2>2. rows(m) # {} => newest(m) \in rows(m)
    BY <2>1, NewestIsRow
  <2> QED BY <2>1, <2>2, StoredAre DEF rows
<1>4. \A i : ServerStatus(i) \in SentStatus
  BY DEF ServerStatus, SentStatus
<1> HIDE DEF rows, newest
<1>5. \A m \in Msgs : found[m] # NoId =>
        /\ found[m] \in Stored /\ docs[found[m]].msg = m
        /\ status[m] = ServerStatus(found[m])
  BY <1>3
<1>6. found \in [Msgs -> Ids \cup {NoId}] /\ status \in [Msgs -> SentStatus]
  BY <1>3, <1>4 DEF SentStatus
<1> HIDE DEF found, status
<1> QED BY <1>1, <1>2, <1>5, <1>6

LEMMA SyncType ==
    ASSUME OutboxTypeOK,
           StartReconcile \/ SyncFails \/ FetchHistory \/ FetchHistoryFails \/ SyncConversation
    PROVE  OutboxTypeOK'
<1> USE TypeParts
<1>1. KeepSync /\ UNCHANGED <<up, out, session>>
        => /\ StoreTypeOK' /\ ServerTypeOK' /\ SocketTypeOK' /\ FramesTypeOK' /\ RowsTypeOK'
  BY KeptType DEF KeepSync
<1>2. /\ UNCHANGED <<raced, swallowed, faults>> => HistoryTypeOK'
      /\ Fault("http") /\ UNCHANGED <<raced, swallowed>> => HistoryTypeOK'
  <2>1. raced \subseteq Msgs
    BY DEF HistoryTypeOK
  <2> QED BY <2>1, KeptType, FaultType
<1>3. /\ KeepSync /\ syncing' \in BOOLEAN /\ rec' \in Reconcile => MemoryTypeOK'
      /\ rec \in Reconcile /\ syncing \in BOOLEAN
  BY DEF KeepSync, MemoryTypeOK
<1>4. CASE StartReconcile
  <2> DEFINE todo == {[msg |-> m, id |-> out[m].id] : m \in {m \in Msgs : out[m].st = "sending"}}
             begun == [NotReconciling EXCEPT !.stage = "fetch", !.todo = todo]
  <2>1. todo \in SUBSET [msg : Msgs, id : Ids \cup {NoId}]
    BY DEF RowsTypeOK, Row
  <2> HIDE DEF todo
  <2>2. todo # {} => begun \in Reconcile
    BY <2>1, IdleIsReconcile DEF NotReconciling, Reconcile, ReconcileState
  <2>3. rec' \in Reconcile /\ syncing' \in BOOLEAN
    BY <1>3, <1>4, <2>2 DEF StartReconcile, todo
  <2>4. HistoryTypeOK'
    BY <1>4 DEF StartReconcile, HistoryTypeOK
  <2> QED BY <1>1, <1>3, <1>4, <2>3, <2>4 DEF StartReconcile
<1>5. CASE SyncFails
  BY <1>1, <1>2, <1>3, <1>5 DEF SyncFails
<1>6. CASE FetchHistory
  <2>1. rec' \in Reconcile
    BY <1>3, <1>6, HistoryAnswer DEF FetchHistory, Reconcile, ReconcileState
  <2> QED BY <1>1, <1>2, <1>3, <1>6, <2>1 DEF FetchHistory
<1>7. CASE FetchHistoryFails
  BY <1>1, <1>2, <1>3, <1>7, IdleIsReconcile DEF FetchHistoryFails
<1>8. CASE SyncConversation
  <2>1. \A i : ServerStatus(i) \in SentStatus
    BY DEF ServerStatus, SentStatus
  <2>2. out' \in [Msgs -> Row]
    BY <1>8, <2>1 DEF SyncConversation, RowsTypeOK, Row, Statuses
  <2>3. RowsTypeOK'
    BY <1>8, <2>2 DEF SyncConversation, RowsTypeOK
  <2>4. StoreTypeOK' /\ ServerTypeOK' /\ SocketTypeOK' /\ FramesTypeOK'
    BY <1>8, KeptType DEF SyncConversation, KeepSync
  <2> QED BY <1>2, <1>3, <1>8, <2>3, <2>4 DEF SyncConversation
<1> QED BY <1>4, <1>5, <1>6, <1>7, <1>8

LEMMA ReconcileType ==
    ASSUME OutboxTypeOK, NEW t \in rec.todo, ReconcileOne(t)
    PROVE  OutboxTypeOK'
<1> USE TypeParts
<1>1. rec \in Reconcile /\ t.msg \in Msgs /\ t.id \in Ids \cup {NoId}
  BY DEF MemoryTypeOK, Reconcile, ReconcileState
<1>2. StoreTypeOK' /\ ServerTypeOK' /\ SocketTypeOK' /\ down' = down
  BY KeptType DEF ReconcileOne, KeepSync
<1>3. MemoryTypeOK'
  <2>1. rec' \in Reconcile
    <3>1. CASE rec.todo = {t}
      BY <3>1, IdleIsReconcile DEF ReconcileOne
    <3>2. CASE rec.todo # {t}
      <4>1. rec' = [rec EXCEPT !.todo = rec.todo \ {t}]
        BY <3>2 DEF ReconcileOne
      <4>2. rec.todo \ {t} # {}
        BY <3>2
      <4> QED BY <1>1, <4>1, <4>2 DEF Reconcile, ReconcileState
    <3> QED BY <3>1, <3>2
  <2> QED BY <2>1 DEF ReconcileOne, KeepSync, MemoryTypeOK
<1>4. raced \subseteq Msgs /\ down \in Seq(DownFrame) /\ out \in [Msgs -> Row]
  BY DEF HistoryTypeOK, FramesTypeOK, RowsTypeOK
<1>5. Marked(t.msg, "failed") \in [Msgs -> Row]
  BY <1>1, RowTypes DEF Statuses
<1>6. UNCHANGED <<session, up>> /\ out' \in [Msgs -> Row] => RowsTypeOK' /\ FramesTypeOK'
  BY <1>2 DEF RowsTypeOK, FramesTypeOK
<1>7. CASE TakeServerId(t.msg)
  <2>1. rec.found[t.msg] \in Ids /\ rec.status[t.msg] \in Statuses
    BY <1>1, <1>7 DEF TakeServerId, Reconcile, ReconcileState, Statuses
  <2>2. Confirmed(t.msg, rec.found[t.msg]) \in [Msgs -> Row]
    BY <1>1, <2>1, RowTypes
  <2>3. out' \in [Msgs -> Row]
    BY <1>1, <1>7, <2>1, <2>2 DEF TakeServerId, Row
  <2>4. HistoryTypeOK'
    BY <1>7, KeptType DEF TakeServerId, ReconcileOne
  <2> QED BY <1>2, <1>3, <1>6, <1>7, <2>3, <2>4 DEF TakeServerId
<1>8. CASE GiveUp(t.msg, t.id)
  <2>1. out' \in [Msgs -> Row]
    BY <1>4, <1>5, <1>8 DEF GiveUp
  <2>2. HistoryTypeOK'
    BY <1>1, <1>4, <1>8, FaultType DEF GiveUp, ReconcileOne
  <2> QED BY <1>2, <1>3, <1>6, <1>8, <2>1, <2>2 DEF GiveUp
<1>9. CASE SendAgain(t.msg)
  <2>1. raced' \subseteq Msgs
    BY <1>1, <1>4, <1>9 DEF SendAgain
  <2>2. CASE Transmit(t.msg) /\ UNCHANGED out
    <3>1. up' \in [Conns -> Seq(UpFrame)] /\ session' \in Regs
      BY <1>1, <2>2, TransmitType
    <3>2. RowsTypeOK' /\ FramesTypeOK'
      BY <1>2, <1>4, <2>2, <3>1 DEF RowsTypeOK, FramesTypeOK
    <3>3. HistoryTypeOK'
      BY <2>1, <2>2, FaultType DEF Transmit, ReconcileOne
    <3> QED BY <1>2, <1>3, <3>2, <3>3
  <2>3. CASE PrepareOffline /\ UNCHANGED <<session, up, out>>
    <3>1. HistoryTypeOK'
      BY <2>1, <2>3, FaultType DEF PrepareOffline, ReconcileOne
    <3> QED BY <1>2, <1>3, <1>4, <1>6, <2>3, <3>1
  <2>4. CASE /\ out' = IF out[t.msg].st = "deleted" THEN out ELSE Marked(t.msg, "failed")
             /\ UNCHANGED <<session, up, faults>>
    <3>1. HistoryTypeOK'
      BY <2>1, <2>4, FaultType DEF ReconcileOne
    <3> QED BY <1>2, <1>3, <1>4, <1>5, <1>6, <2>4, <3>1
  <2> QED BY <1>9, <2>2, <2>3, <2>4 DEF SendAgain
<1> QED BY <1>7, <1>8, <1>9 DEF ReconcileOne

LEMMA ConnectionType ==
    ASSUME OutboxTypeOK, Connect \/ Drop \/ Crash \/ ServerCrash
    PROVE  OutboxTypeOK'
<1> USE TypeParts
<1>1. up \in [Conns -> Seq(UpFrame)] /\ down \in Seq(DownFrame) /\ raced \subseteq Msgs
  BY DEF FramesTypeOK, HistoryTypeOK
<1>2. CASE Connect
  <2>1. SocketTypeOK'
    BY <1>2, Bounds DEF Connect, SocketTypeOK, Conns
  <2>2. << [kind |-> "registered"] >> \in Seq(DownFrame)
    BY Frames
  <2>3. FramesTypeOK'
    BY <1>1, <1>2, <2>2 DEF Connect, FramesTypeOK
  <2> QED BY <1>2, <2>1, <2>3, KeptType DEF Connect
<1>3. CASE Drop
  <2>1. FramesTypeOK'
    BY <1>3, CutType DEF Drop, FramesTypeOK
  <2>2. SocketTypeOK' /\ MemoryTypeOK'
    BY <1>3 DEF Drop, SocketTypeOK, MemoryTypeOK
  <2>3. HistoryTypeOK'
    BY <1>1, <1>3, FaultType DEF Drop
  <2> QED BY <1>3, <2>1, <2>2, <2>3, KeptType DEF Drop
<1>4. CASE Crash
  <2>1. up' \in [Conns -> Seq(UpFrame)]
    BY <1>1, <1>4, CutType DEF Crash
  <2>2. FramesTypeOK'
    BY <1>4, <2>1 DEF Crash, FramesTypeOK
  <2>3. MemoryTypeOK'
    BY <1>4, IdleIsReconcile DEF Crash, MemoryTypeOK
  <2>4. SocketTypeOK'
    BY <1>4 DEF Crash, SocketTypeOK
  <2>5. HistoryTypeOK'
    BY <1>1, <1>4, FaultType DEF Crash
  <2> QED BY <1>4, <2>2, <2>3, <2>4, <2>5, KeptType DEF Crash
<1>5. CASE ServerCrash
  <2>1. up' \in [Conns -> Seq(UpFrame)]
    BY <1>5 DEF ServerCrash
  <2>2. FramesTypeOK'
    BY <1>5, <2>1, CutType DEF ServerCrash, FramesTypeOK
  <2>3. StoreTypeOK' /\ ServerTypeOK'
    BY <1>5 DEF ServerCrash, StoreTypeOK, ServerTypeOK
  <2>4. SocketTypeOK' /\ MemoryTypeOK'
    BY <1>5 DEF ServerCrash, SocketTypeOK, MemoryTypeOK
  <2>5. HistoryTypeOK'
    BY <1>1, <1>5, FaultType DEF ServerCrash
  <2> QED BY <1>5, <2>2, <2>3, <2>4, <2>5, KeptType DEF ServerCrash
<1> QED BY <1>2, <1>3, <1>4, <1>5

\* Handlers begin with the message they store, and no document goes.
LEMMA StepRunning ==
    ASSUME OutboxTypeOK, Running, [OutboxNext]_outboxVars
    PROVE  Running' /\ Stored \subseteq Stored' /\ \A i \in Stored : docs'[i] = docs[i]
<1>1. CASE UNCHANGED <<docs, handling>>
  BY <1>1 DEF Running, Stored
<1>2. ASSUME NEW c \in Conns, Accept(c)
      PROVE  Running' /\ Stored \subseteq Stored' /\ \A i \in Stored : docs'[i] = docs[i]
  <2>1. [msg |-> Head(up[c]).msg, reg |-> srvReg, good |-> TRUE, resendOf |-> NoId] \in Doc
    BY <1>2, TypeParts, TakenType DEF Accept, ServerTypeOK, Doc
  <2>2. /\ Stored \subseteq Stored' /\ Len(docs) + 1 \in Stored'
        /\ \A i \in Stored : docs'[i] = docs[i]
    BY <1>2, <2>1, TypeParts, CreateGrows DEF Accept
  <2> QED BY <1>2, <2>2, TypeParts DEF Accept, Running, ServerTypeOK
<1>3. ASSUME UNCHANGED docs, \A c \in Conns : handling'[c] \in {handling[c], NoId}
      PROVE  Running' /\ Stored \subseteq Stored' /\ \A i \in Stored : docs'[i] = docs[i]
  BY <1>3 DEF Running, Stored
<1>4. \/ UNCHANGED <<docs, handling>> \/ \E c \in Conns : Accept(c)
      \/ UNCHANGED docs /\ \A c \in Conns : handling'[c] \in {handling[c], NoId}
  <2>1. handling \in [Conns -> Ids \cup {NoId}]
    BY TypeParts DEF ServerTypeOK
  <2>2. ASSUME ServerStep \/ \E c \in Conns : HandlerFails(c)
        PROVE  \/ UNCHANGED <<docs, handling>> \/ \E c \in Conns : Accept(c)
               \/ UNCHANGED docs /\ \A c \in Conns : handling'[c] \in {handling[c], NoId}
    BY <2>1, <2>2 DEF ServerStep, Reject, Reply, Emitted, HandlerFails, storeVars, serverVars
  <2>3. ASSUME PhoneStep PROVE UNCHANGED <<docs, handling>>
    BY <2>3 DEF PhoneStep, HandleRegistered, HandleSent, HandleStatus, HandleIdentityChanged,
       HandleError, ConfirmSent, StartReconcile, FetchHistory, ReconcileOne, Connect, KeepSync,
       storeVars, serverVars
  <2>4. ASSUME Environment, ~\E c \in Conns : HandlerFails(c)
        PROVE  \/ UNCHANGED <<docs, handling>>
               \/ UNCHANGED docs /\ \A c \in Conns : handling'[c] \in {handling[c], NoId}
    BY <2>4 DEF Environment, SendText, RetryMessage, DeleteMessage, SyncConversation, PeerAcks,
       PeerReads, PeerReinstalls, Unlink, SyncFails, FetchHistoryFails, Drop, Crash, ServerCrash,
       Keep, KeepSync, storeVars, serverVars
  <2>5. ASSUME UNCHANGED outboxVars PROVE UNCHANGED <<docs, handling>>
    BY <2>5 DEF outboxVars, storeVars, serverVars
  <2> QED BY <2>2, <2>3, <2>4, <2>5 DEF OutboxNext
<1> QED BY <1>1, <1>2, <1>3, <1>4

LEMMA StepType ==
    ASSUME OutboxTypeOK, Running, [OutboxNext]_outboxVars
    PROVE  OutboxTypeOK'
<1>1. CASE ServerStep
  BY <1>1, HandlerType DEF ServerStep
<1>2. CASE PhoneStep
  BY <1>2, ReceiveType, ErrorType, SyncType, ReconcileType, ConnectionType DEF PhoneStep
<1>3. CASE Environment
  BY <1>3, UserType, HandlerType, PeerType, SyncType, ConnectionType DEF Environment
<1>4. CASE UNCHANGED outboxVars
  <2>1. /\ UNCHANGED storeVars /\ UNCHANGED serverVars /\ UNCHANGED <<socket, online>>
        /\ UNCHANGED <<up, down>> /\ UNCHANGED <<out, session>> /\ UNCHANGED memoryVars
        /\ UNCHANGED <<raced, swallowed, faults>>
    BY <1>4 DEF outboxVars, socketVars
  <2> QED BY <2>1, KeptType, TypeParts
<1> QED BY <1>1, <1>2, <1>3, <1>4 DEF OutboxNext

(***************************************************************************)
(* Every reachable state has the right types, for every number of          *)
(* messages, sockets and faults: frames name known messages and stored     *)
(* documents, and a reconcileOutbox that runs has rows left to deal with.  *)
(***************************************************************************)
THEOREM OutboxTypeCorrect == OutboxSpec => []OutboxTypeOK
<1> DEFINE Inv == OutboxTypeOK /\ Running
<1>1. OutboxInit => Inv
  BY InitType DEF OutboxInit, Running
<1>2. Inv /\ [OutboxNext]_outboxVars => Inv'
  BY StepType, StepRunning
<1> QED BY <1>1, <1>2, PTL DEF OutboxSpec
-----------------------------------------------------------------------------
(* Ticks are true *)

IsCopy(i, m) == i \in Stored /\ docs[i].msg = m

\* A row with a server id has that of a copy of its message, and its status is the copy's.
RowIsTrue(m) ==
    /\ out[m].st \in {"none", "deleted"} => out[m].id = NoId
    /\ out[m].st \in SentStatus => out[m].id # NoId
    /\ out[m].id # NoId => IsCopy(out[m].id, m)
    /\ out[m].st = "delivered" => out[m].id \in delivered
    /\ out[m].st = "read" => out[m].id \in read

RowsAreTrue == \A m \in Msgs : RowIsTrue(m)

\* What is on its way to the rows is true as well: frames, onSent tasks ...
TrueFrames ==
    {f \in DownFrame :
        /\ f.kind = "sent" => f.id \in Stored /\ docs[f.id].msg = f.msg
        /\ (f.kind = "status" /\ f.status = "delivered") => f.ids \subseteq delivered
        /\ (f.kind = "status" /\ f.status = "read") => f.ids \subseteq read}

FramesAreTrue == down \in Seq(TrueFrames)

TasksAreTrue == \A task \in confirming : IsCopy(task.id, task.msg)

\* ... and the answer reconcileOutbox works with, however old.
AnswerIsTrue ==
    \A m \in Msgs : rec.found[m] # NoId =>
        /\ IsCopy(rec.found[m], m)
        /\ rec.status[m] = "delivered" => rec.found[m] \in delivered
        /\ rec.status[m] = "read" => rec.found[m] \in read

Truth == RowsAreTrue /\ FramesAreTrue /\ TasksAreTrue /\ AnswerIsTrue

\* The server forgets nothing it stored, delivered or counted as read.
Grows ==
    /\ Stored \subseteq Stored' /\ \A i \in Stored : docs'[i] = docs[i]
    /\ delivered \subseteq delivered' /\ read \subseteq read'

LEMMA StepGrows ==
    ASSUME OutboxTypeOK, Running, [OutboxNext]_outboxVars
    PROVE  Grows
<1>1. delivered \subseteq delivered' /\ read \subseteq read'
  <2>1. CASE ServerStep
    BY <2>1 DEF ServerStep, Reject, Accept, Create, Reply, Emitted, storeVars, serverVars
  <2>2. CASE PhoneStep
    BY <2>2 DEF PhoneStep, HandleRegistered, HandleSent, HandleStatus, HandleIdentityChanged,
       HandleError, ConfirmSent, StartReconcile, FetchHistory, ReconcileOne, Connect, KeepSync,
       storeVars, serverVars
  <2>3. CASE Environment
    BY <2>3 DEF Environment, SendText, RetryMessage, DeleteMessage, SyncConversation, PeerAcks,
       PeerReads, PeerReinstalls, Unlink, HandlerFails, Emitted, SyncFails, FetchHistoryFails, Drop,
       Crash, ServerCrash, Keep, KeepSync, storeVars, serverVars
  <2>4. CASE UNCHANGED outboxVars
    BY <2>4 DEF outboxVars, storeVars, serverVars
  <2> QED BY <2>1, <2>2, <2>3, <2>4 DEF OutboxNext
<1> QED BY <1>1, StepRunning DEF Grows

\* A row that is left alone stays true.
LEMMA RowStays ==
    ASSUME Grows, NEW m \in Msgs, RowIsTrue(m), out'[m] = out[m]
    PROVE  RowIsTrue(m)'
BY DEF Grows, RowIsTrue, IsCopy

\* So is a row that is marked as sending or failed, ...
LEMMA MarkedIsTrue ==
    ASSUME OutboxTypeOK, RowsAreTrue, Grows, NEW m \in Msgs, NEW st \in {"sending", "failed"},
           out' = Marked(m, st)
    PROVE  RowsAreTrue'
<1>1. out \in [Msgs -> Row]
  BY TypeParts DEF RowsTypeOK
<1>2. ASSUME NEW n \in Msgs PROVE RowIsTrue(n)'
  <2>1. CASE n # m
    BY <1>1, <2>1, RowStays DEF Marked, RowsAreTrue
  <2>2. CASE n = m
    <3>1. out'[n].id = out[n].id /\ out'[n].st = st
      BY <1>1, <2>2 DEF Marked, Row
    <3> QED BY <3>1 DEF RowIsTrue, RowsAreTrue, Grows, IsCopy, SentStatus
  <2> QED BY <2>1, <2>2
<1> QED BY <1>2 DEF RowsAreTrue

\* ... raised to a status that is true of the ids, ...
LEMMA RaisedIsTrue ==
    ASSUME OutboxTypeOK, RowsAreTrue, Grows, NEW ids \in SUBSET Ids, NEW st \in SentStatus,
           out' = Raised(ids, st),
           st = "delivered" => ids \subseteq delivered, st = "read" => ids \subseteq read
    PROVE  RowsAreTrue'
<1>1. out \in [Msgs -> Row] /\ NoId \notin ids
  BY TypeParts, StoredAre DEF RowsTypeOK
<1>2. ASSUME NEW n \in Msgs PROVE RowIsTrue(n)'
  <2>1. /\ out'[n].id = out[n].id
        /\ out'[n] = out[n] \/ (out[n].id \in ids /\ out'[n].st = st)
    BY <1>1 DEF Raised, Row
  <2>2. CASE out[n].id \in ids /\ out'[n].st = st
    BY <1>1, <2>1, <2>2 DEF RowIsTrue, RowsAreTrue, Grows, IsCopy, SentStatus
  <2> QED BY <2>1, <2>2, RowStays DEF RowsAreTrue
<1> QED BY <1>2 DEF RowsAreTrue

\* ... or given the id of a copy, with a status that is true of it.
LEMMA ConfirmedIsTrue ==
    ASSUME OutboxTypeOK, RowsAreTrue, Grows, NEW m \in Msgs, NEW i, IsCopy(i, m),
           NEW st \in SentStatus,
           st = "delivered" => i \in delivered, st = "read" => i \in read,
           \/ out' = Confirmed(m, i)
           \/ /\ Confirmed(m, i)[m].id = i
              /\ out' = [Confirmed(m, i) EXCEPT ![m].st = st]
    PROVE  RowsAreTrue'
<1>1. out \in [Msgs -> Row] /\ i \in Ids /\ i # NoId
  BY TypeParts, StoredAre DEF RowsTypeOK, IsCopy
<1>2. Confirmed(m, i) \in [Msgs -> Row]
  BY <1>1, TypeParts, RowTypes
<1>3. /\ \A n \in Msgs \ {m} : Confirmed(m, i)[n] = out[n]
      /\ \/ Confirmed(m, i)[m] = out[m]
         \/ /\ out[m].st \notin {"none", "deleted"} /\ out[m].id = NoId
            /\ Confirmed(m, i)[m].id = i
            /\ Confirmed(m, i)[m].st = IF out[m].st \in {"sending", "failed"} THEN "sent"
                                       ELSE out[m].st
  BY <1>1 DEF Confirmed, Row
<1> DEFINE confirmed == Confirmed(m, i)
<1> HIDE DEF confirmed
<1>4. /\ \A n \in Msgs \ {m} : out'[n] = confirmed[n]
      /\ \/ out'[m] = confirmed[m]
         \/ out'[m].id = i /\ out'[m].st = st
  <2>1. confirmed \in [Msgs -> Row]
    BY <1>2 DEF confirmed
  <2>2. \/ out' = confirmed
        \/ confirmed[m].id = i /\ out' = [confirmed EXCEPT ![m].st = st]
    BY DEF confirmed
  <2> QED BY <2>1, <2>2 DEF Row
<1>5. ASSUME NEW n \in Msgs PROVE RowIsTrue(n)'
  <2>1. CASE out'[n] = out[n]
    BY <2>1, RowStays DEF RowsAreTrue
  <2>2. CASE n = m /\ out'[m].id = i /\ out'[m].st = st
    BY <1>1, <2>2 DEF RowIsTrue, Grows, IsCopy, SentStatus
  <2>3. CASE /\ n = m /\ out[m].st \notin {"none", "deleted"} /\ out[m].id = NoId
             /\ out'[m].id = i
             /\ out'[m].st = IF out[m].st \in {"sending", "failed"} THEN "sent" ELSE out[m].st
    <3>1. out[m].st \in Statuses /\ RowIsTrue(m)
      BY <1>1 DEF RowsAreTrue, Row
    <3>2. out'[m].st = "sent"
      BY <2>3, <3>1 DEF RowIsTrue, Statuses
    <3> QED BY <1>1, <2>3, <3>2 DEF RowIsTrue, Grows, IsCopy, SentStatus
  <2> QED BY <1>3, <1>4, <2>1, <2>2, <2>3 DEF confirmed
<1> QED BY <1>5 DEF RowsAreTrue
\* Every way a row is written leaves it true.
LEMMA RowsStep ==
    ASSUME OutboxTypeOK, Truth, Grows, [OutboxNext]_outboxVars
    PROVE  RowsAreTrue'
<1> USE TypeParts DEF Truth
<1>1. out \in [Msgs -> Row] /\ down \in Seq(DownFrame) /\ rec \in Reconcile
  BY DEF RowsTypeOK, FramesTypeOK, MemoryTypeOK
<1>2. CASE out' = out
  BY <1>2, RowStays DEF RowsAreTrue
<1>3. ASSUME NEW m \in Msgs, out' = Marked(m, "sending") \/ out' = Marked(m, "failed")
      PROVE  RowsAreTrue'
  BY <1>3, MarkedIsTrue
<1>4. ASSUME NEW m \in Msgs, DeleteMessage(m) PROVE RowsAreTrue'
  <2>1. out'[m].st = "deleted" /\ out'[m].id = NoId
    BY <1>1, <1>4 DEF DeleteMessage
  <2>2. RowIsTrue(m)'
    BY <2>1 DEF RowIsTrue, SentStatus
  <2>3. \A n \in Msgs \ {m} : RowIsTrue(n)'
    BY <1>1, <1>4, RowStays DEF DeleteMessage, RowsAreTrue
  <2> QED BY <2>2, <2>3 DEF RowsAreTrue
<1>5. CASE HandleSent
  <2>1. Head(down) \in DownFrame /\ Head(down).kind = "sent" /\ "sent" \in SentStatus
    BY <1>5, ReceivedType DEF HandleSent, SentStatus
  <2>2. {Head(down).id} \in SUBSET Ids
    BY <2>1, FrameFields
  <2> QED BY <1>5, <2>1, <2>2, RaisedIsTrue DEF HandleSent
<1>6. CASE HandleStatus
  <2>1. /\ Head(down) \in DownFrame /\ Head(down).kind = "status"
        /\ Head(down) = down[1] /\ 1 \in DOMAIN down
    BY <1>1, <1>6, ReceivedType, TailOf DEF HandleStatus
  <2>2. Head(down).ids \in SUBSET Ids /\ Head(down).status \in SentStatus
    BY <2>1, FrameFields
  <2>3. Head(down) \in TrueFrames
    BY <1>6, TailOf DEF HandleStatus, Receive, FramesAreTrue
  <2>4. /\ Head(down).status = "delivered" => Head(down).ids \subseteq delivered
        /\ Head(down).status = "read" => Head(down).ids \subseteq read
    BY <2>1, <2>3 DEF TrueFrames
  <2> QED BY <1>6, <2>2, <2>4, RaisedIsTrue DEF HandleStatus
<1>7. ASSUME NEW task \in confirming, ConfirmSent(task) PROVE RowsAreTrue'
  <2>1. task.msg \in Msgs /\ IsCopy(task.id, task.msg) /\ out' = Confirmed(task.msg, task.id)
    BY <1>7 DEF MemoryTypeOK, TasksAreTrue, ConfirmSent
  <2>2. "sent" \in SentStatus
    BY DEF SentStatus
  <2> QED BY <2>1, <2>2, ConfirmedIsTrue
<1>8. CASE HandleError
  <2>1. Head(down).msg \in Msgs
    BY <1>8, ReceivedType, FrameFields DEF HandleError
  <2> QED BY <1>2, <1>3, <1>8, <2>1 DEF HandleError
<1>9. ASSUME NEW t \in rec.todo, ReconcileOne(t) PROVE RowsAreTrue'
  <2>1. t.msg \in Msgs /\ rec.status[t.msg] \in SentStatus
    BY <1>1 DEF Reconcile, ReconcileState
  <2>2. CASE TakeServerId(t.msg)
    <3>1. /\ IsCopy(rec.found[t.msg], t.msg)
          /\ rec.status[t.msg] = "delivered" => rec.found[t.msg] \in delivered
          /\ rec.status[t.msg] = "read" => rec.found[t.msg] \in read
      BY <2>1, <2>2 DEF TakeServerId, AnswerIsTrue
    <3>2. \/ out' = Confirmed(t.msg, rec.found[t.msg])
          \/ /\ Confirmed(t.msg, rec.found[t.msg])[t.msg].id = rec.found[t.msg]
             /\ out' = [Confirmed(t.msg, rec.found[t.msg]) EXCEPT ![t.msg].st = rec.status[t.msg]]
      BY <2>2 DEF TakeServerId
    <3> QED BY <2>1, <3>1, <3>2, ConfirmedIsTrue
  <2>3. CASE GiveUp(t.msg, t.id) \/ SendAgain(t.msg)
    BY <1>2, <1>3, <2>1, <2>3 DEF GiveUp, SendAgain
  <2> QED BY <1>9, <2>2, <2>3 DEF ReconcileOne
<1>10. CASE SyncConversation
  <2>1. UNCHANGED <<delivered, read, docs>>
    BY <1>10 DEF SyncConversation, KeepSync, storeVars, serverVars
  <2>2. ASSUME NEW n \in Msgs PROVE RowIsTrue(n)'
    <3>1. \/ out'[n] = out[n]
          \/ out[n].id \in Stored /\ out'[n].id = out[n].id /\ out'[n].st = ServerStatus(out[n].id)
      BY <1>1, <1>10 DEF SyncConversation, NewestRows, Row
    <3>2. CASE out'[n] = out[n]
      BY <3>2, RowStays DEF RowsAreTrue
    <3>3. CASE /\ out[n].id \in Stored /\ out'[n].id = out[n].id
               /\ out'[n].st = ServerStatus(out[n].id)
      BY <2>1, <3>3, StoredAre DEF RowsAreTrue, RowIsTrue, ServerStatus, SentStatus, IsCopy, Stored
    <3> QED BY <3>1, <3>2, <3>3
  <2> QED BY <2>2 DEF RowsAreTrue
<1>11. ServerStep => out' = out
  BY DEF ServerStep, Reject, Accept, Reply, Keep
<1>12. CASE PhoneStep
  <2>1. HandleRegistered \/ HandleIdentityChanged \/ StartReconcile \/ FetchHistory \/ Connect
          => out' = out
    BY DEF HandleRegistered, HandleIdentityChanged, StartReconcile, FetchHistory, Connect
  <2> QED BY <1>2, <1>5, <1>6, <1>7, <1>8, <1>9, <1>12, <2>1 DEF PhoneStep
<1>13. CASE Environment
  <2>1. ASSUME NEW m \in Msgs, SendText(m) \/ RetryMessage(m) PROVE RowsAreTrue'
    BY <1>3, <2>1 DEF SendText, RetryMessage
  <2>2. ASSUME \/ \E i \in Stored : PeerAcks(i) \/ PeerReads(i)
               \/ PeerReinstalls \/ Unlink \/ \E c \in Conns : HandlerFails(c)
               \/ SyncFails \/ FetchHistoryFails \/ Drop \/ Crash \/ ServerCrash
        PROVE  out' = out
    BY <2>2 DEF PeerAcks, PeerReads, PeerReinstalls, Unlink, HandlerFails, Keep, SyncFails,
       FetchHistoryFails, Drop, Crash, ServerCrash
  <2> QED BY <1>2, <1>3, <1>4, <1>10, <1>13, <2>1, <2>2 DEF Environment
<1>14. UNCHANGED outboxVars => out' = out
  BY DEF outboxVars
<1> QED BY <1>2, <1>11, <1>12, <1>13, <1>14 DEF OutboxNext

\* A frame that is true stays so, on whatever queue.
LEMMA TrueFramesGrow ==
    ASSUME Grows
    PROVE  TrueFrames \subseteq TrueFrames'
<1> SUFFICES ASSUME NEW f \in TrueFrames PROVE f \in TrueFrames'
  OBVIOUS
<1>1. f \in DownFrame
  BY DEF TrueFrames
<1>2. f.kind = "sent" => f.id \in Stored' /\ docs'[f.id].msg = f.msg
  BY DEF TrueFrames, Grows
<1>3. (f.kind = "status" /\ f.status = "delivered") => f.ids \subseteq delivered'
  BY DEF TrueFrames, Grows
<1>4. (f.kind = "status" /\ f.status = "read") => f.ids \subseteq read'
  BY DEF TrueFrames, Grows
<1> QED BY <1>1, <1>2, <1>3, <1>4 DEF TrueFrames

LEMMA FramesStayTrue ==
    ASSUME Grows, FramesAreTrue
    PROVE  down \in Seq(TrueFrames')
<1>1. \A S, T : S \subseteq T => Seq(S) \subseteq Seq(T)
  OBVIOUS
<1> QED BY <1>1, TrueFramesGrow DEF FramesAreTrue

LEMMA SentIsTrue ==
    ASSUME Grows, FramesAreTrue, NEW f, f \in TrueFrames',
           Notify(f) \/ (\E c \in Conns : ReplyOn(c, f)) \/ UNCHANGED down
    PROVE  FramesAreTrue'
<1>1. Append(down, f) \in Seq(TrueFrames')
  BY FramesStayTrue, AppendOf
<1> QED BY <1>1, FramesStayTrue DEF Notify, ReplyOn, FramesAreTrue

LEMMA ReceivedIsTrue ==
    ASSUME Grows, FramesAreTrue, NEW kind, Receive(kind)
    PROVE  FramesAreTrue'
BY FramesStayTrue, TailOf DEF Receive, FramesAreTrue

LEMMA CutIsTrue ==
    ASSUME Grows, FramesAreTrue, CutDown
    PROVE  FramesAreTrue'
<1>1. PICK n \in 0..Len(down) : down' = SubSeq(down, 1, n)
  BY DEF CutDown
<1> QED BY <1>1, FramesStayTrue, PrefixOf DEF FramesAreTrue

LEMMA FramesStep ==
    ASSUME OutboxTypeOK, Running, Truth, Grows, [OutboxNext]_outboxVars
    PROVE  FramesAreTrue'
<1> USE TypeParts DEF Truth
<1>1. CASE UNCHANGED down
  BY <1>1, FramesStayTrue DEF FramesAreTrue
<1>2. ASSUME NEW c \in Conns, Reject(c) PROVE FramesAreTrue'
  <2>1. Head(up[c]).msg \in Msgs
    BY <1>2, TakenType DEF Reject
  <2>2. PICK code \in {"recipient_keys_changed", "other"} :
          ReplyOn(c, [kind |-> "error", msg |-> Head(up[c]).msg, code |-> code])
    BY <1>2 DEF Reject
  <2> DEFINE f == [kind |-> "error", msg |-> Head(up[c]).msg, code |-> code]
  <2>3. f \in TrueFrames'
    BY <2>1, Frames DEF TrueFrames
  <2> HIDE DEF f
  <2>4. ReplyOn(c, f)
    BY <2>2 DEF f
  <2> QED BY <2>3, <2>4, SentIsTrue
<1>3. ASSUME NEW c \in Conns, Reply(c) PROVE FramesAreTrue'
  <2> DEFINE i == handling[c]
             f == [kind |-> "sent", msg |-> docs[i].msg, id |-> i]
  <2>1. i \in Stored /\ docs' = docs
    BY <1>3 DEF Reply, Running, Emitted
  <2>2. i \in Ids /\ docs[i] \in Doc
    BY <2>1, StoredAre DEF StoreTypeOK, Stored
  <2>3. f \in DownFrame
    BY <2>2, Frames DEF Doc
  <2>4. f \in TrueFrames'
    BY <2>1, <2>3 DEF TrueFrames, Stored
  <2>5. ReplyOn(c, f)
    BY <1>3 DEF Reply
  <2> HIDE DEF f
  <2> QED BY <2>4, <2>5, SentIsTrue
<1>4. ASSUME NEW i \in Stored, PeerAcks(i) PROVE FramesAreTrue'
  <2> DEFINE f == [kind |-> "status", ids |-> {i}, status |-> "delivered"]
  <2>1. f \in DownFrame
    BY StoredAre, Frames DEF SentStatus
  <2>2. f \in TrueFrames'
    BY <1>4, <2>1 DEF TrueFrames, PeerAcks
  <2>3. Notify(f) \/ UNCHANGED down
    BY <1>4 DEF PeerAcks
  <2> HIDE DEF f
  <2> QED BY <2>2, <2>3, SentIsTrue
<1>5. ASSUME NEW i \in Stored, PeerReads(i) PROVE FramesAreTrue'
  <2> DEFINE seen == {j \in Stored \ read : j <= i}
             f == [kind |-> "status", ids |-> seen, status |-> "read"]
  <2>1. seen \in SUBSET Ids /\ read' = read \cup seen /\ Notify(f)
    BY <1>5, StoredAre DEF PeerReads
  <2> HIDE DEF seen
  <2>2. f \in DownFrame
    BY <2>1, Frames DEF SentStatus
  <2>3. f \in TrueFrames'
    BY <2>1, <2>2 DEF TrueFrames
  <2> HIDE DEF f
  <2> QED BY <2>1, <2>2, <2>3, SentIsTrue
<1>6. CASE PeerReinstalls
  <2> DEFINE f == [kind |-> "identity_changed"]
  <2>1. f \in TrueFrames' /\ Notify(f)
    BY <1>6, Frames DEF TrueFrames, PeerReinstalls
  <2> HIDE DEF f
  <2> QED BY <2>1, SentIsTrue
<1>7. CASE HandleRegistered \/ HandleSent \/ HandleStatus \/ HandleIdentityChanged \/ HandleError
  BY <1>7, ReceivedIsTrue
     DEF HandleRegistered, HandleSent, HandleStatus, HandleIdentityChanged, HandleError
<1>8. CASE Connect
  <2>1. [kind |-> "registered"] \in TrueFrames'
    BY Frames DEF TrueFrames
  <2> QED BY <1>8, <2>1 DEF Connect, FramesAreTrue
<1>9. CASE Drop \/ ServerCrash
  BY <1>9, CutIsTrue DEF Drop, ServerCrash
<1>10. CASE Crash
  BY <1>10 DEF Crash, FramesAreTrue
<1>11. CASE ServerStep
  <2>1. \A c \in Conns : Accept(c) => UNCHANGED down
    BY DEF Accept
  <2> QED BY <1>1, <1>2, <1>3, <1>11, <2>1 DEF ServerStep
<1>12. CASE PhoneStep
  <2>1. ASSUME \/ \E task \in confirming : ConfirmSent(task)
               \/ StartReconcile \/ FetchHistory \/ \E t \in rec.todo : ReconcileOne(t)
        PROVE  UNCHANGED down
    BY <2>1 DEF ConfirmSent, StartReconcile, FetchHistory, ReconcileOne, KeepSync, socketVars
  <2> QED BY <1>1, <1>7, <1>8, <1>12, <2>1 DEF PhoneStep
<1>13. CASE Environment
  <2>1. ASSUME \/ \E m \in Msgs : SendText(m) \/ RetryMessage(m) \/ DeleteMessage(m)
               \/ SyncConversation \/ Unlink \/ \E c \in Conns : HandlerFails(c)
               \/ SyncFails \/ FetchHistoryFails
        PROVE  UNCHANGED down
    BY <2>1 DEF SendText, RetryMessage, DeleteMessage, SyncConversation, Unlink, HandlerFails,
       SyncFails, FetchHistoryFails, KeepSync, socketVars
  <2> QED BY <1>1, <1>4, <1>5, <1>6, <1>9, <1>10, <1>13, <2>1 DEF Environment
<1>14. UNCHANGED outboxVars => UNCHANGED down
  BY DEF outboxVars, socketVars
<1> QED BY <1>1, <1>11, <1>12, <1>13, <1>14 DEF OutboxNext

LEMMA TasksStep ==
    ASSUME OutboxTypeOK, Truth, Grows, [OutboxNext]_outboxVars
    PROVE  TasksAreTrue'
<1>1. CASE confirming' \subseteq confirming
  BY <1>1 DEF Truth, TasksAreTrue, Grows, IsCopy
<1>2. CASE HandleSent
  <2>1. down \in Seq(DownFrame) /\ down # << >> /\ Head(down).kind = "sent"
    BY <1>2, TypeParts, ReceivedType DEF HandleSent, FramesTypeOK
  <2>2. Head(down) \in TrueFrames
    BY <2>1, TailOf DEF Truth, FramesAreTrue
  <2>3. IsCopy(Head(down).id, Head(down).msg)
    BY <2>1, <2>2 DEF TrueFrames, IsCopy
  <2>4. confirming' = confirming \cup {[msg |-> Head(down).msg, id |-> Head(down).id]}
    BY <1>2 DEF HandleSent
  <2> QED BY <2>3, <2>4 DEF Truth, TasksAreTrue, Grows, IsCopy
<1>3. ServerStep => UNCHANGED confirming
  BY DEF ServerStep, Reject, Accept, Reply, Keep, memoryVars
<1>4. PhoneStep => confirming' \subseteq confirming \/ HandleSent
  BY DEF PhoneStep, HandleRegistered, HandleStatus, HandleIdentityChanged, HandleError, ConfirmSent,
     StartReconcile, FetchHistory, ReconcileOne, Connect, KeepSync, memoryVars
<1>5. Environment => confirming' \subseteq confirming
  BY DEF Environment, SendText, RetryMessage, DeleteMessage, SyncConversation, PeerAcks, PeerReads,
     PeerReinstalls, Unlink, HandlerFails, SyncFails, FetchHistoryFails, Drop, Crash, ServerCrash,
     Keep, KeepSync, memoryVars
<1>6. UNCHANGED outboxVars => UNCHANGED confirming
  BY DEF outboxVars, memoryVars
<1> QED BY <1>1, <1>2, <1>3, <1>4, <1>5, <1>6 DEF OutboxNext

LEMMA AnswerStep ==
    ASSUME OutboxTypeOK, Truth, Grows, [OutboxNext]_outboxVars
    PROVE  AnswerIsTrue'
<1> USE TypeParts DEF Truth
<1>1. rec \in Reconcile
  BY DEF MemoryTypeOK
<1>2. CASE rec'.found = rec.found /\ rec'.status = rec.status
  BY <1>2 DEF AnswerIsTrue, Grows, IsCopy
<1>3. CASE rec'.found = [m \in Msgs |-> NoId]
  BY <1>3 DEF AnswerIsTrue
<1>4. CASE FetchHistory
  <2>1. UNCHANGED <<docs, delivered, read>>
    BY <1>4 DEF FetchHistory, KeepSync, storeVars, serverVars
  <2>2. \A m \in Msgs : rec'.found[m] # NoId =>
          /\ rec'.found[m] \in Stored /\ docs[rec'.found[m]].msg = m
          /\ rec'.status[m] = ServerStatus(rec'.found[m])
    BY <1>4, HistoryAnswer
  <2> QED BY <2>1, <2>2 DEF AnswerIsTrue, ServerStatus, IsCopy, Stored
<1>5. ServerStep => UNCHANGED rec
  BY DEF ServerStep, Reject, Accept, Reply, Keep, memoryVars
<1>6. ASSUME PhoneStep
      PROVE  \/ rec'.found = rec.found /\ rec'.status = rec.status
             \/ rec'.found = [m \in Msgs |-> NoId] \/ FetchHistory
  <2>1. ASSUME NEW t \in rec.todo, ReconcileOne(t)
        PROVE  \/ rec'.found = rec.found /\ rec'.status = rec.status
               \/ rec'.found = [m \in Msgs |-> NoId]
    BY <1>1, <2>1 DEF ReconcileOne, NotReconciling, Reconcile, ReconcileState
  <2>2. StartReconcile => UNCHANGED rec \/ rec'.found = [m \in Msgs |-> NoId]
    BY DEF StartReconcile, NotReconciling
  <2>3. ASSUME \/ HandleRegistered \/ HandleSent \/ HandleStatus \/ HandleIdentityChanged
               \/ HandleError \/ Connect \/ \E task \in confirming : ConfirmSent(task)
        PROVE  UNCHANGED rec
    BY <2>3 DEF HandleRegistered, HandleSent, HandleStatus, HandleIdentityChanged, HandleError,
       ConfirmSent, Connect, memoryVars
  <2> QED BY <1>6, <2>1, <2>2, <2>3 DEF PhoneStep
<1>7. Environment => UNCHANGED rec \/ rec' = NotReconciling
  BY DEF Environment, SendText, RetryMessage, DeleteMessage, SyncConversation, PeerAcks, PeerReads,
     PeerReinstalls, Unlink, HandlerFails, SyncFails, FetchHistoryFails, Drop, Crash, ServerCrash,
     Keep, KeepSync, memoryVars
<1>8. rec' = NotReconciling => rec'.found = [m \in Msgs |-> NoId]
  BY DEF NotReconciling
<1>9. UNCHANGED outboxVars => UNCHANGED rec
  BY DEF outboxVars, memoryVars
<1> QED BY <1>2, <1>3, <1>4, <1>5, <1>6, <1>7, <1>8, <1>9 DEF OutboxNext

LEMMA InitTruth == OutboxInit => Truth
BY DEF OutboxInit, Truth, RowsAreTrue, RowIsTrue, FramesAreTrue, TasksAreTrue, AnswerIsTrue,
   NotReconciling, SentStatus

(***************************************************************************)
(* What the chat shows of a message is true of the copy its row names,     *)
(* whatever is late, lost, repeated or out of date: 'sent' only of what is *)
(* stored, 'delivered' and 'read' only of what the server counts as such.  *)
(***************************************************************************)
THEOREM OutboxTicksAreTrue == OutboxSpec => []TicksAreTrue
<1> DEFINE Inv == OutboxTypeOK /\ Running /\ Truth
<1>1. OutboxInit => Inv
  BY InitType, InitTruth DEF OutboxInit, Running
<1>2. Inv /\ [OutboxNext]_outboxVars => Inv'
  BY StepType, StepRunning, StepGrows, RowsStep, FramesStep, TasksStep, AnswerStep DEF Truth
<1>3. Inv => TicksAreTrue
  BY DEF Truth, RowsAreTrue, RowIsTrue, IsCopy, TicksAreTrue
<1> QED BY <1>1, <1>2, <1>3, PTL DEF OutboxSpec

-----------------------------------------------------------------------------
(* A message is stored once *)

\* How often a queue holds an element of X: never, or at most once.
NoneIn(s, X) == \A k \in DOMAIN s : s[k] \notin X
OneIn(s, X) == \A j, k \in DOMAIN s : s[j] \in X /\ s[k] \in X => j = k

\* A queue that turned into another has no more of X than before.
NoMoreOf(X, s, t) == (OneIn(s, X) => OneIn(t, X)) /\ (NoneIn(s, X) => NoneIn(t, X))

LEMMA TailHasNoMore ==
    ASSUME NEW S, NEW s \in Seq(S), s # << >>, NEW X
    PROVE  /\ NoMoreOf(X, s, Tail(s))
           /\ Head(s) \in X => ~NoneIn(s, X)
           /\ OneIn(s, X) /\ Head(s) \in X => NoneIn(Tail(s), X)
<1>1. /\ Head(s) = s[1] /\ 1 \in DOMAIN s /\ DOMAIN Tail(s) \subseteq Nat
      /\ \A k \in DOMAIN Tail(s) : k + 1 \in DOMAIN s /\ k # 0 /\ Tail(s)[k] = s[k + 1]
  BY TailOf
<1>2. \A j, k \in DOMAIN Tail(s) : j + 1 = k + 1 => j = k
  BY <1>1
<1>3. \A k \in DOMAIN Tail(s) : k + 1 # 1
  BY <1>1
<1> QED BY <1>1, <1>2, <1>3, Zenon DEF NoMoreOf, NoneIn, OneIn

LEMMA PrefixHasNoMore ==
    ASSUME NEW S, NEW s \in Seq(S), NEW n \in 0..Len(s), NEW X
    PROVE  NoMoreOf(X, s, SubSeq(s, 1, n))
BY PrefixOf, Zenon DEF NoMoreOf, NoneIn, OneIn

LEMMA AppendHasNoMore ==
    ASSUME NEW S, NEW s \in Seq(S), NEW x \in S, NEW X
    PROVE  /\ x \notin X => NoMoreOf(X, s, Append(s, x))
           /\ NoneIn(s, X) => OneIn(Append(s, x), X)
<1>1. /\ DOMAIN Append(s, x) = DOMAIN s \cup {Len(s) + 1}
      /\ Append(s, x)[Len(s) + 1] = x
      /\ \A k \in DOMAIN s : Append(s, x)[k] = s[k]
  BY AppendOf
<1> QED BY <1>1, Zenon DEF NoMoreOf, NoneIn, OneIn

LEMMA EmptyHasNone == \A X : NoneIn(<< >>, X) /\ OneIn(<< >>, X)
BY DEF NoneIn, OneIn

LEMMA SameHasNoMore == \A X, s : NoMoreOf(X, s, s)
BY DEF NoMoreOf

(***************************************************************************)
(* The places a message can be in after the phone sent it: a document, a   *)
(* frame the server has yet to handle, or a refusal the phone has yet to   *)
(* hear of.                                                                *)
(***************************************************************************)
SendsOf(m) == {f \in UpFrame : f.msg = m}
RefusalsOf(m) == {f \in DownFrame : f.kind = "error" /\ f.msg = m}

Unsent(m) == \A c \in Conns : NoneIn(up[c], SendsOf(m))
Unrefused(m) == NoneIn(down, RefusalsOf(m))
Nowhere(m) == Copies(m) = {} /\ Unsent(m) /\ Unrefused(m)

OnePlace(m) ==
    /\ \A i, j \in Copies(m) : i = j
    /\ \A c \in Conns : OneIn(up[c], SendsOf(m))
    /\ \A c, d \in Conns : c # d => NoneIn(up[c], SendsOf(m)) \/ NoneIn(up[d], SendsOf(m))
    /\ OneIn(down, RefusalsOf(m))
    /\ Copies(m) = {} \/ Unsent(m)
    /\ Copies(m) = {} \/ Unrefused(m)
    /\ Unsent(m) \/ Unrefused(m)

NotSent == {"none", "failed", "deleted"}

(***************************************************************************)
(* Unless reconcileOutbox acted on it from stale information, a message is *)
(* in one place, and in none while its row does not say it is being sent.  *)
(***************************************************************************)
OnceFor(m) == OnePlace(m) /\ (out[m].st \in NotSent => Nowhere(m))

Once == \A m \in Msgs \ raced : OnceFor(m)

\* A step that neither stores, sends nor refuses m.
Quiet(m) ==
    /\ UNCHANGED docs
    /\ \A c \in Conns : NoMoreOf(SendsOf(m), up[c], up'[c])
    /\ NoMoreOf(RefusalsOf(m), down, down')

LEMMA QuietKeeps ==
    ASSUME NEW m \in Msgs, Quiet(m)
    PROVE  /\ OnePlace(m) => OnePlace(m)'
           /\ Nowhere(m) => Nowhere(m)'
<1>1. Copies(m)' = Copies(m)
  BY DEF Quiet, Copies, Stored
<1>2. (Unsent(m) => Unsent(m)') /\ (Unrefused(m) => Unrefused(m)')
  BY Zenon DEF Quiet, NoMoreOf, Unsent, Unrefused
<1>3. OnePlace(m) => /\ \A c \in Conns : OneIn(up'[c], SendsOf(m))
                     /\ \A c, d \in Conns : c # d => \/ NoneIn(up'[c], SendsOf(m))
                                                     \/ NoneIn(up'[d], SendsOf(m))
                     /\ OneIn(down', RefusalsOf(m))
  BY Zenon DEF Quiet, NoMoreOf, OnePlace
<1> QED BY <1>1, <1>2, <1>3, Zenon DEF OnePlace, Nowhere

\* It keeps the invariant if the row is not given up by it.
LEMMA QuietOnce ==
    ASSUME NEW m \in Msgs, OnceFor(m), Quiet(m),
           out'[m].st \in NotSent => out[m].st \in NotSent \/ Nowhere(m)
    PROVE  OnceFor(m)'
BY QuietKeeps DEF OnceFor

\* A message that is nowhere may be sent.
LEMMA SentOnce ==
    ASSUME OutboxTypeOK, NEW m \in Msgs, Unsent(m), Unrefused(m)', Copies(m) = {}, UNCHANGED docs,
           NEW f \in SendsOf(m), NEW c \in Conns,
           up' = [up EXCEPT ![c] = Append(@, f)]
    PROVE  OnePlace(m)'
<1>1. Copies(m)' = {}
  BY DEF Copies, Stored
<1>2. up[c] \in Seq(UpFrame) /\ f \in UpFrame
  BY TypeParts DEF FramesTypeOK, SendsOf
<1>3. up'[c] = Append(up[c], f) /\ \A d \in Conns \ {c} : up'[d] = up[d]
  BY TypeParts DEF FramesTypeOK
<1>4. NoneIn(up[c], SendsOf(m)) /\ \A d \in Conns \ {c} : NoneIn(up'[d], SendsOf(m))
  BY <1>3 DEF Unsent
<1>5. OneIn(up'[c], SendsOf(m))
  BY <1>2, <1>3, <1>4, AppendHasNoMore
<1>6. \A s : NoneIn(s, SendsOf(m)) => OneIn(s, SendsOf(m))
  BY DEF NoneIn, OneIn
<1>7. \A d \in Conns : OneIn(up'[d], SendsOf(m))
  BY <1>4, <1>5, <1>6
<1>8. OneIn(down', RefusalsOf(m))
  BY DEF Unrefused, NoneIn, OneIn
<1> QED BY <1>1, <1>4, <1>7, <1>8, Zenon DEF OnePlace

LEMMA NowhereIsOne ==
    /\ \A m \in Msgs : Nowhere(m) => OnePlace(m)
    /\ \A m \in Msgs : Nowhere(m)' => OnePlace(m)'
<1>1. \A s, X : NoneIn(s, X) => OneIn(s, X)
  BY DEF NoneIn, OneIn
<1> QED BY <1>1, Zenon DEF Nowhere, OnePlace, Unsent, Unrefused

\* What sending m does to the frames of m, and to those of any other message.
LEMMA TransmitOnce ==
    ASSUME OutboxTypeOK, UNCHANGED docs, NEW m \in Msgs, NEW s \in Regs,
           up' = IF authed THEN [up EXCEPT ![socket] = Append(@, [msg |-> m, reg |-> s])] ELSE up
    PROVE  /\ Copies(m) = {} /\ Unsent(m) /\ Unrefused(m)' => OnePlace(m)'
           /\ \A n \in Msgs \ {m}, c \in Conns : NoMoreOf(SendsOf(n), up[c], up'[c])
<1> DEFINE f == [msg |-> m, reg |-> s]
<1>1. f \in UpFrame /\ f \in SendsOf(m) /\ \A n \in Msgs \ {m} : f \notin SendsOf(n)
  BY DEF UpFrame, SendsOf
<1>2. up \in [Conns -> Seq(UpFrame)]
  BY TypeParts DEF FramesTypeOK
<1>3. up' = up \/ (socket \in Conns /\ up' = [up EXCEPT ![socket] = Append(@, f)])
  BY <1>2
<1> HIDE DEF f
<1>4. CASE up' = up
  <2>1. Copies(m)' = Copies(m) /\ (Unsent(m) => Unsent(m)')
    BY <1>4 DEF Copies, Stored, Unsent
  <2> QED BY <1>4, <2>1, NowhereIsOne, SameHasNoMore DEF Nowhere
<1>5. CASE socket \in Conns /\ up' = [up EXCEPT ![socket] = Append(@, f)]
  <2>1. ASSUME NEW n \in Msgs \ {m}, NEW c \in Conns PROVE NoMoreOf(SendsOf(n), up[c], up'[c])
    <3>1. NoMoreOf(SendsOf(n), up[c], Append(up[c], f))
      BY <1>1, <1>2, AppendHasNoMore
    <3>2. up'[c] = up[c] \/ up'[c] = Append(up[c], f)
      BY <1>2, <1>5
    <3> QED BY <3>1, <3>2, SameHasNoMore
  <2> QED BY <1>1, <1>5, <2>1, SentOnce
<1> QED BY <1>3, <1>4, <1>5

\* What happens to a queue that a handler takes a frame from.
LEMMA TakenHasNoMore ==
    ASSUME OutboxTypeOK, NEW c \in Conns, up[c] # << >>, up' = [up EXCEPT ![c] = Tail(@)]
    PROVE  /\ \A X : \A d \in Conns : NoMoreOf(X, up[d], up'[d])
           /\ up'[c] = Tail(up[c]) /\ \A d \in Conns \ {c} : up'[d] = up[d]
<1>1. up \in [Conns -> Seq(UpFrame)]
  BY TypeParts DEF FramesTypeOK
<1>2. up'[c] = Tail(up[c]) /\ \A d \in Conns \ {c} : up'[d] = up[d]
  BY <1>1
<1>3. \A X : NoMoreOf(X, up[c], Tail(up[c]))
  BY <1>1, TailHasNoMore
<1> QED BY <1>2, <1>3, SameHasNoMore

\* A message whose frame is handled was nowhere else.
LEMMA TakenOnce ==
    ASSUME OutboxTypeOK, NEW c \in Conns, up[c] # << >>, up' = [up EXCEPT ![c] = Tail(@)],
           NEW m \in Msgs, m = Head(up[c]).msg, OnceFor(m)
    PROVE  /\ Copies(m) = {} /\ Unrefused(m) /\ Unsent(m)'
           /\ out[m].st \notin NotSent
<1>1. up[c] \in Seq(UpFrame)
  BY TypeParts DEF FramesTypeOK
<1>2. Head(up[c]) \in SendsOf(m)
  BY <1>1, TailOf DEF SendsOf
<1>3. ~NoneIn(up[c], SendsOf(m)) /\ OneIn(up[c], SendsOf(m)) => NoneIn(Tail(up[c]), SendsOf(m))
  BY <1>1, <1>2, TailHasNoMore
<1>4. ~NoneIn(up[c], SendsOf(m)) /\ ~Unsent(m)
  BY <1>1, <1>2, TailHasNoMore DEF Unsent
<1>5. Copies(m) = {} /\ Unrefused(m) /\ out[m].st \notin NotSent
  BY <1>4 DEF OnceFor, OnePlace, Nowhere
<1>6. \A d \in Conns \ {c} : NoneIn(up[d], SendsOf(m))
  BY <1>4, Zenon DEF OnceFor, OnePlace
<1>7. NoneIn(Tail(up[c]), SendsOf(m))
  BY <1>3, <1>4 DEF OnceFor, OnePlace
<1>8. Unsent(m)'
  BY <1>6, <1>7, TakenHasNoMore DEF Unsent
<1> QED BY <1>5, <1>8

\* Frames that are no refusals of m leave the queue to the phone as it was for m.
LEMMA OtherFrame ==
    ASSUME OutboxTypeOK, NEW m \in Msgs, NEW f \in DownFrame, f \notin RefusalsOf(m),
           Notify(f) \/ (\E c \in Conns : ReplyOn(c, f)) \/ UNCHANGED down
    PROVE  NoMoreOf(RefusalsOf(m), down, down')
<1>1. down \in Seq(DownFrame)
  BY TypeParts DEF FramesTypeOK
<1>2. NoMoreOf(RefusalsOf(m), down, Append(down, f))
  BY <1>1, AppendHasNoMore
<1> QED BY <1>2, SameHasNoMore DEF Notify, ReplyOn

LEMMA RejectOnce ==
    ASSUME OutboxTypeOK, NEW m \in Msgs, OnceFor(m), NEW c \in Conns, Reject(c)
    PROVE  OnceFor(m)'
<1> DEFINE g == Head(up[c])
<1>1. /\ up[c] # << >> /\ up' = [up EXCEPT ![c] = Tail(@)] /\ UNCHANGED <<docs, out>>
      /\ g.msg \in Msgs
  BY TypeParts, TakenType DEF Reject, Keep, storeVars
<1>2. PICK code \in {"recipient_keys_changed", "other"} :
        ReplyOn(c, [kind |-> "error", msg |-> g.msg, code |-> code])
  BY DEF Reject
<1> DEFINE f == [kind |-> "error", msg |-> g.msg, code |-> code]
<1>3. f \in DownFrame /\ f.kind = "error" /\ f.msg = g.msg /\ ReplyOn(c, f)
  BY <1>1, <1>2, Frames
<1> HIDE DEF f
<1>4. \A X : \A d \in Conns : NoMoreOf(X, up[d], up'[d])
  BY <1>1, TakenHasNoMore
<1>5. CASE g.msg # m
  <2>1. NoMoreOf(RefusalsOf(m), down, down')
    BY <1>3, <1>5, OtherFrame DEF RefusalsOf
  <2>2. Quiet(m)
    BY <1>1, <1>4, <2>1 DEF Quiet
  <2> QED BY <1>1, <2>2, QuietOnce
<1>6. CASE g.msg = m
  <2>1. Copies(m) = {} /\ Unrefused(m) /\ Unsent(m)' /\ out[m].st \notin NotSent
    BY <1>1, <1>6, TakenOnce
  <2>2. OneIn(down', RefusalsOf(m))
    <3>1. down \in Seq(DownFrame)
      BY TypeParts DEF FramesTypeOK
    <3>2. OneIn(Append(down, f), RefusalsOf(m))
      BY <1>3, <2>1, <3>1, AppendHasNoMore DEF Unrefused
    <3>3. OneIn(down, RefusalsOf(m))
      BY DEF OnceFor, OnePlace
    <3> QED BY <1>3, <3>2, <3>3 DEF ReplyOn
  <2>3. Copies(m)' = {}
    BY <1>1, <2>1 DEF Copies, Stored
  <2>4. \A s : NoneIn(s, SendsOf(m)) => OneIn(s, SendsOf(m))
    BY DEF NoneIn, OneIn
  <2>5. OnePlace(m)'
    BY <2>1, <2>2, <2>3, <2>4, Zenon DEF OnePlace, Unsent
  <2> QED BY <1>1, <2>1, <2>5 DEF OnceFor
<1> QED BY <1>5, <1>6

LEMMA AcceptOnce ==
    ASSUME OutboxTypeOK, NEW m \in Msgs, OnceFor(m), NEW c \in Conns, Accept(c)
    PROVE  OnceFor(m)'
<1> DEFINE g == Head(up[c])
           d == [msg |-> g.msg, reg |-> srvReg, good |-> TRUE, resendOf |-> NoId]
<1>1. /\ up[c] # << >> /\ up' = [up EXCEPT ![c] = Tail(@)] /\ UNCHANGED <<down, out>>
      /\ g.msg \in Msgs /\ srvReg \in Regs
  BY TypeParts, TakenType DEF Accept, Keep, ServerTypeOK
<1>2. d \in Doc /\ d.msg = g.msg /\ Create(d)
  BY <1>1 DEF Accept, Doc
<1> HIDE DEF d
<1>3. /\ Stored' = Stored \cup {Len(docs) + 1} /\ Len(docs) + 1 \notin Stored
      /\ \A i \in Stored : docs'[i] = docs[i]
      /\ docs'[Len(docs) + 1] = d
  BY <1>2, TypeParts, CreateGrows
<1>4. \A X : \A e \in Conns : NoMoreOf(X, up[e], up'[e])
  BY <1>1, TakenHasNoMore
<1>5. CASE g.msg # m
  <2>1. Copies(m)' = Copies(m)
    BY <1>2, <1>3, <1>5 DEF Copies
  <2>2. (Unsent(m) => Unsent(m)') /\ Unrefused(m)' = Unrefused(m)
    BY <1>1, <1>4 DEF NoMoreOf, Unsent, Unrefused
  <2>3. OnePlace(m)'
    <3>1. /\ \A e \in Conns : OneIn(up'[e], SendsOf(m))
          /\ \A a, b \in Conns : a # b => NoneIn(up'[a], SendsOf(m)) \/ NoneIn(up'[b], SendsOf(m))
          /\ OneIn(down', RefusalsOf(m))
      BY <1>1, <1>4, Zenon DEF NoMoreOf, OnceFor, OnePlace
    <3> QED BY <2>1, <2>2, <3>1, Zenon DEF OnceFor, OnePlace
  <2> QED BY <1>1, <2>1, <2>2, <2>3 DEF OnceFor, Nowhere
<1>6. CASE g.msg = m
  <2>1. Copies(m) = {} /\ Unrefused(m) /\ Unsent(m)' /\ out[m].st \notin NotSent
    BY <1>1, <1>6, TakenOnce
  <2>2. Copies(m)' = {Len(docs) + 1}
    BY <1>2, <1>3, <1>6, <2>1 DEF Copies
  <2>3. Unrefused(m)' /\ OneIn(down', RefusalsOf(m))
    BY <1>1, <2>1 DEF Unrefused, OnceFor, OnePlace
  <2>4. \A s : NoneIn(s, SendsOf(m)) => OneIn(s, SendsOf(m))
    BY DEF NoneIn, OneIn
  <2>5. OnePlace(m)'
    BY <2>1, <2>2, <2>3, <2>4 DEF OnePlace, Unsent
  <2> QED BY <1>1, <2>1, <2>5 DEF OnceFor
<1> QED BY <1>5, <1>6

LEMMA ErrorOnce ==
    ASSUME OutboxTypeOK, NEW m \in Msgs, OnceFor(m), HandleError
    PROVE  OnceFor(m)'
<1> DEFINE q == Head(down).msg
<1>1. /\ down \in Seq(DownFrame) /\ down # << >> /\ Head(down) \in DownFrame /\ q \in Msgs
      /\ Head(down).kind = "error" /\ down' = Tail(down) /\ UNCHANGED docs
      /\ srvReg \in Regs /\ out \in [Msgs -> Row]
  BY TypeParts, ReceivedType, FrameFields
     DEF HandleError, Receive, FramesTypeOK, ServerTypeOK, RowsTypeOK, storeVars
<1>2. \A X : NoMoreOf(X, down, down')
  BY <1>1, TailHasNoMore
<1>3. \/ up' = up /\ (out' = out \/ out' = Marked(q, "failed"))
      \/ /\ out' = out
         /\ up' = IF authed THEN [up EXCEPT ![socket] = Append(@, [msg |-> q, reg |-> srvReg])]
                  ELSE up
  BY DEF HandleError
<1>4. CASE m # q
  <2>1. \A c \in Conns : NoMoreOf(SendsOf(m), up[c], up'[c])
    BY <1>1, <1>3, <1>4, TransmitOnce, SameHasNoMore
  <2>2. Quiet(m)
    BY <1>1, <1>2, <2>1 DEF Quiet
  <2>3. out'[m] = out[m]
    BY <1>1, <1>3, <1>4 DEF Marked
  <2> QED BY <2>2, <2>3, QuietOnce
<1>5. CASE m = q
  <2>1. Head(down) \in RefusalsOf(m)
    BY <1>1, <1>5 DEF RefusalsOf
  <2>2. ~Unrefused(m) /\ Unrefused(m)'
    BY <1>1, <2>1, TailHasNoMore DEF OnceFor, OnePlace, Unrefused
  <2>3. Copies(m) = {} /\ Unsent(m) /\ out[m].st \notin NotSent
    BY <2>2 DEF OnceFor, OnePlace, Nowhere
  <2>4. Copies(m)' = {}
    BY <1>1, <2>3 DEF Copies, Stored
  <2>5. CASE up' = up
    <3>1. Nowhere(m)'
      BY <2>2, <2>3, <2>4, <2>5 DEF Nowhere, Unsent
    <3> QED BY <3>1, NowhereIsOne DEF OnceFor
  <2>6. CASE /\ out' = out
             /\ up' = IF authed
                      THEN [up EXCEPT ![socket] = Append(@, [msg |-> q, reg |-> srvReg])]
                      ELSE up
    <3>1. OnePlace(m)'
      BY <1>1, <1>5, <2>2, <2>3, <2>6, TransmitOnce
    <3> QED BY <2>3, <2>6, <3>1 DEF OnceFor
  <2> QED BY <1>3, <2>5, <2>6
<1> QED BY <1>4, <1>5

\* A reconcileOutbox that is not stale finds the message nowhere.
LEMMA FreshIsNowhere ==
    ASSUME NEW m \in Msgs, ~Stale(m)
    PROVE  Nowhere(m) /\ out[m].st = "sending"
<1>1. Copies(m) = {} /\ out[m].st = "sending"
  BY DEF Stale, Copies
<1>2. Unsent(m)
  BY DEF Stale, Unsent, NoneIn, SendsOf
<1>3. Unrefused(m)
  BY DEF Stale, Unrefused, NoneIn, RefusalsOf
<1> QED BY <1>1, <1>2, <1>3 DEF Nowhere

\* No way of writing a row but Marked takes it back to a status of what was not sent.
LEMMA WrittenIsSent ==
    ASSUME OutboxTypeOK, NEW m \in Msgs
    PROVE  /\ \A ids : \A st \in SentStatus :
                Raised(ids, st)[m].st \in NotSent => out[m].st \in NotSent
           /\ \A q \in Msgs : \A i : Confirmed(q, i)[m].st \in NotSent => out[m].st \in NotSent
           /\ \A q \in Msgs : \A st : Marked(q, st)[m] = IF q = m THEN [out[m] EXCEPT !.st = st]
                                                     ELSE out[m]
<1>1. out \in [Msgs -> Row]
  BY TypeParts DEF RowsTypeOK
<1>2. ASSUME NEW ids, NEW st \in SentStatus, Raised(ids, st)[m].st \in NotSent
      PROVE  out[m].st \in NotSent
  BY <1>1, <1>2 DEF Raised, Row, SentStatus, NotSent
<1>3. ASSUME NEW q \in Msgs, NEW i, Confirmed(q, i)[m].st \in NotSent
      PROVE  out[m].st \in NotSent
  BY <1>1, <1>3 DEF Confirmed, Row, NotSent
<1>4. \A q \in Msgs : \A st : Marked(q, st)[m] = IF q = m THEN [out[m] EXCEPT !.st = st] ELSE out[m]
  BY <1>1 DEF Marked
<1> QED BY <1>2, <1>3, <1>4

LEMMA ReconcileOnce ==
    ASSUME OutboxTypeOK, NEW m \in Msgs, m \notin raced', OnceFor(m),
           NEW t \in rec.todo, ReconcileOne(t)
    PROVE  OnceFor(m)'
<1>1. /\ UNCHANGED <<docs, down>> /\ out \in [Msgs -> Row]
      /\ t.msg \in Msgs /\ rec.status[t.msg] \in SentStatus
  BY TypeParts DEF ReconcileOne, KeepSync, storeVars, RowsTypeOK, MemoryTypeOK, Reconcile,
     ReconcileState
<1>2. UNCHANGED up => Quiet(m)
  BY <1>1, SameHasNoMore DEF Quiet
<1>3. CASE TakeServerId(t.msg)
  <2>1. UNCHANGED up
    BY <1>3 DEF TakeServerId
  <2>2. \/ out' = Confirmed(t.msg, rec.found[t.msg])
        \/ out' = [Confirmed(t.msg, rec.found[t.msg]) EXCEPT ![t.msg].st = rec.status[t.msg]]
    BY <1>3 DEF TakeServerId
  <2>3. out'[m].st \in NotSent => Confirmed(t.msg, rec.found[t.msg])[m].st \in NotSent
    <3> DEFINE confirmed == Confirmed(t.msg, rec.found[t.msg])
    <3>1. DOMAIN confirmed = Msgs /\ DOMAIN confirmed[m] = {"st", "id"}
      BY <1>1 DEF Confirmed, Row
    <3> HIDE DEF confirmed
    <3>2. out' = confirmed \/ out' = [confirmed EXCEPT ![t.msg].st = rec.status[t.msg]]
      BY <2>2 DEF confirmed
    <3>3. out'[m].st \in {confirmed[m].st, rec.status[t.msg]}
      BY <3>1, <3>2
    <3> QED BY <1>1, <3>3 DEF confirmed, SentStatus, NotSent
  <2> QED BY <1>1, <1>2, <2>1, <2>3, WrittenIsSent, QuietOnce
<1>4. CASE GiveUp(t.msg, t.id)
  <2>1. UNCHANGED up /\ (m # t.msg => out'[m] = out[m])
    BY <1>1, <1>4, WrittenIsSent DEF GiveUp
  <2>2. m = t.msg => Nowhere(m)
    BY <1>4, FreshIsNowhere DEF GiveUp
  <2> QED BY <1>2, <2>1, <2>2, QuietOnce
<1>5. CASE SendAgain(t.msg)
  <2>1. m = t.msg => Nowhere(m) /\ out[m].st = "sending"
    BY <1>5, FreshIsNowhere DEF SendAgain
  <2>2. CASE UNCHANGED up /\ (m # t.msg => out'[m] = out[m])
    BY <1>2, <2>1, <2>2, QuietOnce
  <2>3. CASE Transmit(t.msg) /\ UNCHANGED out
    <3>1. PICK s \in Regs :
            up' = IF authed THEN [up EXCEPT ![socket] = Append(@, [msg |-> t.msg, reg |-> s])]
                  ELSE up
      BY <2>3 DEF Transmit
    <3>2. CASE m # t.msg
      <4>1. Quiet(m)
        BY <1>1, <3>1, <3>2, TransmitOnce, SameHasNoMore DEF Quiet
      <4> QED BY <2>3, <4>1, QuietOnce
    <3>3. CASE m = t.msg
      <4>1. OnePlace(m)'
        BY <1>1, <2>1, <3>1, <3>3, TransmitOnce DEF Nowhere, Unrefused
      <4> QED BY <2>1, <2>3, <3>3, <4>1 DEF OnceFor, NotSent
    <3> QED BY <3>2, <3>3
  <2>4. (UNCHANGED up /\ (m # t.msg => out'[m] = out[m])) \/ (Transmit(t.msg) /\ UNCHANGED out)
    BY <1>1, <1>5 DEF SendAgain, Marked
  <2> QED BY <2>2, <2>3, <2>4
<1>6. TakeServerId(t.msg) \/ GiveUp(t.msg, t.id) \/ SendAgain(t.msg)
  BY DEF ReconcileOne
<1> QED BY <1>3, <1>4, <1>5, <1>6

\* The user sends a message that is nowhere, for the first time or again.
LEMMA UserOnce ==
    ASSUME OutboxTypeOK, NEW m \in Msgs, OnceFor(m), NEW q \in Msgs,
           SendText(q) \/ RetryMessage(q) \/ DeleteMessage(q)
    PROVE  OnceFor(m)'
<1>1. /\ UNCHANGED <<docs, down>> /\ out \in [Msgs -> Row]
      /\ q # m => out'[m] = out[m]
  <2>1. UNCHANGED <<docs, down>> /\ out \in [Msgs -> Row]
    BY TypeParts DEF SendText, RetryMessage, DeleteMessage, storeVars, socketVars, RowsTypeOK
  <2>2. q # m => out'[m] = out[m]
    BY <2>1 DEF SendText, RetryMessage, DeleteMessage, Marked
  <2> QED BY <2>1, <2>2
<1>2. out[q].st \in NotSent
  BY DEF SendText, RetryMessage, DeleteMessage, NotSent
<1>3. CASE UNCHANGED up
  <2>1. Quiet(m)
    BY <1>1, <1>3, SameHasNoMore DEF Quiet
  <2> QED BY <1>1, <1>2, <2>1, QuietOnce
<1>4. CASE Transmit(q) /\ out' = Marked(q, "sending")
  <2>1. PICK s \in Regs :
          up' = IF authed THEN [up EXCEPT ![socket] = Append(@, [msg |-> q, reg |-> s])] ELSE up
    BY <1>4 DEF Transmit
  <2>2. CASE m # q
    <3>1. Quiet(m)
      BY <1>1, <2>1, <2>2, TransmitOnce, SameHasNoMore DEF Quiet
    <3> QED BY <1>1, <2>2, <3>1, QuietOnce
  <2>3. CASE m = q
    <3>1. Nowhere(m)
      BY <1>2, <2>3 DEF OnceFor
    <3>2. OnePlace(m)'
      BY <1>1, <2>1, <2>3, <3>1, TransmitOnce DEF Nowhere, Unrefused
    <3>3. out'[m].st = "sending"
      BY <1>1, <1>4, <2>3 DEF Marked, Row
    <3> QED BY <3>2, <3>3 DEF OnceFor, NotSent
  <2> QED BY <2>2, <2>3
<1> QED BY <1>3, <1>4 DEF SendText, RetryMessage, DeleteMessage, socketVars

\* A cut connection loses frames and brings none.
LEMMA CutHasNoMore ==
    ASSUME OutboxTypeOK
    PROVE  /\ CutUp => \A X : \A c \in Conns : NoMoreOf(X, up[c], up'[c])
           /\ CutDown => \A X : NoMoreOf(X, down, down')
<1>1. ASSUME CutUp, NEW X, NEW c \in Conns PROVE NoMoreOf(X, up[c], up'[c])
  <2>1. up \in [Conns -> Seq(UpFrame)]
    BY TypeParts DEF FramesTypeOK
  <2>2. PICK n \in 0..Len(up[socket]) : up' = [up EXCEPT ![socket] = SubSeq(@, 1, n)]
    BY <1>1 DEF CutUp
  <2>3. CASE c = socket
    <3>1. up'[c] = SubSeq(up[c], 1, n) /\ up[c] \in Seq(UpFrame) /\ n \in 0..Len(up[c])
      BY <2>1, <2>2, <2>3
    <3> QED BY <3>1, PrefixHasNoMore
  <2>4. CASE c # socket
    BY <2>1, <2>2, <2>4, SameHasNoMore
  <2> QED BY <2>3, <2>4
<1>2. ASSUME CutDown, NEW X PROVE NoMoreOf(X, down, down')
  <2>1. down \in Seq(DownFrame)
    BY TypeParts DEF FramesTypeOK
  <2>2. PICK n \in 0..Len(down) : down' = SubSeq(down, 1, n)
    BY <1>2 DEF CutDown
  <2> QED BY <2>1, <2>2, PrefixHasNoMore
<1> QED BY <1>1, <1>2

LEMMA CutOnce ==
    ASSUME OutboxTypeOK, NEW m \in Msgs, OnceFor(m), Drop \/ Crash \/ ServerCrash
    PROVE  OnceFor(m)'
<1>1. UNCHANGED <<docs, out>>
  BY DEF Drop, Crash, ServerCrash, storeVars
<1>2. \A X, s : NoMoreOf(X, s, << >>)
  BY EmptyHasNone DEF NoMoreOf
<1>3. \A c \in Conns : NoMoreOf(SendsOf(m), up[c], up'[c])
  <2>1. (Drop \/ Crash) => CutUp \/ UNCHANGED up
    BY DEF Drop, Crash
  <2>2. ServerCrash => \A c \in Conns : up'[c] = << >>
    BY DEF ServerCrash
  <2> QED BY <1>2, <2>1, <2>2, CutHasNoMore, SameHasNoMore
<1>4. NoMoreOf(RefusalsOf(m), down, down')
  <2>1. Drop \/ ServerCrash => CutDown
    BY DEF Drop, ServerCrash
  <2>2. Crash => down' = << >>
    BY DEF Crash
  <2> QED BY <1>2, <2>1, <2>2, CutHasNoMore
<1>5. Quiet(m)
  BY <1>1, <1>3, <1>4 DEF Quiet
<1> QED BY <1>1, <1>5, QuietOnce

\* The server tells the phone of something else.
LEMMA ServerOnce ==
    ASSUME OutboxTypeOK, Running, NEW m \in Msgs, OnceFor(m),
           \/ \E c \in Conns : Reply(c) \/ HandlerFails(c)
           \/ \E i \in Stored : PeerAcks(i) \/ PeerReads(i)
           \/ PeerReinstalls \/ Unlink
    PROVE  OnceFor(m)'
<1> USE TypeParts
<1>1. UNCHANGED <<docs, out>>
  BY DEF Reply, HandlerFails, PeerAcks, PeerReads, PeerReinstalls, Unlink, Keep, Emitted, storeVars
<1>2. ASSUME NEW f \in DownFrame, f.kind # "error",
             Notify(f) \/ (\E c \in Conns : ReplyOn(c, f)) \/ UNCHANGED down
      PROVE  NoMoreOf(RefusalsOf(m), down, down')
  BY <1>2, OtherFrame DEF RefusalsOf
<1>3. NoMoreOf(RefusalsOf(m), down, down')
  <2>1. ASSUME NEW c \in Conns, Reply(c) PROVE NoMoreOf(RefusalsOf(m), down, down')
    <3> DEFINE f == [kind |-> "sent", msg |-> docs[handling[c]].msg, id |-> handling[c]]
    <3>1. handling[c] \in Ids /\ docs[handling[c]] \in Doc
      BY <2>1, StoredAre DEF Reply, Running, StoreTypeOK, Stored
    <3>2. f \in DownFrame /\ f.kind # "error" /\ ReplyOn(c, f)
      BY <2>1, <3>1, Frames DEF Reply, Doc
    <3> HIDE DEF f
    <3> QED BY <1>2, <3>2
  <2>2. ASSUME NEW i \in Stored, PeerAcks(i) PROVE NoMoreOf(RefusalsOf(m), down, down')
    <3> DEFINE f == [kind |-> "status", ids |-> {i}, status |-> "delivered"]
    <3>1. f \in DownFrame /\ f.kind # "error" /\ (Notify(f) \/ UNCHANGED down)
      BY <2>2, StoredAre, Frames DEF PeerAcks, SentStatus
    <3> HIDE DEF f
    <3> QED BY <1>2, <3>1
  <2>3. ASSUME NEW i \in Stored, PeerReads(i) PROVE NoMoreOf(RefusalsOf(m), down, down')
    <3> DEFINE seen == {j \in Stored \ read : j <= i}
               f == [kind |-> "status", ids |-> seen, status |-> "read"]
    <3>1. seen \in SUBSET Ids /\ Notify(f)
      BY <2>3, StoredAre DEF PeerReads
    <3> HIDE DEF seen
    <3>2. f \in DownFrame /\ f.kind # "error"
      BY <3>1, Frames DEF SentStatus
    <3> HIDE DEF f
    <3> QED BY <1>2, <3>1, <3>2
  <2>4. CASE PeerReinstalls
    <3> DEFINE f == [kind |-> "identity_changed"]
    <3>1. f \in DownFrame /\ f.kind # "error" /\ Notify(f)
      BY <2>4, Frames DEF PeerReinstalls
    <3> HIDE DEF f
    <3> QED BY <1>2, <3>1
  <2>5. Unlink \/ (\E c \in Conns : HandlerFails(c)) => UNCHANGED down
    BY DEF Unlink, HandlerFails
  <2> QED BY <2>1, <2>2, <2>3, <2>4, <2>5, SameHasNoMore
<1>4. \A c \in Conns : NoMoreOf(SendsOf(m), up[c], up'[c])
  <2>1. ASSUME NEW c \in Conns, HandlerFails(c)
        PROVE  UNCHANGED up \/ (up[c] # << >> /\ up' = [up EXCEPT ![c] = Tail(@)])
    BY <2>1 DEF HandlerFails
  <2>2. \/ \E c \in Conns : HandlerFails(c)
        \/ UNCHANGED up
    BY DEF Reply, PeerAcks, PeerReads, PeerReinstalls, Unlink
  <2> QED BY <2>1, <2>2, TakenHasNoMore, SameHasNoMore
<1>5. Quiet(m)
  BY <1>1, <1>3, <1>4 DEF Quiet
<1> QED BY <1>1, <1>5, QuietOnce

\* The phone learns of something else, or writes its rows.
LEMMA PhoneOnce ==
    ASSUME OutboxTypeOK, NEW m \in Msgs, OnceFor(m),
           \/ HandleRegistered \/ HandleSent \/ HandleStatus \/ HandleIdentityChanged
           \/ \E task \in confirming : ConfirmSent(task)
           \/ StartReconcile \/ FetchHistory \/ Connect
           \/ SyncConversation \/ SyncFails \/ FetchHistoryFails \/ UNCHANGED outboxVars
    PROVE  OnceFor(m)'
<1> USE TypeParts
<1>1. UNCHANGED <<docs, up>>
  BY DEF HandleRegistered, HandleSent, HandleStatus, HandleIdentityChanged, ConfirmSent,
     StartReconcile, FetchHistory, Connect, SyncConversation, SyncFails, FetchHistoryFails,
     KeepSync,
     outboxVars, storeVars, socketVars
<1>2. NoMoreOf(RefusalsOf(m), down, down')
  <2>1. ASSUME NEW kind, Receive(kind) PROVE NoMoreOf(RefusalsOf(m), down, down')
    BY <2>1, TailHasNoMore DEF Receive, FramesTypeOK
  <2>2. ASSUME Connect PROVE NoMoreOf(RefusalsOf(m), down, down')
    <3>1. /\ down = << >> /\ down \in Seq(DownFrame)
          /\ down' = Append(down, [kind |-> "registered"])
      BY <2>2 DEF Connect
    <3>2. [kind |-> "registered"] \in DownFrame /\ [kind |-> "registered"] \notin RefusalsOf(m)
      BY Frames DEF RefusalsOf
    <3> QED BY <3>1, <3>2, AppendHasNoMore
  <2>3. \/ Receive("registered") \/ Receive("sent") \/ Receive("status")
        \/ Receive("identity_changed") \/ Connect \/ UNCHANGED down
    BY DEF HandleRegistered, HandleSent, HandleStatus, HandleIdentityChanged, ConfirmSent,
       StartReconcile, FetchHistory, SyncConversation, SyncFails, FetchHistoryFails, KeepSync,
       outboxVars, socketVars
  <2> QED BY <2>1, <2>2, <2>3, SameHasNoMore
<1>3. out'[m].st \in NotSent => out[m].st \in NotSent
  <2>1. CASE HandleSent \/ HandleStatus
    <3>1. PICK ids \in SUBSET Ids, st \in SentStatus : out' = Raised(ids, st)
      BY <2>1, ReceivedType, FrameFields DEF HandleSent, HandleStatus, SentStatus
    <3> QED BY <3>1, WrittenIsSent
  <2>2. ASSUME NEW task \in confirming, ConfirmSent(task)
        PROVE  out'[m].st \in NotSent => out[m].st \in NotSent
    <3>1. task.msg \in Msgs /\ out' = Confirmed(task.msg, task.id)
      BY <2>2 DEF ConfirmSent, MemoryTypeOK
    <3> QED BY <3>1, WrittenIsSent
  <2>3. CASE SyncConversation
    BY <2>3 DEF SyncConversation, ServerStatus, NotSent, RowsTypeOK, Row
  <2>4. \/ HandleSent \/ HandleStatus \/ \E task \in confirming : ConfirmSent(task)
        \/ SyncConversation \/ out' = out
    BY DEF HandleRegistered, HandleIdentityChanged, StartReconcile, FetchHistory, Connect,
       SyncFails,
       FetchHistoryFails, outboxVars
  <2> QED BY <2>1, <2>2, <2>3, <2>4
<1>4. Quiet(m)
  BY <1>1, <1>2, SameHasNoMore DEF Quiet
<1> QED BY <1>3, <1>4, QuietOnce

LEMMA OnceStep ==
    ASSUME OutboxTypeOK, Running, Once, [OutboxNext]_outboxVars
    PROVE  Once'
<1> SUFFICES ASSUME NEW m \in Msgs, m \notin raced' PROVE OnceFor(m)'
  BY DEF Once
<1>1. raced \subseteq raced'
  <2>1. ServerStep \/ PhoneStep => raced \subseteq raced'
    BY DEF ServerStep, Reject, Accept, Reply, Keep, PhoneStep, HandleRegistered, HandleSent,
       HandleStatus, HandleIdentityChanged, HandleError, ConfirmSent, StartReconcile, FetchHistory,
       ReconcileOne, TakeServerId, GiveUp, SendAgain, Connect
  <2>2. Environment \/ UNCHANGED outboxVars => UNCHANGED raced
    BY DEF Environment, SendText, RetryMessage, DeleteMessage, SyncConversation, PeerAcks,
       PeerReads,
       PeerReinstalls, Unlink, HandlerFails, SyncFails, FetchHistoryFails, Drop, Crash, ServerCrash,
       Keep, outboxVars
  <2> QED BY <2>1, <2>2 DEF OutboxNext
<1>2. OnceFor(m)
  BY <1>1 DEF Once
<1>3. CASE ServerStep
  BY <1>2, <1>3, RejectOnce, AcceptOnce, ServerOnce DEF ServerStep
<1>4. CASE PhoneStep
  BY <1>2, <1>4, PhoneOnce, ErrorOnce, ReconcileOnce DEF PhoneStep
<1>5. CASE Environment
  BY <1>2, <1>5, UserOnce, PhoneOnce, ServerOnce, CutOnce DEF Environment
<1>6. CASE UNCHANGED outboxVars
  BY <1>2, <1>6, PhoneOnce
<1> QED BY <1>3, <1>4, <1>5, <1>6 DEF OutboxNext

LEMMA InitOnce == OutboxInit => Once
<1> SUFFICES ASSUME OutboxInit, NEW m \in Msgs PROVE OnceFor(m)
  BY DEF Once
<1>1. Copies(m) = {}
  BY DEF OutboxInit, StoreInit, Copies, Stored
<1>2. Unsent(m) /\ Unrefused(m)
  BY EmptyHasNone DEF OutboxInit, Unsent, Unrefused
<1> QED BY <1>1, <1>2, NowhereIsOne DEF OnceFor, Nowhere

LEMMA OnceInductive == OutboxSpec => [](OutboxTypeOK /\ Running /\ Truth /\ Once)
<1> DEFINE Inv == OutboxTypeOK /\ Running /\ Truth /\ Once
<1>1. OutboxInit => Inv
  BY InitType, InitTruth, InitOnce DEF OutboxInit, Running
<1>2. Inv /\ [OutboxNext]_outboxVars => Inv'
  BY StepType, StepRunning, StepGrows, RowsStep, FramesStep, TasksStep, AnswerStep, OnceStep
     DEF Truth
<1> QED BY <1>1, <1>2, PTL DEF OutboxSpec

(***************************************************************************)
(* No message is stored twice, however sends, refusals, key changes, the   *)
(* user's retries and restarts follow one another, unless reconcileOutbox  *)
(* sent or gave up the message on a stale snapshot or answer.              *)
(***************************************************************************)
THEOREM OutboxStoresOnce == OutboxSpec => []StoredOnceUnlessRaced
<1>1. Once => StoredOnceUnlessRaced
  <2> SUFFICES ASSUME Once, NEW m \in Msgs, m \notin raced PROVE Cardinality(Copies(m)) <= 1
    BY DEF StoredOnceUnlessRaced
  <2>1. \A i, j \in Copies(m) : i = j
    BY DEF Once, OnceFor, OnePlace
  <2>2. CASE Copies(m) = {}
    BY <2>2, FS_EmptySet
  <2>3. ASSUME NEW i \in Copies(m) PROVE Cardinality(Copies(m)) <= 1
    <3>1. Copies(m) = {i}
      BY <2>1
    <3>2. Cardinality({i}) = 1
      BY FS_Singleton
    <3> QED BY <3>1, <3>2
  <2> QED BY <2>2, <2>3
<1> QED BY <1>1, OnceInductive, PTL

(***************************************************************************)
(* What the chat shows as failed, or the user deleted as failed, was not   *)
(* stored for the recipient, with the same exception.                      *)
(***************************************************************************)
THEOREM OutboxFailedIsNotStored == OutboxSpec => []FailedIsNotStored
<1>1. Once => FailedIsNotStored
  BY DEF Once, OnceFor, Nowhere, NotSent, FailedIsNotStored
<1> QED BY <1>1, OnceInductive, PTL

\* How a row that was confirmed may change, unless it is marked.
LEMMA ForwardOnly ==
    ASSUME OutboxTypeOK, NEW m \in Msgs, out[m].st \in SentStatus
    PROVE  /\ \A ids : \A st \in SentStatus : Rank[Raised(ids, st)[m].st] >= Rank[out[m].st]
           /\ \A q \in Msgs : \A i : Confirmed(q, i)[m].st = out[m].st
           /\ Rank[out[m].st] \in Nat
<1>1. out \in [Msgs -> Row]
  BY TypeParts DEF RowsTypeOK
<1>2. \A st \in SentStatus : Rank[st] \in Nat
  BY DEF SentStatus, Rank
<1>3. ASSUME NEW ids, NEW st \in SentStatus
      PROVE  Rank[Raised(ids, st)[m].st] >= Rank[out[m].st]
  <2>1. Raised(ids, st)[m] = IF out[m].id \in ids /\ Rank[out[m].st] < Rank[st]
                             THEN [out[m] EXCEPT !.st = st] ELSE out[m]
    BY DEF Raised
  <2>2. out[m].id \in ids /\ Rank[out[m].st] < Rank[st] => Raised(ids, st)[m].st = st
    BY <1>1, <2>1 DEF Row
  <2>3. Rank[st] \in Nat /\ Rank[out[m].st] \in Nat
    BY <1>2
  <2> QED BY <2>1, <2>2, <2>3
<1>4. \A q \in Msgs : \A i : Confirmed(q, i)[m].st = out[m].st
  BY <1>1 DEF Confirmed, Row, SentStatus
<1> QED BY <1>2, <1>3, <1>4

LEMMA NeverBackStep ==
    ASSUME OutboxTypeOK, Truth, Once, [OutboxNext]_outboxVars,
           NEW m \in Msgs, out[m].st \in SentStatus, m \notin raced'
    PROVE  Rank[out'[m].st] >= Rank[out[m].st]
<1> USE TypeParts
<1>1. /\ out \in [Msgs -> Row] /\ out[m].st \notin {"none", "failed", "deleted", "sending"}
      /\ Rank[out[m].st] \in Nat
  BY ForwardOnly DEF RowsTypeOK, SentStatus
<1>2. CASE out'[m] = out[m]
  BY <1>1, <1>2
<1>3. Stale(m)
  BY <1>1 DEF Stale
<1>4. CASE HandleSent \/ HandleStatus
  <2>1. PICK ids \in SUBSET Ids, st \in SentStatus : out' = Raised(ids, st)
    BY <1>4, ReceivedType, FrameFields DEF HandleSent, HandleStatus, SentStatus
  <2> QED BY <2>1, ForwardOnly
<1>5. ASSUME NEW task \in confirming, ConfirmSent(task) PROVE Rank[out'[m].st] >= Rank[out[m].st]
  <2>1. task.msg \in Msgs /\ out' = Confirmed(task.msg, task.id)
    BY <1>5 DEF ConfirmSent, MemoryTypeOK
  <2> QED BY <1>1, <2>1, ForwardOnly
<1>6. CASE HandleError
  <2>1. /\ Head(down) \in DownFrame /\ Head(down).kind = "error" /\ Head(down).msg \in Msgs
        /\ down \in Seq(DownFrame) /\ down # << >>
        /\ out' = out \/ out' = Marked(Head(down).msg, "failed")
        /\ UNCHANGED raced
    BY <1>6, ReceivedType, FrameFields DEF HandleError, FramesTypeOK
  <2>2. Copies(m) # {}
    BY DEF Truth, RowsAreTrue, RowIsTrue, IsCopy, Copies
  <2>3. Unrefused(m)
    BY <2>1, <2>2 DEF Once, OnceFor, OnePlace
  <2>4. Head(down).msg # m
    BY <2>1, <2>3, TailHasNoMore DEF Unrefused, RefusalsOf
  <2>5. out'[m] = out[m]
    BY <1>1, <2>1, <2>4 DEF Marked
  <2> QED BY <1>2, <2>5
<1>7. ASSUME NEW t \in rec.todo, ReconcileOne(t) PROVE Rank[out'[m].st] >= Rank[out[m].st]
  <2>1. t.msg \in Msgs /\ rec.status[t.msg] \in SentStatus
    BY DEF MemoryTypeOK, Reconcile, ReconcileState
  <2>2. CASE TakeServerId(t.msg)
    <3> DEFINE confirmed == Confirmed(t.msg, rec.found[t.msg])
    <3>1. \/ out' = confirmed
          \/ /\ Rank[confirmed[t.msg].st] < Rank[rec.status[t.msg]]
             /\ out' = [confirmed EXCEPT ![t.msg].st = rec.status[t.msg]]
      BY <2>2 DEF TakeServerId
    <3>2. DOMAIN confirmed = Msgs /\ DOMAIN confirmed[m] = {"st", "id"}
          /\ confirmed[m].st = out[m].st
      BY <1>1, <2>1, ForwardOnly DEF Confirmed, Row
    <3> HIDE DEF confirmed
    <3>3. \/ out'[m].st = out[m].st
          \/ out'[m].st = rec.status[t.msg] /\ Rank[out[m].st] < Rank[rec.status[t.msg]]
      BY <3>1, <3>2
    <3>4. Rank[rec.status[t.msg]] \in Nat
      BY <2>1 DEF SentStatus, Rank
    <3> QED BY <1>1, <3>3, <3>4
  <2>3. CASE GiveUp(t.msg, t.id) \/ SendAgain(t.msg)
    <3>1. t.msg # m
      BY <1>3, <2>3 DEF GiveUp, SendAgain
    <3>2. out' = out \/ out' = Marked(t.msg, "failed")
      BY <2>3 DEF GiveUp, SendAgain
    <3>3. out'[m] = out[m]
      BY <1>1, <3>1, <3>2 DEF Marked
    <3> QED BY <1>2, <3>3
  <2>4. TakeServerId(t.msg) \/ GiveUp(t.msg, t.id) \/ SendAgain(t.msg)
    BY <1>7 DEF ReconcileOne
  <2> QED BY <2>2, <2>3, <2>4
<1>8. CASE SyncConversation
  <2> DEFINE shown == ServerStatus(out[m].id)
  <2>1. \/ out'[m].st = out[m].st
        \/ out'[m].st = shown /\ Rank[out[m].st] < Rank[shown]
    BY <1>1, <1>8 DEF SyncConversation, Row
  <2>2. Rank[shown] \in Nat
    BY DEF ServerStatus, Rank
  <2> QED BY <1>1, <2>1, <2>2
<1>9. ASSUME NEW q \in Msgs, SendText(q) \/ RetryMessage(q) \/ DeleteMessage(q)
      PROVE  Rank[out'[m].st] >= Rank[out[m].st]
  <2>1. q # m
    BY <1>1, <1>9 DEF SendText, RetryMessage, DeleteMessage
  <2>2. out'[m] = out[m]
    BY <1>1, <1>9, <2>1 DEF SendText, RetryMessage, DeleteMessage, Marked
  <2> QED BY <1>2, <2>2
<1>10. ServerStep => out' = out
  BY DEF ServerStep, Reject, Accept, Reply, Keep
<1>11. CASE PhoneStep
  <2>1. HandleRegistered \/ HandleIdentityChanged \/ StartReconcile \/ FetchHistory \/ Connect
          => out' = out
    BY DEF HandleRegistered, HandleIdentityChanged, StartReconcile, FetchHistory, Connect
  <2> QED BY <1>2, <1>4, <1>5, <1>6, <1>7, <1>11, <2>1 DEF PhoneStep
<1>12. CASE Environment
  <2>1. ASSUME \/ \E i \in Stored : PeerAcks(i) \/ PeerReads(i)
               \/ PeerReinstalls \/ Unlink \/ \E c \in Conns : HandlerFails(c)
               \/ SyncFails \/ FetchHistoryFails \/ Drop \/ Crash \/ ServerCrash
        PROVE  out' = out
    BY <2>1 DEF PeerAcks, PeerReads, PeerReinstalls, Unlink, HandlerFails, Keep, SyncFails,
       FetchHistoryFails, Drop, Crash, ServerCrash
  <2> QED BY <1>2, <1>8, <1>9, <1>12, <2>1 DEF Environment
<1>13. UNCHANGED outboxVars => out' = out
  BY DEF outboxVars
<1> QED BY <1>2, <1>10, <1>11, <1>12, <1>13 DEF OutboxNext

(***************************************************************************)
(* A confirmed message's status never goes back: a late 'sent', a stale    *)
(* history answer or a refusal on its way cannot undo what the row shows,  *)
(* for there is no refusal of a message that is stored.                    *)
(***************************************************************************)
THEOREM OutboxStatusNeverBack == OutboxSpec => StatusNeverBack
<1> DEFINE Inv == OutboxTypeOK /\ Running /\ Truth /\ Once
           Forward == \A m \in Msgs : out[m].st \in SentStatus /\ m \notin raced'
                          => Rank[out'[m].st] >= Rank[out[m].st]
<1>1. Inv /\ [OutboxNext]_outboxVars => [Forward]_outboxVars
  BY NeverBackStep
<1>2. OutboxSpec => []Inv
  BY OnceInductive
<1>3. OutboxSpec => [][Forward]_outboxVars
  BY <1>1, <1>2, PTL DEF OutboxSpec
<1> QED BY <1>3 DEF StatusNeverBack
=============================================================================
