-------------------------- MODULE PeerTrustProofs --------------------------
(***************************************************************************)
(* Theorems about PeerTrust, for every number of installs, sessions,       *)
(* messages under way and archived sessions, and about the parts of a      *)
(* phone together (MC_Phone).                                              *)
(***************************************************************************)
EXTENDS MC_Phone, PhoneProofs, FiniteSetTheorems, SequenceTheorems, TLAPS

\* Cutting a sequence, and taking an element out, leave a sequence of its elements.
LEMMA FirstsIsSeq ==
    ASSUME NEW S, NEW q \in Seq(S), NEW n \in Nat
    PROVE  Firsts(q, n) \in Seq(S) /\ Len(Firsts(q, n)) <= n
<1> DEFINE m == IF Len(q) < n THEN Len(q) ELSE n
<1>1. m \in 0..Len(q) /\ m <= n
  BY LenProperties
<1>2. SubSeq(q, 1, m) \in Seq(S) /\ Len(SubSeq(q, 1, m)) = m
  BY <1>1, SubSeqProperties, LenProperties
<1> QED BY <1>1, <1>2 DEF Firsts

LEMMA WithoutIsSeq ==
    ASSUME NEW S, NEW q \in Seq(S), NEW s
    PROVE  Without(q, s) \in Seq(S)
<1>1. CASE \E k \in DOMAIN q : q[k] = s
  <2> DEFINE k == CHOOSE k \in DOMAIN q : q[k] = s
  <2>1. k \in 1..Len(q)
    BY <1>1, LenProperties
  <2> HIDE DEF k
  <2>2. SubSeq(q, 1, k - 1) \in Seq(S) /\ SubSeq(q, k + 1, Len(q)) \in Seq(S)
    <3>1. \A i \in 1..Len(q) : q[i] \in S
      BY ElementOfSeq
    <3> QED BY <2>1, <3>1, LenProperties, SubSeqProperties
  <2>3. SubSeq(q, 1, k - 1) \o SubSeq(q, k + 1, Len(q)) \in Seq(S)
    BY <2>2, ConcatProperties
  <2>4. Without(q, s) = SubSeq(q, 1, k - 1) \o SubSeq(q, k + 1, Len(q))
    BY <1>1, Zenon DEF Without, k
  <2> QED BY <2>3, <2>4
<1>2. CASE ~ \E k \in DOMAIN q : q[k] = s
  BY <1>2 DEF Without
<1> QED BY <1>1, <1>2

LEMMA HeldIsSeq ==
    ASSUME NEW S, archived \in Seq(S), active \in S \cup {None}
    PROVE  Held \in Seq(S)
<1>1. CASE active = None
  BY <1>1, EmptySeq, ConcatProperties, ConcatEmptySeq DEF Held
<1>2. CASE active # None
  <2>1. <<active>> \in Seq(S)
    BY <1>2
  <2> QED BY <1>2, <2>1, ConcatProperties DEF Held
<1> QED BY <1>1, <1>2

\* The two ways the session record changes keep it a record over a set S.
LEMMA ArchiveKeepsRecord ==
    ASSUME NEW S, archived \in Seq(S), active \in S \cup {None}, MaxArchived \in Nat,
           Len(archived) <= MaxArchived, Archive
    PROVE  /\ active' \in S \cup {None} /\ archived' \in Seq(S)
           /\ Len(archived') <= MaxArchived
BY HeldIsSeq, FirstsIsSeq DEF Archive

LEMMA ActivateKeepsRecord ==
    ASSUME NEW S, archived \in Seq(S), active \in S \cup {None}, MaxArchived \in Nat,
           NEW s \in S, Activate(s)
    PROVE  /\ active' \in S /\ archived' \in Seq(S) /\ Len(archived') <= MaxArchived
<1>1. Without(Held, s) \in Seq(S)
  BY HeldIsSeq, WithoutIsSeq
<1> QED BY <1>1, FirstsIsSeq DEF Activate

\* trustIdentity keeps the row and its history well typed.
LEMMA TrustsIsTyped ==
    ASSUME TypeOK, NEW k \in Installs, Trusts(k)
    PROVE  /\ trust' \in [id : 0..MaxInst, verified : BOOLEAN, needsAck : BOOLEAN]
           /\ newest' \in 0..MaxInst
           /\ owed' \in BOOLEAN /\ again' \in BOOLEAN /\ late' \in BOOLEAN
<1> USE TrustAssumption DEF TypeOK, Installs
<1>1. trust' \in [id : 0..MaxInst, verified : BOOLEAN, needsAck : BOOLEAN]
  BY DEF Trusts
<1>2. newest' \in 0..MaxInst
  BY DEF Trusts
<1>3. owed' \in BOOLEAN /\ again' \in BOOLEAN /\ late' \in BOOLEAN
  BY DEF Trusts
<1> QED BY <1>1, <1>2, <1>3

LEMMA InitType == Init => TypeOK
<1> SUFFICES ASSUME Init PROVE TypeOK OBVIOUS
<1>1. under \in Seq(Installs) /\ archived \in Seq(opened) /\ Len(under) = 0 /\ Len(archived) = 0
  BY EmptySeq DEF Init
<1>2. trust \in [id : 0..MaxInst, verified : BOOLEAN, needsAck : BOOLEAN]
  BY TrustAssumption DEF Init
<1>3. start \in Starting
  BY TrustAssumption DEF Init, Starting, Idle
<1>4. inst \in Installs /\ newest \in 0..MaxInst /\ active \in opened \cup {None}
  BY TrustAssumption DEF Init, Installs
<1>5. Len(under) <= MaxSess /\ Len(archived) <= MaxArchived
  BY <1>1, TrustAssumption
<1>6. /\ ours \subseteq Known /\ opened \subseteq Known /\ incoming \subseteq Incoming
      /\ outgoing \subseteq Outgoing /\ accepted \subseteq Outgoing
      /\ owed \in BOOLEAN /\ again \in BOOLEAN /\ late \in BOOLEAN
  BY DEF Init
<1> QED BY <1>1, <1>2, <1>3, <1>4, <1>5, <1>6 DEF TypeOK

\* The sessions of the model are the positions of `under`.
LEMMA KnownSessions ==
    ASSUME TypeOK
    PROVE  /\ Known = 1..Len(under) /\ Len(under) \in Nat
           /\ Known \subseteq Sessions
           /\ \A s \in Known : under[s] \in Installs
BY LenProperties, ElementOfSeq, TrustAssumption DEF TypeOK, Known, Sessions

\* A session that is started gets the next position.
LEMMA StartedSession ==
    ASSUME TypeOK, NEW k \in Installs, Len(under) < MaxSess, under' = Append(under, k)
    PROVE  /\ under' \in Seq(Installs) /\ Len(under') <= MaxSess
           /\ Known' = Known \cup {Len(under) + 1}
           /\ Len(under) + 1 \in Sessions
           /\ under'[Len(under) + 1] = k
           /\ \A s \in Known : under'[s] = under[s]
<1>1. /\ under' \in Seq(Installs) /\ Len(under') = Len(under) + 1
      /\ \A i \in 1..Len(under) : under'[i] = under[i]
      /\ under'[Len(under) + 1] = k
  BY AppendProperties DEF TypeOK
<1>2. Len(under) \in Nat /\ DOMAIN under' = 1..Len(under')
  BY <1>1, LenProperties DEF TypeOK
<1> QED BY <1>1, <1>2, KnownSessions, TrustAssumption DEF Known, Sessions

\* A message sent over a well-typed state is well typed.
LEMMA SentIsTyped ==
    ASSUME NEW s \in Sessions, NEW k \in Installs, NEW o \in BOOLEAN, outgoing \subseteq Outgoing,
           trust' \in [id : 0..MaxInst, verified : BOOLEAN, needsAck : BOOLEAN],
           owed' \in BOOLEAN, again' \in BOOLEAN, late' \in BOOLEAN, Sent(s, k, o)
    PROVE  outgoing' \subseteq Outgoing
BY DEF Sent, Outgoing

LEMMA EnvironmentType ==
    ASSUME TypeOK
    PROVE  /\ Reinstalls => TypeOK'
           /\ ContactStarts => TypeOK'
           /\ \A s \in Known : ContactWrites(s) => TypeOK'
<1>1. ASSUME Reinstalls PROVE TypeOK'
  BY <1>1, TrustAssumption DEF TypeOK, Reinstalls, Installs, history, Known, Incoming
<1>2. ASSUME ContactStarts PROVE TypeOK'
  <2>1. /\ under' \in Seq(Installs) /\ Len(under') <= MaxSess
        /\ Known' = Known \cup {Len(under) + 1}
    BY <1>2, StartedSession DEF ContactStarts, TypeOK
  <2>2. incoming' \subseteq Incoming'
    BY <1>2, <2>1 DEF TypeOK, ContactStarts, Posted, Incoming
  <2> QED BY <1>2, <2>1, <2>2 DEF TypeOK, ContactStarts, serverVars, history
<1>3. ASSUME NEW s \in Known, ContactWrites(s) PROVE TypeOK'
  <2>1. Known' = Known
    BY <1>3 DEF ContactWrites, Known
  <2>2. incoming' \subseteq Incoming'
    BY <1>3, <2>1 DEF TypeOK, ContactWrites, Posted, Incoming
  <2> QED BY <1>3, <2>1, <2>2 DEF TypeOK, ContactWrites, serverVars, history
<1> QED BY <1>1, <1>2, <1>3

LEMMA ReceivingType ==
    ASSUME TypeOK, NEW f \in incoming
    PROVE  /\ ReceivePreKey(f) => TypeOK'
           /\ ReceiveWhisper(f) => TypeOK'
           /\ ReceiveUnreadable(f) => TypeOK'
<1>0. f.sess \in Known /\ under[f.sess] \in Installs
  BY KnownSessions DEF TypeOK, Incoming
<1>1. ASSUME ReceivePreKey(f) PROVE TypeOK'
  <2>1. opened' = opened \cup {f.sess} /\ Known' = Known
    BY <1>1 DEF ReceivePreKey, Known
  <2>2. archived \in Seq(opened') /\ active \in opened' \cup {None}
    BY <2>1, SeqMonotonic DEF TypeOK
  <2>3. active' \in opened' /\ archived' \in Seq(opened') /\ Len(archived') <= MaxArchived
    BY <1>1, <2>1, <2>2, ActivateKeepsRecord, TrustAssumption DEF ReceivePreKey
  <2>4. /\ trust' \in [id : 0..MaxInst, verified : BOOLEAN, needsAck : BOOLEAN]
        /\ newest' \in 0..MaxInst
        /\ owed' \in BOOLEAN /\ again' \in BOOLEAN /\ late' \in BOOLEAN
    BY <1>0, <1>1, TrustsIsTyped DEF ReceivePreKey
  <2>5. incoming' \subseteq Incoming'
    BY <1>1, <2>1 DEF TypeOK, ReceivePreKey, Incoming
  <2> QED BY <1>0, <1>1, <2>1, <2>3, <2>4, <2>5 DEF TypeOK, ReceivePreKey, serverVars
<1>2. ASSUME ReceiveWhisper(f) PROVE TypeOK'
  <2>1. f.sess \in opened /\ Known' = Known
    BY <1>2, ElementOfSeq, LenProperties DEF TypeOK, ReceiveWhisper, Archived, Known, None, Incoming
  <2>2. active' \in opened /\ archived' \in Seq(opened) /\ Len(archived') <= MaxArchived
    BY <1>2, <2>1, ActivateKeepsRecord, TrustAssumption DEF TypeOK, ReceiveWhisper
  <2>3. incoming' \subseteq Incoming'
    BY <1>2, <2>1 DEF TypeOK, ReceiveWhisper, Incoming
  <2> QED BY <1>2, <2>1, <2>2, <2>3 DEF TypeOK, ReceiveWhisper, serverVars, history
<1>3. ASSUME ReceiveUnreadable(f) PROVE TypeOK'
  <2>1. Known' = Known
    BY <1>3 DEF ReceiveUnreadable, Known
  <2>2. incoming' \subseteq Incoming'
    BY <1>3, <2>1 DEF TypeOK, ReceiveUnreadable, Incoming
  <2> QED BY <1>3, <2>1, <2>2 DEF TypeOK, ReceiveUnreadable, serverVars, history
<1> QED BY <1>1, <1>2, <1>3

LEMMA RecordType ==
    ASSUME TypeOK
    PROVE  /\ ArchiveSession => TypeOK'
           /\ \A f \in outgoing : Refuse(f) => TypeOK'
<1>1. ASSUME Archive PROVE active' \in opened \cup {None} /\ archived' \in Seq(opened)
                           /\ Len(archived') <= MaxArchived
  BY <1>1, ArchiveKeepsRecord, TrustAssumption DEF TypeOK
<1>2. ASSUME ArchiveSession PROVE TypeOK'
  BY <1>1, <1>2 DEF TypeOK, ArchiveSession, serverVars, history, Known, Incoming
<1>3. ASSUME NEW f \in outgoing, Refuse(f) PROVE TypeOK'
  BY <1>1, <1>3 DEF TypeOK, Refuse, history, Known, Incoming
<1> QED BY <1>2, <1>3

LEMMA SendingType ==
    ASSUME TypeOK
    PROVE  /\ SendOnActive => TypeOK'
           /\ FetchBundle => TypeOK'
           /\ RecordIdentity => TypeOK'
           /\ SendOnNew => TypeOK'
           /\ AbandonStart => TypeOK'
<1>0. /\ Idle \in Starting
      /\ start.stage = "fetched"
            => start \in [stage : {"fetched"}, inst : Installs, wasVerified : BOOLEAN]
  BY DEF Idle, Starting, TypeOK
<1>1. ASSUME SendOnActive PROVE TypeOK'
  <2>1. active \in Sessions /\ under[active] \in Installs
    BY <1>1, KnownSessions DEF TypeOK, SendOnActive
  <2>2. outgoing' \subseteq Outgoing
    BY <1>1, <2>1, SentIsTyped DEF TypeOK, SendOnActive, history
  <2> QED BY <1>1, <2>2 DEF TypeOK, SendOnActive, history, Known, Incoming
<1>2. ASSUME FetchBundle PROVE TypeOK'
  <2>1. start' \in Starting
    BY <1>2, TrustAssumption DEF TypeOK, FetchBundle, Starting, Installs
  <2> QED BY <1>2, <2>1 DEF TypeOK, FetchBundle, serverVars, history, Known, Incoming
<1>3. ASSUME RecordIdentity PROVE TypeOK'
  <2>1. start.inst \in Installs
    BY <1>0, <1>3 DEF RecordIdentity
  <2> QED BY <1>0, <1>3, <2>1, TrustsIsTyped
          DEF TypeOK, RecordIdentity, serverVars, Known, Incoming
<1>4. ASSUME SendOnNew PROVE TypeOK'
  <2> DEFINE s == Len(under) + 1
  <2>1. start.inst \in Installs /\ start.wasVerified \in BOOLEAN
    BY <1>0, <1>4 DEF SendOnNew
  <2>2. /\ under' \in Seq(Installs) /\ Len(under') <= MaxSess
        /\ Known' = Known \cup {s} /\ s \in Sessions
    BY <1>4, <2>1, StartedSession DEF SendOnNew
  <2>3. opened' = opened \cup {s} /\ ours' = ours \cup {s}
    BY <1>4 DEF SendOnNew
  <2>4. archived \in Seq(opened') /\ active \in opened' \cup {None}
    BY <2>3, SeqMonotonic DEF TypeOK
  <2>5. active' \in opened' /\ archived' \in Seq(opened') /\ Len(archived') <= MaxArchived
    BY <1>4, <2>3, <2>4, ActivateKeepsRecord, TrustAssumption DEF SendOnNew
  <2>6. /\ trust' \in [id : 0..MaxInst, verified : BOOLEAN, needsAck : BOOLEAN]
        /\ newest' \in 0..MaxInst
        /\ owed' \in BOOLEAN /\ again' \in BOOLEAN /\ late' \in BOOLEAN
    BY <1>4, <2>1, TrustsIsTyped DEF SendOnNew
  <2>7. outgoing' \subseteq Outgoing
    <3>1. (trust.verified /\ ~start.wasVerified) \in BOOLEAN
      OBVIOUS
    <3>2. Sent(s, start.inst, trust.verified /\ ~start.wasVerified)
      BY <1>4 DEF SendOnNew
    <3>3. outgoing \subseteq Outgoing
      BY DEF TypeOK
    <3> QED BY <2>1, <2>2, <2>6, <3>1, <3>2, <3>3, SentIsTyped
  <2>8. incoming' \subseteq Incoming'
    BY <1>4, <2>2 DEF TypeOK, SendOnNew, Incoming
  <2>9. start' = Idle /\ inst' = inst /\ accepted' = accepted
    BY <1>4 DEF SendOnNew
  <2> QED BY <1>0, <2>2, <2>3, <2>5, <2>6, <2>7, <2>8, <2>9 DEF TypeOK
<1>5. ASSUME AbandonStart PROVE TypeOK'
  BY <1>0, <1>5 DEF TypeOK, AbandonStart, serverVars, history, Known, Incoming
<1> QED BY <1>1, <1>2, <1>3, <1>4, <1>5

LEMMA AnswerType ==
    ASSUME TypeOK
    PROVE  /\ \A f \in outgoing : Accept(f) => TypeOK'
           /\ \A f \in outgoing : Lost(f) => TypeOK'
           /\ \A v \in BOOLEAN : SetVerified(v) => TypeOK'
           /\ Acknowledge => TypeOK'
<1>1. ASSUME NEW f \in outgoing, Accept(f) PROVE TypeOK'
  BY <1>1 DEF TypeOK, Accept, history, Known, Incoming
<1>2. ASSUME NEW f \in outgoing, Lost(f) PROVE TypeOK'
  BY <1>2 DEF TypeOK, Lost, history, Known, Incoming
<1>3. ASSUME NEW v \in BOOLEAN, SetVerified(v) PROVE TypeOK'
  BY <1>3 DEF TypeOK, SetVerified, Heard, serverVars, Known, Incoming
<1>4. ASSUME Acknowledge PROVE TypeOK'
  BY <1>4 DEF TypeOK, Acknowledge, Heard, serverVars, Known, Incoming
<1> QED BY <1>1, <1>2, <1>3, <1>4

LEMMA StutterType == TypeOK /\ UNCHANGED vars => TypeOK'
BY DEF TypeOK, vars, serverVars, history, Known, Incoming

LEMMA NextType == TypeOK /\ [Next]_vars => TypeOK'
BY EnvironmentType, ReceivingType, RecordType, SendingType, AnswerType, StutterType DEF Next

(***************************************************************************)
(* Every reachable state of PeerTrust has the right types; in particular   *)
(* the record holds sessions the phone has opened, at most MaxArchived of  *)
(* them archived.                                                          *)
(***************************************************************************)
THEOREM PeerTrustTypeCorrect == Spec => []TypeOK
<1>1. Init => TypeOK
  BY InitType
<1>2. TypeOK /\ [Next]_vars => TypeOK'
  BY NextType
<1> QED BY <1>1, <1>2, PTL DEF Spec

-----------------------------------------------------------------------------
(* Accepted messages went to the trusted identity *)

\* Installs are numbered as they come. What the phone has seen of them is not
\* ahead of the contact; what it trusts is the newest it has seen, or an older
\* one became trusted late; its sessions are with installs it has seen.
Seen ==
    /\ trust.id <= newest /\ newest <= inst /\ start.inst <= inst
    /\ \A s \in Known : under[s] <= inst
    /\ \A s \in opened : under[s] <= newest

UpToDate == late \/ trust.id = newest

\* A message under way is not for a newer install than the one trusted at sending.
NotAhead == \A f \in outgoing : f.trusted <= inst /\ (f.late \/ f.to <= f.trusted)

AcceptedInv == TypeOK /\ Seen /\ UpToDate /\ NotAhead /\ AcceptedIsTrusted

\* What is needed of the types, as numbers.
LEMMA InstallNumbers ==
    ASSUME TypeOK
    PROVE  /\ inst \in Nat /\ newest \in Nat /\ trust.id \in Nat /\ start.inst \in Nat
           /\ \A s \in Known : under[s] \in Nat
           /\ \A f \in outgoing : f.to \in Nat /\ f.trusted \in Nat /\ f.late \in BOOLEAN
<1>1. \A s \in Known : under[s] \in Nat
  BY KnownSessions DEF Installs
<1>2. start.inst \in Nat
  BY DEF TypeOK, Starting, Idle, Installs
<1>3. inst \in Nat /\ newest \in Nat /\ trust.id \in Nat
  BY DEF TypeOK, Installs
<1>4. \A f \in outgoing : f.to \in Nat /\ f.trusted \in Nat /\ f.late \in BOOLEAN
  BY DEF TypeOK, Outgoing, Installs
<1> QED BY <1>1, <1>2, <1>3, <1>4

\* Trusting an install keeps `trust` current, and `newest` the newest.
LEMMA TrustsIsCurrent ==
    ASSUME TypeOK, UpToDate, NEW k \in Installs, Trusts(k)
    PROVE  /\ UpToDate' /\ newest' \in Nat /\ newest <= newest' /\ k <= newest'
           /\ newest' = newest \/ newest' = k
           /\ trust'.id \in Nat /\ trust'.id = k
<1>1. k \in Nat /\ newest \in Nat /\ trust.id \in Nat /\ k # 0
  BY InstallNumbers DEF Installs
<1>2. newest' \in Nat /\ newest <= newest' /\ k <= newest' /\ (newest' = newest \/ newest' = k)
  BY <1>1 DEF Trusts
<1>3. trust'.id = k
  BY DEF Trusts, TypeOK
<1>4. CASE k < newest
  <2>1. late'
    BY <1>4 DEF Trusts
  <2> QED BY <1>1, <1>2, <1>3, <2>1 DEF UpToDate
<1>5. CASE ~(k < newest)
  <2>1. newest' = k
    BY <1>1, <1>5 DEF Trusts
  <2> QED BY <1>1, <1>2, <1>3, <2>1 DEF UpToDate
<1> QED BY <1>4, <1>5

LEMMA AcceptedInit == Init => AcceptedInv
<1> SUFFICES ASSUME Init PROVE AcceptedInv OBVIOUS
<1>1. TypeOK
  BY InitType
<1>2. Known = {}
  BY DEF Init, Known
<1>3. start.inst = 0 /\ trust.id = 0
  BY DEF Init, Idle
<1> QED BY <1>1, <1>2, <1>3 DEF Init, AcceptedInv, Seen, UpToDate, NotAhead, AcceptedIsTrusted

\* The steps of the contact: installs only grow, and sessions are with the present one.
LEMMA EnvironmentAccepted ==
    ASSUME AcceptedInv, Reinstalls \/ ContactStarts \/ \E s \in Known : ContactWrites(s)
    PROVE  Seen' /\ UpToDate' /\ NotAhead' /\ AcceptedIsTrusted'
<1> USE DEF AcceptedInv
<1>1. CASE Reinstalls
  <2>1. /\ inst' = inst + 1 /\ start' = start /\ newest' = newest /\ outgoing' = outgoing
        /\ trust' = trust /\ Known' = Known /\ opened' = opened /\ under' = under
    BY <1>1 DEF Reinstalls, history, Known
  <2>2. Seen'
    BY <2>1, InstallNumbers DEF Seen
  <2>3. NotAhead'
    BY <2>1, InstallNumbers DEF NotAhead
  <2> QED BY <1>1, <2>2, <2>3 DEF Reinstalls, history, UpToDate, AcceptedIsTrusted
<1>2. CASE ContactStarts
  <2>1. /\ Known' = Known \cup {Len(under) + 1}
        /\ under'[Len(under) + 1] = inst
        /\ \A s \in Known : under'[s] = under[s]
    BY <1>2, StartedSession DEF ContactStarts, TypeOK
  <2>2. opened' = opened /\ opened \subseteq Known
    BY <1>2 DEF ContactStarts, TypeOK
  <2>3. /\ inst' = inst /\ newest' = newest /\ start' = start /\ trust' = trust
    BY <1>2 DEF ContactStarts, serverVars, history
  <2>4. (\A s \in Known' : under'[s] <= inst) /\ (\A s \in opened : under'[s] <= newest)
    BY <2>1, <2>2, InstallNumbers DEF Seen
  <2>5. Seen'
    BY <2>2, <2>3, <2>4 DEF Seen
  <2> QED BY <1>2, <2>5
          DEF ContactStarts, serverVars, history, UpToDate, NotAhead, AcceptedIsTrusted
<1>3. CASE \E s \in Known : ContactWrites(s)
  BY <1>3 DEF ContactWrites, serverVars, history, Known, Seen, UpToDate, NotAhead, AcceptedIsTrusted
<1> QED BY <1>1, <1>2, <1>3

\* A message received: its session is opened and its install seen, or neither changes.
LEMMA ReceivingAccepted ==
    ASSUME AcceptedInv, NEW f \in incoming,
           ReceivePreKey(f) \/ ReceiveWhisper(f) \/ ReceiveUnreadable(f)
    PROVE  Seen' /\ UpToDate' /\ NotAhead' /\ AcceptedIsTrusted'
<1> USE DEF AcceptedInv
<1>1. CASE ReceivePreKey(f)
  <2> DEFINE k == under[f.sess]
  <2>1. f.sess \in Known /\ k \in Installs /\ k <= inst
    BY KnownSessions DEF TypeOK, Incoming, Seen
  <2>2. Trusts(k) /\ opened' = opened \cup {f.sess} /\ under' = under /\ inst' = inst
        /\ start' = start /\ outgoing' = outgoing /\ accepted' = accepted
    BY <1>1 DEF ReceivePreKey, serverVars
  <2>3. /\ UpToDate' /\ newest' \in Nat /\ newest <= newest' /\ k <= newest'
        /\ newest' = newest \/ newest' = k
        /\ trust'.id = k
    BY <2>1, <2>2, TrustsIsCurrent
  <2>4. \A s \in opened' : under'[s] <= newest'
    <3>1. opened \subseteq Known /\ newest \in Nat
      BY InstallNumbers DEF TypeOK
    <3>2. \A s \in opened : under[s] <= newest /\ under[s] \in Nat
      BY <3>1, InstallNumbers DEF Seen
    <3> QED BY <2>2, <2>3, <3>1, <3>2
  <2>5. Seen'
    BY <2>1, <2>2, <2>3, <2>4, InstallNumbers DEF Seen, Known
  <2> QED BY <2>2, <2>3, <2>5 DEF NotAhead, AcceptedIsTrusted
<1>2. CASE ReceiveWhisper(f)
  BY <1>2 DEF ReceiveWhisper, serverVars, history, Known, Seen, UpToDate, NotAhead, AcceptedIsTrusted
<1>3. CASE ReceiveUnreadable(f)
  BY <1>3 DEF ReceiveUnreadable, serverVars, history, Known, Seen, UpToDate, NotAhead,
     AcceptedIsTrusted
<1> QED BY <1>1, <1>2, <1>3

\* What is sent names an install this phone has seen, and the identity it trusts.
LEMMA SentNotAhead ==
    ASSUME NEW s, NEW k \in Nat, NEW o, Sent(s, k, o), NotAhead, inst' = inst, inst \in Nat,
           UpToDate', trust'.id \in Nat, trust'.id <= inst, newest' \in Nat, k <= newest'
    PROVE  NotAhead'
<1> DEFINE m == [to |-> k, sess |-> s, trusted |-> trust'.id, owed |-> owed', again |-> again',
                 overtaken |-> o, late |-> late']
<1>1. outgoing' = outgoing \cup {m}
  BY DEF Sent
<1>2. m.trusted <= inst' /\ (m.late \/ m.to <= m.trusted)
  BY DEF UpToDate
<1>3. \A f \in outgoing : f.trusted <= inst' /\ (f.late \/ f.to <= f.trusted)
  BY DEF NotAhead
<1> HIDE DEF m
<1> QED BY <1>1, <1>2, <1>3 DEF NotAhead

LEMMA SendingAccepted ==
    ASSUME AcceptedInv,
           SendOnActive \/ FetchBundle \/ RecordIdentity \/ SendOnNew \/ AbandonStart
    PROVE  Seen' /\ UpToDate' /\ NotAhead' /\ AcceptedIsTrusted'
<1> USE DEF AcceptedInv
<1>0. (start.stage = "fetched" => start.inst \in Installs) /\ Idle.inst = 0
  BY DEF Idle, Starting, TypeOK
<1>1. CASE SendOnActive
  <2>1. active \in opened /\ under[active] \in Nat /\ under[active] <= newest
    BY <1>1, InstallNumbers DEF SendOnActive, TypeOK, Seen
  <2>2. /\ trust' = trust /\ newest' = newest /\ late' = late /\ inst' = inst
        /\ under' = under /\ Known' = Known /\ opened' = opened /\ start' = start
        /\ accepted' = accepted /\ Sent(active, under[active], FALSE)
    BY <1>1 DEF SendOnActive, history, Known
  <2>3. Seen' /\ UpToDate' /\ AcceptedIsTrusted'
    BY <2>2 DEF Seen, UpToDate, AcceptedIsTrusted
  <2>4. trust'.id <= inst
    BY <2>2, InstallNumbers DEF Seen
  <2>5. NotAhead'
    BY <2>1, <2>2, <2>3, <2>4, InstallNumbers, SentNotAhead
  <2> QED BY <2>3, <2>5
<1>2. CASE FetchBundle
  <2>1. start'.inst = inst /\ inst' = inst
    BY <1>2 DEF FetchBundle, serverVars
  <2>2. Seen'
    BY <1>2, <2>1, InstallNumbers DEF FetchBundle, serverVars, history, Seen, Known
  <2> QED BY <1>2, <2>2
          DEF FetchBundle, serverVars, history, UpToDate, NotAhead, AcceptedIsTrusted
<1>3. CASE RecordIdentity
  <2>1. /\ start.inst \in Installs /\ Trusts(start.inst) /\ start' = Idle /\ inst' = inst
        /\ under' = under /\ Known' = Known /\ opened' = opened
        /\ outgoing' = outgoing /\ accepted' = accepted
    BY <1>0, <1>3 DEF RecordIdentity, serverVars, Known
  <2>2. /\ UpToDate' /\ newest' \in Nat /\ newest <= newest'
        /\ newest' = newest \/ newest' = start.inst
        /\ trust'.id = start.inst /\ start.inst <= newest'
    BY <2>1, TrustsIsCurrent
  <2>3. Seen'
    BY <1>0, <2>1, <2>2, InstallNumbers DEF Seen, TypeOK
  <2> QED BY <2>1, <2>2, <2>3 DEF NotAhead, AcceptedIsTrusted
<1>4. CASE SendOnNew
  <2> DEFINE s == Len(under) + 1
  <2>1. /\ start.inst \in Installs /\ Trusts(start.inst) /\ start' = Idle /\ inst' = inst
        /\ opened' = opened \cup {s} /\ accepted' = accepted
        /\ Sent(s, start.inst, trust.verified /\ ~start.wasVerified)
        /\ Len(under) < MaxSess /\ under' = Append(under, start.inst)
    BY <1>0, <1>4 DEF SendOnNew
  <2>2. /\ UpToDate' /\ newest' \in Nat /\ newest <= newest'
        /\ newest' = newest \/ newest' = start.inst
        /\ trust'.id = start.inst /\ start.inst <= newest'
    BY <2>1, TrustsIsCurrent
  <2>3. /\ Known' = Known \cup {s} /\ under'[s] = start.inst
        /\ \A t \in Known : under'[t] = under[t]
    BY <2>1, StartedSession
  <2>4. /\ \A t \in Known' : under'[t] <= inst
        /\ \A t \in opened' : under'[t] <= newest'
    <3>1. opened \subseteq Known /\ start.inst <= inst /\ start.inst \in Nat
      BY InstallNumbers DEF Seen, TypeOK
    <3>2. \A t \in Known : under[t] <= inst /\ under[t] \in Nat
      BY InstallNumbers DEF Seen
    <3>3. newest \in Nat /\ \A t \in opened : under[t] <= newest
      BY InstallNumbers DEF Seen
    <3> HIDE DEF s
    <3>4. \A t \in Known' : under'[t] <= inst
      BY <2>3, <3>1, <3>2
    <3>5. \A t \in opened : under'[t] <= newest'
      BY <2>2, <2>3, <3>1, <3>2, <3>3
    <3>6. under'[s] <= newest'
      BY <2>2, <2>3
    <3> QED BY <2>1, <3>4, <3>5, <3>6
  <2>5. Seen'
    <3>1. trust'.id <= newest' /\ newest' <= inst /\ start'.inst <= inst
      BY <1>0, <2>1, <2>2, InstallNumbers DEF Seen
    <3> QED BY <2>1, <2>4, <3>1 DEF Seen
  <2>6. NotAhead'
    <3>1. start.inst \in Nat /\ start.inst <= inst /\ inst \in Nat
      BY InstallNumbers DEF Seen
    <3> QED BY <2>1, <2>2, <3>1, SentNotAhead
  <2> QED BY <2>1, <2>2, <2>5, <2>6 DEF AcceptedIsTrusted
<1>5. CASE AbandonStart
  <2>1. Seen'
    BY <1>0, <1>5, InstallNumbers DEF AbandonStart, serverVars, history, Seen, Known
  <2> QED BY <1>5, <2>1
          DEF AbandonStart, serverVars, history, UpToDate, NotAhead, AcceptedIsTrusted
<1> QED BY <1>1, <1>2, <1>3, <1>4, <1>5

\* The server accepts what is for the present install; by NotAhead that was the
\* identity trusted at sending.
LEMMA AnswerAccepted ==
    ASSUME AcceptedInv,
           \/ ArchiveSession \/ Acknowledge \/ \E v \in BOOLEAN : SetVerified(v)
           \/ \E f \in outgoing : Accept(f) \/ Refuse(f) \/ Lost(f)
    PROVE  Seen' /\ UpToDate' /\ NotAhead' /\ AcceptedIsTrusted'
<1> USE DEF AcceptedInv
<1>1. CASE ArchiveSession
  BY <1>1 DEF ArchiveSession, serverVars, history, Known, Seen, UpToDate, NotAhead, AcceptedIsTrusted
<1>2. CASE Acknowledge
  <2>1. trust'.id = trust.id
    BY <1>2 DEF Acknowledge, TypeOK
  <2> QED BY <1>2, <2>1
          DEF Acknowledge, Heard, serverVars, Known, Seen, UpToDate, NotAhead, AcceptedIsTrusted
<1>3. ASSUME NEW v \in BOOLEAN, SetVerified(v)
      PROVE  Seen' /\ UpToDate' /\ NotAhead' /\ AcceptedIsTrusted'
  <2>1. trust'.id = trust.id
    BY <1>3 DEF SetVerified, TypeOK
  <2>2. Seen'
    BY <1>3, <2>1 DEF SetVerified, Heard, serverVars, Known, Seen
  <2> QED BY <1>3, <2>1, <2>2
          DEF SetVerified, Heard, serverVars, UpToDate, NotAhead, AcceptedIsTrusted
<1>4. ASSUME NEW f \in outgoing, Accept(f)
      PROVE  Seen' /\ UpToDate' /\ NotAhead' /\ AcceptedIsTrusted'
  <2>1. f.to = f.trusted \/ f.late
    <3>1. f.to = inst
      BY <1>4 DEF Accept
    <3>2. f.trusted <= inst /\ (f.late \/ f.to <= f.trusted)
      BY DEF NotAhead
    <3> QED BY <3>1, <3>2, InstallNumbers
  <2>2. AcceptedIsTrusted'
    BY <1>4, <2>1 DEF Accept, AcceptedIsTrusted
  <2> QED BY <1>4, <2>2 DEF Accept, history, Known, Seen, UpToDate, NotAhead
<1>5. ASSUME NEW f \in outgoing, Refuse(f)
      PROVE  Seen' /\ UpToDate' /\ NotAhead' /\ AcceptedIsTrusted'
  BY <1>5 DEF Refuse, history, Known, Seen, UpToDate, NotAhead, AcceptedIsTrusted
<1>6. ASSUME NEW f \in outgoing, Lost(f) PROVE Seen' /\ UpToDate' /\ NotAhead' /\ AcceptedIsTrusted'
  BY <1>6 DEF Lost, history, Known, Seen, UpToDate, NotAhead, AcceptedIsTrusted
<1> QED BY <1>1, <1>2, <1>3, <1>4, <1>5, <1>6

LEMMA NextAccepted == AcceptedInv /\ [Next]_vars => AcceptedInv'
<1> SUFFICES ASSUME AcceptedInv, [Next]_vars PROVE AcceptedInv' OBVIOUS
<1>1. TypeOK'
  BY NextType DEF AcceptedInv
<1>2. Seen' /\ UpToDate' /\ NotAhead' /\ AcceptedIsTrusted'
  <2>1. CASE Next
    BY <2>1, EnvironmentAccepted, ReceivingAccepted, SendingAccepted, AnswerAccepted DEF Next
  <2>2. CASE UNCHANGED vars
    BY <2>2 DEF AcceptedInv, vars, serverVars, history, Known, Seen, UpToDate, NotAhead,
                AcceptedIsTrusted
  <2> QED BY <2>1, <2>2
<1> QED BY <1>1, <1>2 DEF AcceptedInv

(***************************************************************************)
(* What the server stored went to the identity the phone trusted when it   *)
(* sent it, unless a message of a replaced install came late and made that *)
(* one trusted again.                                                      *)
(***************************************************************************)
THEOREM AcceptedWereTrusted == Spec => []AcceptedIsTrusted
<1>1. Init => AcceptedInv
  BY AcceptedInit
<1>2. AcceptedInv /\ [Next]_vars => AcceptedInv'
  BY NextAccepted
<1>3. AcceptedInv => AcceptedIsTrusted
  BY DEF AcceptedInv
<1> QED BY <1>1, <1>2, <1>3, PTL DEF Spec

-----------------------------------------------------------------------------
(* Sending pauses *)

\* The flag is up as long as the first change is the only one, and it is down
\* while prepareSession, which looked at it, is at work.
Flagged ==
    /\ owed => again \/ trust.needsAck
    /\ start.stage = "fetched" => ~trust.needsAck

PausedInv == TypeOK /\ Flagged /\ PausedUnlessChangedAgain

LEMMA PausedInit == Init => PausedInv
BY InitType DEF Init, Idle, PausedInv, Flagged, PausedUnlessChangedAgain

\* A change of the identity raises the flag, unless one is owed already.
LEMMA TrustsFlags ==
    ASSUME TypeOK, Flagged, NEW k \in Installs, Trusts(k)
    PROVE  owed' => again' \/ trust'.needsAck
<1> DEFINE changed == trust.id # 0 /\ trust.id # k
<1>1. CASE changed
  <2>1. trust'.needsAck = trust.verified
    BY <1>1 DEF Trusts, TypeOK
  <2> QED BY <1>1, <2>1 DEF Trusts
<1>2. CASE ~changed
  <2>1. trust'.needsAck = trust.needsAck
    BY <1>2 DEF Trusts, TypeOK
  <2>2. owed' = owed /\ again' = again
    BY <1>2 DEF Trusts, TypeOK
  <2> QED BY <2>1, <2>2 DEF Flagged
<1> QED BY <1>1, <1>2

\* A message sent keeps the property if it is itself no exception to it.
LEMMA SentPaused ==
    ASSUME NEW s, NEW k, NEW o, Sent(s, k, o), PausedUnlessChangedAgain,
           owed' => o \/ again'
    PROVE  PausedUnlessChangedAgain'
<1> DEFINE m == [to |-> k, sess |-> s, trusted |-> trust'.id, owed |-> owed', again |-> again',
                 overtaken |-> o, late |-> late']
<1>1. outgoing' = outgoing \cup {m}
  BY DEF Sent
<1>2. m.owed => m.overtaken \/ m.again
  OBVIOUS
<1> HIDE DEF m
<1> QED BY <1>1, <1>2 DEF PausedUnlessChangedAgain

LEMMA SendingPaused ==
    ASSUME PausedInv,
           SendOnActive \/ FetchBundle \/ RecordIdentity \/ SendOnNew \/ AbandonStart
    PROVE  Flagged' /\ PausedUnlessChangedAgain'
<1> USE DEF PausedInv
<1>0. Idle.stage = "idle" /\ (start.stage = "fetched" => start.inst \in Installs)
  BY DEF Idle, Starting, TypeOK
<1>1. CASE SendOnActive
  <2>1. ~trust.needsAck /\ Sent(active, under[active], FALSE) /\ start' = start
        /\ trust' = trust /\ owed' = owed /\ again' = again
    BY <1>1 DEF SendOnActive, history
  <2>2. owed' => FALSE \/ again'
    BY <2>1 DEF Flagged
  <2>3. PausedUnlessChangedAgain'
    BY <2>1, <2>2, SentPaused
  <2> QED BY <2>1, <2>3 DEF Flagged
<1>2. CASE FetchBundle
  BY <1>2 DEF FetchBundle, serverVars, history, Flagged, PausedUnlessChangedAgain
<1>3. CASE RecordIdentity
  <2>1. Trusts(start.inst) /\ start.inst \in Installs /\ start' = Idle /\ outgoing' = outgoing
    BY <1>0, <1>3 DEF RecordIdentity, serverVars
  <2>2. owed' => again' \/ trust'.needsAck
    BY <2>1, TrustsFlags
  <2> QED BY <1>0, <2>1, <2>2 DEF Flagged, PausedUnlessChangedAgain
<1>4. CASE SendOnNew
  <2> DEFINE o == trust.verified /\ ~start.wasVerified
  <2>1. /\ Trusts(start.inst) /\ start.inst \in Installs /\ start' = Idle
        /\ Sent(Len(under) + 1, start.inst, o) /\ ~trust.needsAck
        /\ ~(start.wasVerified /\ trust.id # start.inst)
    BY <1>0, <1>4 DEF SendOnNew, Flagged
  <2>2. owed' => again' \/ trust'.needsAck
    BY <2>1, TrustsFlags
  <2>3. owed' => o \/ again'
    <3>1. CASE trust.id # 0 /\ trust.id # start.inst
      BY <2>1, <3>1 DEF Trusts, Flagged
    <3>2. CASE ~(trust.id # 0 /\ trust.id # start.inst)
      <4>1. owed' = owed /\ again' = again
        BY <2>1, <3>2 DEF Trusts, TypeOK
      <4> QED BY <2>1, <4>1 DEF Flagged
    <3> QED BY <3>1, <3>2
  <2>4. PausedUnlessChangedAgain'
    <3> HIDE DEF o
    <3> QED BY <2>1, <2>3, SentPaused
  <2> QED BY <1>0, <2>1, <2>2, <2>4 DEF Flagged
<1>5. CASE AbandonStart
  BY <1>0, <1>5 DEF AbandonStart, serverVars, history, Flagged, PausedUnlessChangedAgain
<1> QED BY <1>1, <1>2, <1>3, <1>4, <1>5

LEMMA OthersPaused ==
    ASSUME PausedInv,
           \/ Reinstalls \/ ContactStarts \/ \E s \in Known : ContactWrites(s)
           \/ \E f \in incoming : ReceivePreKey(f) \/ ReceiveWhisper(f) \/ ReceiveUnreadable(f)
           \/ ArchiveSession \/ Acknowledge \/ \E v \in BOOLEAN : SetVerified(v)
           \/ \E f \in outgoing : Accept(f) \/ Refuse(f) \/ Lost(f)
    PROVE  Flagged' /\ PausedUnlessChangedAgain'
<1> USE DEF PausedInv
<1>1. CASE Reinstalls \/ ContactStarts \/ \E s \in Known : ContactWrites(s)
  <2>1. outgoing' = outgoing /\ trust' = trust /\ start' = start /\ history' = history
    <3>1. CASE Reinstalls
      BY <3>1 DEF Reinstalls
    <3>2. CASE ContactStarts
      BY <3>2 DEF ContactStarts, serverVars
    <3>3. CASE \E s \in Known : ContactWrites(s)
      BY <3>3 DEF ContactWrites, serverVars
    <3> QED BY <1>1, <3>1, <3>2, <3>3
  <2> QED BY <2>1 DEF history, Flagged, PausedUnlessChangedAgain
<1>2. ASSUME NEW f \in incoming, ReceivePreKey(f) PROVE Flagged' /\ PausedUnlessChangedAgain'
  <2>1. /\ Trusts(under[f.sess]) /\ under[f.sess] \in Installs
        /\ start' = start /\ start.stage = "idle" /\ outgoing' = outgoing
    BY <1>2, KnownSessions DEF ReceivePreKey, Unlocked, serverVars, TypeOK, Incoming
  <2>2. owed' => again' \/ trust'.needsAck
    BY <2>1, TrustsFlags
  <2> QED BY <2>1, <2>2 DEF Flagged, PausedUnlessChangedAgain
<1>3. ASSUME NEW f \in incoming, ReceiveWhisper(f) \/ ReceiveUnreadable(f)
      PROVE  Flagged' /\ PausedUnlessChangedAgain'
  BY <1>3 DEF ReceiveWhisper, ReceiveUnreadable, serverVars, history, Flagged,
              PausedUnlessChangedAgain
<1>4. CASE ArchiveSession
  BY <1>4 DEF ArchiveSession, serverVars, history, Flagged, PausedUnlessChangedAgain
<1>5. ASSUME Heard, trust'.needsAck = FALSE, start' = start, outgoing' = outgoing
      PROVE  Flagged' /\ PausedUnlessChangedAgain'
  BY <1>5 DEF Heard, Flagged, PausedUnlessChangedAgain
<1>6. CASE Acknowledge
  BY <1>5, <1>6 DEF Acknowledge, TypeOK, serverVars
<1>7. ASSUME NEW v \in BOOLEAN, SetVerified(v) PROVE Flagged' /\ PausedUnlessChangedAgain'
  BY <1>5, <1>7 DEF SetVerified, TypeOK, serverVars
<1>8. ASSUME NEW f \in outgoing, Accept(f) \/ Refuse(f) \/ Lost(f)
      PROVE  Flagged' /\ PausedUnlessChangedAgain'
  BY <1>8 DEF Accept, Refuse, Lost, history, Flagged, PausedUnlessChangedAgain
<1> QED BY <1>1, <1>2, <1>3, <1>4, <1>6, <1>7, <1>8

LEMMA NextPaused == PausedInv /\ [Next]_vars => PausedInv'
<1> SUFFICES ASSUME PausedInv, [Next]_vars PROVE PausedInv' OBVIOUS
<1>1. TypeOK'
  BY NextType DEF PausedInv
<1>2. Flagged' /\ PausedUnlessChangedAgain'
  <2>1. CASE Next
    BY <2>1, SendingPaused, OthersPaused DEF Next
  <2>2. CASE UNCHANGED vars
    BY <2>2 DEF PausedInv, vars, serverVars, history, Flagged, PausedUnlessChangedAgain
  <2> QED BY <2>1, <2>2
<1> QED BY <1>1, <1>2 DEF PausedInv

(***************************************************************************)
(* After a verified contact's key changed nothing goes out before the user *)
(* is heard, unless the key changed again meanwhile or the message was     *)
(* fetching the new key when the user verified the old one.                *)
(***************************************************************************)
THEOREM SendingPauses == Spec => []PausedUnlessChangedAgain
<1>1. Init => PausedInv
  BY PausedInit
<1>2. PausedInv /\ [Next]_vars => PausedInv'
  BY NextPaused
<1>3. PausedInv => PausedUnlessChangedAgain
  BY DEF PausedInv
<1> QED BY <1>1, <1>2, <1>3, PTL DEF Spec
-----------------------------------------------------------------------------
(* The session record is a set *)

LEMMA FirstsIsDistinct ==
    ASSUME NEW S, NEW q \in Seq(S), NEW n \in Nat, Distinct(q)
    PROVE  /\ Distinct(Firsts(q, n))
           /\ \A i \in DOMAIN Firsts(q, n) : \E j \in DOMAIN q : Firsts(q, n)[i] = q[j]
<1> DEFINE m == IF Len(q) < n THEN Len(q) ELSE n
           p == SubSeq(q, 1, m)
<1>0. \A i \in 1..Len(q) : q[i] \in S
  BY ElementOfSeq
<1>1. m \in 0..Len(q)
  BY LenProperties
<1> HIDE DEF m
<1>2. p \in Seq(S) /\ Len(p) = m /\ \A i \in 1..m : p[i] = q[i]
  BY <1>0, <1>1, SubSeqProperties, LenProperties
<1>3. DOMAIN p = 1..m /\ DOMAIN q = 1..Len(q)
  BY <1>2, LenProperties
<1>4. Firsts(q, n) = p
  BY DEF Firsts, m
<1> HIDE DEF p
<1>5. Distinct(p)
  BY <1>1, <1>2, <1>3, LenProperties DEF Distinct
<1>6. \A i \in DOMAIN p : i \in DOMAIN q /\ p[i] = q[i]
  BY <1>1, <1>2, <1>3, LenProperties
<1> QED BY <1>4, <1>5, <1>6

\* Taking an element out of a record leaves a record that does not have it.
LEMMA WithoutIsDistinct ==
    ASSUME NEW S, NEW q \in Seq(S), NEW s, Distinct(q)
    PROVE  /\ Distinct(Without(q, s))
           /\ \A i \in DOMAIN Without(q, s) : Without(q, s)[i] # s
<1>1. CASE \E k \in DOMAIN q : q[k] = s
  <2> DEFINE k == CHOOSE k \in DOMAIN q : q[k] = s
             a == SubSeq(q, 1, k - 1)
             b == SubSeq(q, k + 1, Len(q))
             w == a \o b
  <2>0. Without(q, s) = w
    BY <1>1, Zenon DEF Without
  <2>1. k \in 1..Len(q) /\ q[k] = s /\ Len(q) \in Nat /\ DOMAIN q = 1..Len(q)
    BY <1>1, LenProperties
  <2> HIDE DEF k
  <2>2. \A i \in 1..Len(q) : q[i] \in S
    BY ElementOfSeq
  <2>3. a \in Seq(S) /\ Len(a) = k - 1 /\ \A i \in 1..(k - 1) : a[i] = q[i]
    BY <2>1, <2>2, SubSeqProperties
  <2>4. b \in Seq(S) /\ Len(b) = Len(q) - k /\ \A i \in 1..(Len(q) - k) : b[i] = q[k + i]
    <3>1. /\ b \in Seq(S)
          /\ Len(b) = IF k + 1 <= Len(q) THEN Len(q) - (k + 1) + 1 ELSE 0
          /\ \A i \in 1..(Len(q) - (k + 1) + 1) : b[i] = q[(k + 1) + i - 1]
      <4>1. k + 1 \in Int /\ Len(q) \in Int /\ \A i \in (k + 1)..Len(q) : q[i] \in S
        BY <2>1, <2>2
      <4> QED BY <4>1, SubSeqProperties
    <3>2. \A n, m \in Int : m <= n => n - (m + 1) + 1 = n - m /\ (m + 1 <= n \/ n - m = 0)
      OBVIOUS
    <3>3. k \in Int /\ Len(q) \in Int /\ k <= Len(q)
      BY <2>1
    <3>4. \A i \in 1..(Len(q) - k) : (k + 1) + i - 1 = k + i
      BY <2>1
    <3> HIDE DEF b
    <3> QED BY <3>1, <3>2, <3>3, <3>4
  <2> HIDE DEF a, b
  <2>5. /\ w \in Seq(S) /\ Len(w) = Len(q) - 1
        /\ \A i \in 1..(Len(q) - 1) : w[i] = IF i <= k - 1 THEN a[i] ELSE b[i - (k - 1)]
    <3>1. /\ w \in Seq(S) /\ Len(w) = Len(a) + Len(b)
          /\ \A i \in 1..(Len(a) + Len(b)) :
               w[i] = IF i <= Len(a) THEN a[i] ELSE b[i - Len(a)]
      BY <2>3, <2>4, ConcatProperties
    <3>2. Len(a) + Len(b) = Len(q) - 1 /\ Len(a) = k - 1
      BY <2>1, <2>3, <2>4
    <3> HIDE DEF w
    <3> QED BY <3>1, <3>2
  <2>6. DOMAIN w = 1..(Len(q) - 1)
    BY <2>5, LenProperties
  <2> HIDE DEF w
  <2>7. \A i \in 1..(Len(q) - 1) : w[i] = IF i < k THEN q[i] ELSE q[i + 1]
    <3> TAKE i \in 1..(Len(q) - 1)
    <3>1. CASE i < k
      BY <2>1, <2>3, <2>5, <3>1
    <3>2. CASE ~(i < k)
      <4>1. i - (k - 1) \in 1..(Len(q) - k) /\ k + (i - (k - 1)) = i + 1
        BY <2>1, <3>2
      <4>2. b[i - (k - 1)] = q[i + 1]
        BY <2>4, <4>1
      <4> QED BY <2>1, <2>5, <3>2, <4>2
    <3> QED BY <3>1, <3>2
  <2>8. Distinct(w)
    <3> SUFFICES ASSUME NEW i \in 1..(Len(q) - 1), NEW j \in 1..(Len(q) - 1), w[i] = w[j]
                 PROVE  i = j
      BY <2>6 DEF Distinct
    <3> DEFINE f(x) == IF x < k THEN x ELSE x + 1
    <3>1. f(i) \in DOMAIN q /\ f(j) \in DOMAIN q
      BY <2>1
    <3>2. w[i] = q[f(i)] /\ w[j] = q[f(j)]
      BY <2>7
    <3> HIDE DEF f
    <3>3. f(i) = f(j)
      BY <3>1, <3>2 DEF Distinct
    <3> QED BY <2>1, <3>3 DEF f
  <2>9. \A i \in DOMAIN w : w[i] # s
    <3> SUFFICES ASSUME NEW i \in 1..(Len(q) - 1), w[i] = s PROVE FALSE
      BY <2>6
    <3>1. CASE i < k
      BY <2>1, <2>7, <3>1 DEF Distinct
    <3>2. CASE ~(i < k)
      <4>1. i + 1 \in DOMAIN q /\ q[i + 1] = q[k] /\ i + 1 # k
        BY <2>1, <2>7, <3>2
      <4> QED BY <2>1, <4>1 DEF Distinct
    <3> QED BY <3>1, <3>2
  <2> QED BY <2>0, <2>8, <2>9
<1>2. CASE ~ \E k \in DOMAIN q : q[k] = s
  BY <1>2 DEF Without
<1> QED BY <1>1, <1>2

\* The archive names nothing twice, and not the active session.
Separate == active \notin Archived /\ Distinct(archived)

LEMMA HeldIsDistinct ==
    ASSUME NEW S, archived \in Seq(S), active \in S \cup {None}, Separate
    PROVE  Distinct(Held)
<1>1. CASE active = None
  BY <1>1, ConcatEmptySeq DEF Held, Separate
<1>2. CASE active # None
  <2> DEFINE one == <<active>>
             h == one \o archived
  <2>1. one \in Seq(S) /\ Len(one) = 1 /\ one[1] = active
    BY <1>2
  <2>2. Held = h
    BY <1>2 DEF Held
  <2> HIDE DEF one
  <2>3. Len(archived) \in Nat /\ DOMAIN archived = 1..Len(archived)
    BY LenProperties
  <2>4. /\ h \in Seq(S) /\ Len(h) = 1 + Len(archived)
        /\ \A i \in 1..(1 + Len(archived)) :
             h[i] = IF i <= 1 THEN one[i] ELSE archived[i - 1]
    <3>1. /\ h \in Seq(S) /\ Len(h) = Len(one) + Len(archived)
          /\ \A i \in 1..(Len(one) + Len(archived)) :
               h[i] = IF i <= Len(one) THEN one[i] ELSE archived[i - Len(one)]
      BY <2>1, ConcatProperties
    <3> HIDE DEF h
    <3> QED BY <2>1, <3>1
  <2>5. DOMAIN h = 1..(1 + Len(archived))
    BY <2>4, LenProperties
  <2> HIDE DEF h
  <2>6. h[1] = active /\ \A i \in 2..(1 + Len(archived)) : h[i] = archived[i - 1]
    BY <2>1, <2>3, <2>4
  <2>7. \A i \in 2..(1 + Len(archived)) : i - 1 \in DOMAIN archived /\ h[i] # active
    BY <2>3, <2>6 DEF Separate, Archived
  <2>8. ASSUME NEW i \in DOMAIN h, NEW j \in DOMAIN h, h[i] = h[j] PROVE i = j
    <3>1. CASE i = 1 \/ j = 1
      BY <2>3, <2>5, <2>6, <2>7, <2>8, <3>1
    <3>2. CASE i # 1 /\ j # 1
      <4>1. i \in 2..(1 + Len(archived)) /\ j \in 2..(1 + Len(archived))
        BY <2>3, <2>5, <3>2
      <4>2. archived[i - 1] = archived[j - 1]
        BY <2>6, <2>8, <4>1
      <4>3. i - 1 = j - 1
        BY <2>7, <4>1, <4>2 DEF Separate, Distinct
      <4> QED BY <4>1, <4>3
    <3> QED BY <3>1, <3>2
  <2> QED BY <2>2, <2>8 DEF Distinct
<1> QED BY <1>1, <1>2

LEMMA ArchiveSeparates ==
    ASSUME NEW S, None \notin S, archived \in Seq(S), active \in S \cup {None},
           MaxArchived \in Nat, Separate, Archive
    PROVE  Separate'
<1>1. Held \in Seq(S) /\ Distinct(Held)
  BY HeldIsSeq, HeldIsDistinct
<1>2. archived' \in Seq(S) /\ Distinct(archived')
  BY <1>1, FirstsIsSeq, FirstsIsDistinct DEF Archive, Separate
<1>3. \A i \in DOMAIN archived' : archived'[i] # None
  BY <1>2, ElementOfSeq, LenProperties
<1> QED BY <1>2, <1>3 DEF Archive, Separate, Archived

LEMMA ActivateSeparates ==
    ASSUME NEW S, archived \in Seq(S), active \in S \cup {None}, MaxArchived \in Nat, Separate,
           NEW s, Activate(s)
    PROVE  Separate'
<1> DEFINE w == Without(Held, s)
<1>1. w \in Seq(S) /\ Distinct(w) /\ \A i \in DOMAIN w : w[i] # s
  BY HeldIsSeq, HeldIsDistinct, WithoutIsSeq, WithoutIsDistinct
<1>2. archived' = Firsts(w, MaxArchived) /\ active' = s
  BY DEF Activate
<1> HIDE DEF w
<1>3. Distinct(archived') /\ \A i \in DOMAIN archived' : archived'[i] # s
  BY <1>1, <1>2, FirstsIsDistinct
<1> QED BY <1>2, <1>3 DEF Separate, Archived

LEMMA NextSeparate == TypeOK /\ Separate /\ [Next]_vars => Separate'
<1> SUFFICES ASSUME TypeOK, Separate, [Next]_vars PROVE Separate'
  OBVIOUS
<1>0. /\ archived \in Seq(opened) /\ active \in opened \cup {None} /\ None \notin opened
      /\ MaxArchived \in Nat
  BY KnownSessions, TrustAssumption DEF TypeOK, Sessions, None
<1>1. ASSUME UNCHANGED <<active, archived>> PROVE Separate'
  BY <1>1 DEF Separate, Archived
<1>2. CASE \E f \in incoming : ReceivePreKey(f) \/ ReceiveWhisper(f)
  BY <1>0, <1>2, ActivateSeparates DEF ReceivePreKey, ReceiveWhisper
<1>3. CASE ArchiveSession \/ \E f \in outgoing : Refuse(f)
  BY <1>0, <1>3, ArchiveSeparates DEF ArchiveSession, Refuse
<1>4. CASE SendOnNew
  BY <1>0, <1>4, ActivateSeparates DEF SendOnNew
<1>5. CASE UNCHANGED vars
  BY <1>1, <1>5 DEF vars
<1>6. CASE \/ Reinstalls \/ ContactStarts \/ \E s \in Known : ContactWrites(s)
           \/ \E f \in incoming : ReceiveUnreadable(f)
  BY <1>1, <1>6 DEF Reinstalls, ContactStarts, ContactWrites, ReceiveUnreadable
<1>7. CASE SendOnActive \/ FetchBundle \/ RecordIdentity \/ AbandonStart
  BY <1>1, <1>7 DEF SendOnActive, FetchBundle, RecordIdentity, AbandonStart
<1>8. CASE \/ \E f \in outgoing : Accept(f) \/ Lost(f)
           \/ \E v \in BOOLEAN : SetVerified(v)
           \/ Acknowledge
  BY <1>1, <1>8 DEF Accept, Lost, SetVerified, Acknowledge
<1> QED BY <1>2, <1>3, <1>4, <1>5, <1>6, <1>7, <1>8 DEF Next

\* A record that names nothing twice has as many members as positions.
LEMMA SeparateIsSet == TypeOK /\ Separate => RecordIsSet
<1> SUFFICES ASSUME TypeOK, Separate PROVE RecordIsSet
  OBVIOUS
<1> DEFINE f == [k \in DOMAIN archived |-> archived[k]]
<1>1. Len(archived) \in Nat /\ DOMAIN archived = 1..Len(archived)
  BY LenProperties DEF TypeOK
<1>2. f \in Bijection(1..Len(archived), Archived)
  <2> HIDE DEF f
  <2>1. f \in [1..Len(archived) -> Archived]
    BY <1>1 DEF Archived, f
  <2>2. \A i, j \in 1..Len(archived) : f[i] = f[j] => i = j
    BY <1>1 DEF f, Separate, Distinct
  <2>3. \A t \in Archived : \E k \in 1..Len(archived) : f[k] = t
    BY <1>1 DEF f, Archived
  <2>4. DOMAIN f = 1..Len(archived)
    BY <2>1
  <2> QED BY <2>1, <2>2, <2>3, <2>4 DEF Bijection, Injection, Surjection, IsInjective
<1>3. Cardinality(Archived) = Len(archived)
  BY <1>1, <1>2, FS_CountingElements DEF ExistsBijection
<1> QED BY <1>3 DEF RecordIsSet, Separate

(***************************************************************************)
(* No session is in the record twice, for every length of the archive and  *)
(* every order of messages, refusals and new sessions: archiving and       *)
(* activating take a session out of its old place before they put it first *)
(* (archiveActiveSession and withActive of sessionCipher.ts).              *)
(***************************************************************************)
THEOREM RecordNamesOnce == Spec => []RecordIsSet
<1>1. Init => TypeOK /\ Separate
  BY InitType DEF Init, Separate, Archived, Distinct
<1>2. (TypeOK /\ Separate) /\ [Next]_vars => (TypeOK /\ Separate)'
  BY NextType, NextSeparate
<1>3. TypeOK /\ Separate => RecordIsSet
  BY SeparateIsSet
<1> QED BY <1>1, <1>2, <1>3, PTL DEF Spec

-----------------------------------------------------------------------------
(* The parts together *)

LEMMA PhoneKeepsTrust == PhoneSpec => Spec
<1>1. PhoneInit => Init
  BY DEF PhoneInit
<1>2. [PhoneNext]_phoneVars => [Next]_vars
  BY DEF PhoneNext, phoneVars
<1> QED BY <1>1, <1>2, PTL DEF PhoneSpec, Spec

LEMMA PhoneKeepsVerification == PhoneSpec => VerifySpec
<1>1. PhoneInit => VerifyInit
  BY DEF PhoneInit
<1>2. [PhoneNext]_phoneVars => [VerifyNext]_verifyVars
  BY DEF PhoneNext, phoneVars
<1> QED BY <1>1, <1>2, PTL DEF PhoneSpec, VerifySpec

LEMMA PhoneKeepsKeys == PhoneSpec => KeysSpec
<1>1. PhoneInit => KeysInit
  BY DEF PhoneInit
<1>2. [PhoneNext]_phoneVars => [KeysNext]_keysVars
  BY DEF PhoneNext, phoneVars
<1> QED BY <1>1, <1>2, PTL DEF PhoneSpec, KeysSpec

LEMMA PhoneKeepsPush == PhoneSpec => PushSpec
<1>1. PhoneInit => PushInit
  BY DEF PhoneInit
<1>2. [PhoneNext]_phoneVars => [PushNext]_pushVars
  BY DEF PhoneNext, phoneVars
<1> QED BY <1>1, <1>2, PTL DEF PhoneSpec, PushSpec

LEMMA PhoneKeepsHost == PhoneSpec => HostSpec
<1>1. PhoneInit => HostInit
  BY DEF PhoneInit
<1>2. [PhoneNext]_phoneVars => [HostNext]_hostVars
  BY DEF PhoneNext, phoneVars
<1> QED BY <1>1, <1>2, PTL DEF PhoneSpec, HostSpec

\* Whichever part of a phone runs, its state has its types and bounds (MC_Phone).
THEOREM PhoneTypesCorrect == PhoneSpec => []Types
<1>1. TypeOK /\ VerifyTypeOK /\ KeysTypeOK /\ PushTypeOK /\ HostTypeOK => Types
  BY DEF Types
<1> QED BY <1>1, PhoneKeepsTrust, PhoneKeepsVerification, PhoneKeepsKeys, PhoneKeepsPush, PhoneKeepsHost,
           PeerTrustTypeCorrect, VerifyTypeCorrect, KeysTypeCorrect, PushTypeCorrect, HostTypeCorrect, PTL

=============================================================================
