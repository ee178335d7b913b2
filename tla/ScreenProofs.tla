------------------------------ MODULE ScreenProofs ----------------------------
(***************************************************************************)
(* Machine-checked facts about what the screens show of the server, for    *)
(* every number of messages, requests, calls, notifications and edits,     *)
(* about SocialGraph, for any number of requests under way, and about      *)
(* these parts together (MC_Social).                                       *)
(***************************************************************************)
EXTENDS MC_Social, FiniteSetTheorems, SequenceTheorems, TLAPS

-----------------------------------------------------------------------------
(* Sequences *)

LEMMA ElementRemoved ==
    ASSUME NEW S, NEW s \in Seq(S), NEW i \in 1..Len(s)
    PROVE  /\ RemoveAt(s, i) \in Seq(S) /\ Len(RemoveAt(s, i)) = Len(s) - 1
           /\ \A j \in 1..(Len(s) - 1) : RemoveAt(s, i)[j] = s[IF j < i THEN j ELSE j + 1]
<1> DEFINE a == SubSeq(s, 1, i - 1)
           b == SubSeq(s, i + 1, Len(s))
<1>1. Len(s) \in Nat /\ i \in Nat /\ i >= 1 /\ i <= Len(s)
  OBVIOUS
<1>2. a \in Seq(S) /\ Len(a) = i - 1 /\ \A j \in 1..(i - 1) : a[j] = s[j]
  BY <1>1
<1>3. b \in Seq(S) /\ Len(b) = Len(s) - i /\ \A j \in 1..(Len(s) - i) : b[j] = s[j + i]
  BY <1>1
<1> HIDE DEF a, b
<1>4. a \o b \in Seq(S) /\ Len(a \o b) = Len(s) - 1
  <2>1. a \o b \in Seq(S) /\ Len(a \o b) = Len(a) + Len(b)
    BY <1>2, <1>3, ConcatProperties
  <2>2. (i - 1) + (Len(s) - i) = Len(s) - 1
    BY <1>1
  <2> QED BY <1>2, <1>3, <2>1, <2>2
<1>5. ASSUME NEW j \in 1..(Len(s) - 1)
      PROVE  (a \o b)[j] = s[IF j < i THEN j ELSE j + 1]
  <2>1. CASE j < i
    BY <1>1, <1>2, <1>3, <2>1
  <2>2. CASE ~(j < i)
    <3>1. (a \o b)[j] = b[j - (i - 1)]
      BY <1>1, <1>2, <1>3, <2>2
    <3>2. j - (i - 1) \in 1..(Len(s) - i)
      BY <1>1, <2>2
    <3>3. b[j - (i - 1)] = s[(j - (i - 1)) + i] /\ (j - (i - 1)) + i = j + 1
      BY <1>1, <1>3, <3>2
    <3> QED BY <2>2, <3>1, <3>3
  <2> QED BY <2>1, <2>2
<1> QED BY <1>4, <1>5 DEF RemoveAt, a, b

LEMMA FunctionIsSeq ==
    ASSUME NEW S, NEW n \in Nat, NEW f, DOMAIN f = 1..n, f = [j \in 1..n |-> f[j]],
           \A j \in 1..n : f[j] \in S
    PROVE  f \in Seq(S) /\ Len(f) = n
<1>1. f \in [1..n -> S]
  OBVIOUS
<1> QED BY <1>1

-----------------------------------------------------------------------------
(* Badges *)

Stored == IF sending = "stored" THEN 1 ELSE 0
Replies == [val : 0..MaxMsgs, late : BOOLEAN]

\* The counter counts no more than is stored, and a mark_read names what is known.
BadgeServer ==
    /\ sent \in 0..MaxMsgs /\ seen \in 0..sent /\ count \in 0..sent /\ known \in 0..sent
    /\ sending \in {"none", "stored", "counted"} /\ count + Stored <= sent
    /\ marking \in [stage : {"none", "asked", "found", "read"}, upTo : 0..MaxMsgs]
    /\ marking.upTo <= sent /\ (marking.stage = "read" => marking.upTo <= seen)
    /\ room \in 0..(known + 1) /\ met \in BOOLEAN

BadgePhone ==
    /\ view \in {"badge", "row"} /\ registered \in BOOLEAN /\ timer \in BOOLEAN
    /\ wrong \in BOOLEAN
    /\ preview \in [on : BOOLEAN, val : 0..MaxMsgs] /\ shown \in 0..MaxMsgs
    /\ asking \in Nat /\ replies \in Seq(Replies) /\ asking + Len(replies) <= MaxAsks

\* The counter, with the message about to be counted, unless one was missed.
Counted == ~met /\ marking.stage # "read" => count + Stored = sent - seen

\* With no request on its way, the last answer is the count, or none that is left is to
\* be believed.
LastReply ==
    registered /\ asking = 0 =>
      \/ /\ Len(replies) # 0
         /\ replies[Len(replies)].val = count /\ ~replies[Len(replies)].late
      \/ /\ \A j \in 1..Len(replies) : replies[j].late
         /\ wrong \/ shown = count

LEMMA BadgeBounds == MaxMsgs \in Nat /\ MaxAsks \in Nat
BY BadgeAssumption

LEMMA BadgeServerStep == BadgeServer /\ [BadgeNext]_badgeVars => BadgeServer'
<1> SUFFICES ASSUME BadgeServer, [BadgeNext]_badgeVars PROVE BadgeServer'
  OBVIOUS
<1> USE BadgeBounds DEF BadgeServer
<1>1. ASSUME UNCHANGED <<badgeServer, known>>, room' \in {0, room, 1}
      PROVE  BadgeServer'
  BY <1>1 DEF badgeServer, Stored
<1>2. CASE Polls \/ Answers \/ AskFails \/ PreviewLands \/ Opens \/ Leaves \/ TimerFires
           \/ Disconnects \/ Registers \/ \E i \in DOMAIN replies : Arrives(i)
  BY <1>1, <1>2 DEF Polls, Answers, AskFails, PreviewLands, Opens, Leaves, TimerFires,
     Disconnects, Registers, Arrives
<1>3. CASE Decrypts
  BY <1>3 DEF Decrypts, badgeServer, Stored
<1>4. CASE Marks
  BY <1>4 DEF Marks, Stored
<1>5. CASE SendCreates
  BY <1>5 DEF SendCreates, badgePhone, Stored
<1>6. CASE SendCounts
  BY <1>6 DEF SendCounts, Stored
<1>7. CASE SendPushes
  BY <1>7 DEF SendPushes, Stored
<1>8. CASE SendFails
  BY <1>8 DEF SendFails, badgePhone, Stored
<1>9. CASE MarkFinds
  BY <1>9 DEF MarkFinds, badgePhone, Stored
<1>10. CASE MarkReads
  BY <1>10 DEF MarkReads, badgePhone, Stored
<1>11. CASE MarkResets
  BY <1>11 DEF MarkResets, Stored, NotMarking
<1>12. CASE MarkFails
  BY <1>12 DEF MarkFails, badgePhone, Stored, NotMarking
<1>13. CASE UNCHANGED badgeVars
  BY <1>13 DEF badgeVars, badgeServer, badgePhone, Stored
<1> QED
  BY <1>2, <1>3, <1>4, <1>5, <1>6, <1>7, <1>8, <1>9, <1>10, <1>11, <1>12, <1>13 DEF BadgeNext

LEMMA CountedStep == BadgeServer /\ Counted /\ [BadgeNext]_badgeVars => Counted'
<1> SUFFICES ASSUME BadgeServer, Counted, [BadgeNext]_badgeVars PROVE Counted'
  OBVIOUS
<1> USE BadgeBounds DEF BadgeServer, Counted, Stored
<1>1. CASE UNCHANGED badgeServer
  BY <1>1 DEF badgeServer
<1>2. CASE Marks
  BY <1>2 DEF Marks, NotMarking
<1>3. CASE SendCreates
  BY <1>3 DEF SendCreates
<1>4. CASE SendCounts
  BY <1>4 DEF SendCounts
<1>5. CASE SendPushes
  BY <1>5 DEF SendPushes
<1>6. CASE SendFails
  BY <1>6 DEF SendFails
<1>7. CASE MarkFinds
  BY <1>7 DEF MarkFinds
<1>8. CASE MarkReads
  BY <1>8 DEF MarkReads
<1>9. CASE MarkResets
  <2>1. count' = 0 /\ sent' = sent /\ seen' = seen /\ sending' = sending
        /\ met' = (sending = "stored" \/ marking.upTo < sent) /\ marking.upTo <= seen
    BY <1>9 DEF MarkResets
  <2>2. ~met' => sending # "stored" /\ ~(marking.upTo < sent)
    BY <2>1
  <2>3. ~(marking.upTo < sent) => seen = sent
    <3>1. marking.upTo \in Nat /\ seen \in Nat /\ sent \in Nat /\ seen <= sent
      OBVIOUS
    <3> QED BY <2>1, <3>1
  <2> QED BY <2>1, <2>2, <2>3
<1>10. CASE MarkFails
  BY <1>10 DEF MarkFails
<1> QED
  BY <1>1, <1>2, <1>3, <1>4, <1>5, <1>6, <1>7, <1>8, <1>9, <1>10 DEF BadgeNext, Polls, Answers,
     AskFails, Arrives, Decrypts, PreviewLands, Opens, Leaves, TimerFires, Disconnects,
     Registers, badgeVars

\* What becomes of the answers on their way: none, the last, one, or all marked late.
LEMMA AnswerAdded ==
    ASSUME NEW s \in Seq(Replies), NEW c \in 0..MaxMsgs
    PROVE  LET t == Append(s, [val |-> c, late |-> FALSE])
           IN  /\ t \in Seq(Replies) /\ Len(t) = Len(s) + 1
               /\ t[Len(t)].val = c /\ ~t[Len(t)].late
<1> DEFINE x == [val |-> c, late |-> FALSE]
<1>1. x \in Replies /\ x.val = c /\ ~x.late
  BY DEF Replies
<1> HIDE DEF x
<1>2. /\ Append(s, x) \in Seq(Replies) /\ Len(Append(s, x)) = Len(s) + 1
      /\ Append(s, x)[Len(s) + 1] = x
  BY <1>1
<1> QED BY <1>1, <1>2 DEF x

LEMMA AllAreLate ==
    ASSUME NEW s \in Seq(Replies)
    PROVE  LET t == [j \in DOMAIN s |-> [s[j] EXCEPT !.late = TRUE]]
           IN  t \in Seq(Replies) /\ Len(t) = Len(s) /\ \A j \in 1..Len(t) : t[j].late
<1> DEFINE t == [j \in DOMAIN s |-> [s[j] EXCEPT !.late = TRUE]]
<1>1. Len(s) \in Nat /\ DOMAIN s = 1..Len(s) /\ \A j \in 1..Len(s) : s[j] \in Replies
  OBVIOUS
<1>2. \A r \in Replies : [r EXCEPT !.late = TRUE] \in Replies /\ [r EXCEPT !.late = TRUE].late
  BY DEF Replies
<1>3. /\ DOMAIN t = 1..Len(s) /\ t = [j \in 1..Len(s) |-> t[j]]
      /\ \A j \in 1..Len(s) : t[j] \in Replies /\ t[j].late
  BY <1>1, <1>2
<1> HIDE DEF t
<1>4. t \in Seq(Replies) /\ Len(t) = Len(s)
  BY <1>1, <1>3, FunctionIsSeq
<1>5. \A j \in 1..Len(t) : t[j].late
  BY <1>3, <1>4
<1> QED BY <1>4, <1>5 DEF t

LEMMA AnswerTaken ==
    ASSUME NEW s \in Seq(Replies), NEW i \in 1..Len(s)
    PROVE  LET t == RemoveAt([j \in DOMAIN s |-> [s[j] EXCEPT !.late = @ \/ j < i]], i)
           IN  /\ t \in Seq(Replies) /\ Len(t) = Len(s) - 1
               /\ \A j \in 1..Len(t) : j < i => t[j].late
               /\ \A j \in 1..Len(t) : ~(j < i) => t[j] = s[j + 1]
<1> DEFINE u == [j \in DOMAIN s |-> [s[j] EXCEPT !.late = @ \/ j < i]]
           t == RemoveAt(u, i)
<1>1. Len(s) \in Nat /\ DOMAIN s = 1..Len(s) /\ \A j \in 1..Len(s) : s[j] \in Replies
  OBVIOUS
<1>2. \A r \in Replies, b \in BOOLEAN :
        /\ [r EXCEPT !.late = r.late \/ b] \in Replies
        /\ b => [r EXCEPT !.late = r.late \/ b].late
        /\ ~b => [r EXCEPT !.late = r.late \/ b] = r
  <2>1. ASSUME NEW r \in Replies, NEW b \in BOOLEAN
        PROVE  /\ [r EXCEPT !.late = r.late \/ b] \in Replies
               /\ b => [r EXCEPT !.late = r.late \/ b].late
               /\ ~b => [r EXCEPT !.late = r.late \/ b] = r
    <3>1. CASE b = TRUE
      BY <3>1 DEF Replies
    <3>2. CASE b = FALSE
      BY <3>2 DEF Replies
    <3> QED BY <2>1, <3>1, <3>2
  <2> QED BY <2>1
<1>3. ASSUME NEW j \in 1..Len(s)
      PROVE  u[j] \in Replies /\ (j < i => u[j].late) /\ (~(j < i) => u[j] = s[j])
  <2>1. u[j] = [s[j] EXCEPT !.late = s[j].late \/ j < i]
    BY <1>1
  <2>2. (j < i) \in BOOLEAN
    OBVIOUS
  <2> QED BY <1>1, <1>2, <2>1, <2>2
<1>4. DOMAIN u = 1..Len(s) /\ u = [j \in 1..Len(s) |-> u[j]]
  BY <1>1
<1> HIDE DEF u
<1>5. u \in Seq(Replies) /\ Len(u) = Len(s)
  BY <1>1, <1>3, <1>4, FunctionIsSeq
<1>6. /\ t \in Seq(Replies) /\ Len(t) = Len(s) - 1
      /\ \A j \in 1..(Len(s) - 1) : t[j] = u[IF j < i THEN j ELSE j + 1]
  BY <1>5, ElementRemoved
<1> HIDE DEF t
<1>7. ASSUME NEW j \in 1..Len(t), j < i PROVE t[j].late
  <2>1. j \in 1..(Len(s) - 1) /\ j \in 1..Len(s)
    BY <1>1, <1>6
  <2> QED BY <1>3, <1>6, <1>7, <2>1
<1>8. ASSUME NEW j \in 1..Len(t), ~(j < i) PROVE t[j] = s[j + 1]
  <2>1. j \in 1..(Len(s) - 1) /\ j + 1 \in 1..Len(s) /\ ~(j + 1 < i)
    BY <1>1, <1>6, <1>8
  <2> QED BY <1>3, <1>6, <1>8, <2>1
<1> QED BY <1>6, <1>7, <1>8 DEF t, u

LEMMA BadgePhoneStep ==
    BadgeServer /\ BadgePhone /\ [BadgeNext]_badgeVars => BadgePhone'
<1> SUFFICES ASSUME BadgeServer, BadgePhone, [BadgeNext]_badgeVars PROVE BadgePhone'
  OBVIOUS
<1>0. MaxMsgs \in Nat /\ MaxAsks \in Nat /\ Len(replies) \in Nat /\ count \in 0..MaxMsgs
      /\ 0 \in 0..MaxMsgs
  BY BadgeBounds DEF BadgePhone, BadgeServer
<1> DEFINE Rest == <<view, registered, timer, wrong, preview, shown>>
<1>1. ASSUME asking' \in {asking, asking + 1}, asking' # asking => MayAsk, replies' = replies,
             registered' \in BOOLEAN, timer' \in BOOLEAN,
             UNCHANGED <<view, wrong, preview, shown>>
      PROVE  BadgePhone'
  BY <1>0, <1>1 DEF BadgePhone, MayAsk
<1>2. ASSUME Asks \/ Tells \/ UNCHANGED asking
      PROVE  asking' \in {asking, asking + 1} /\ (asking' # asking => MayAsk)
  BY <1>2 DEF Asks, Tells
<1>3. CASE Polls \/ TimerFires \/ Registers \/ SendCounts \/ SendPushes \/ MarkResets
  <2>1. Asks \/ Tells \/ UNCHANGED asking
    BY <1>3 DEF Polls, TimerFires, Registers, SendCounts, SendPushes, MarkResets
  <2>2. UNCHANGED <<replies, view, wrong, preview, shown>>
        /\ registered' \in BOOLEAN /\ timer' \in BOOLEAN
    BY <1>3 DEF Polls, TimerFires, Registers, SendCounts, SendPushes, MarkResets, BadgePhone
  <2> QED BY <1>1, <1>2, <2>1, <2>2
<1>4. CASE Leaves \/ Marks \/ Disconnects
  <2>1. UNCHANGED <<asking, replies, view, wrong, preview, shown>>
        /\ registered' \in BOOLEAN /\ timer' \in BOOLEAN
    BY <1>4 DEF Leaves, Marks, Disconnects, BadgePhone
  <2> QED BY <1>1, <2>1
<1>5. CASE SendCreates \/ SendFails \/ MarkFinds \/ MarkReads \/ MarkFails
  BY <1>5 DEF SendCreates, SendFails, MarkFinds, MarkReads, MarkFails, badgePhone, BadgePhone
<1>6. CASE Answers
  <2>1. replies' \in Seq(Replies) /\ Len(replies') = Len(replies) + 1
    BY <1>0, <1>6, AnswerAdded DEF Answers, BadgePhone
  <2> QED BY <1>0, <1>6, <2>1 DEF Answers, BadgePhone
<1>7. CASE AskFails
  <2>1. replies' \in Seq(Replies) /\ Len(replies') = Len(replies)
    BY <1>7, AllAreLate DEF AskFails, BadgePhone
  <2> QED BY <1>0, <1>7, <2>1 DEF AskFails, BadgePhone
<1>8. ASSUME NEW i \in DOMAIN replies, Arrives(i) PROVE BadgePhone'
  <2>1. i \in 1..Len(replies)
    BY DEF BadgePhone
  <2>2. replies' \in Seq(Replies) /\ Len(replies') = Len(replies) - 1
    BY <1>8, <2>1, AnswerTaken DEF Arrives, BadgePhone
  <2>3. replies[i] \in Replies
    BY <2>1 DEF BadgePhone
  <2>4. shown' \in 0..MaxMsgs /\ wrong' \in BOOLEAN
    BY <1>8, <2>3 DEF Arrives, Replies
  <2> QED BY <1>0, <1>8, <2>2, <2>4 DEF Arrives, BadgePhone
<1>9. CASE Decrypts
  <2>1. preview' \in [on : BOOLEAN, val : 0..MaxMsgs]
    BY <1>9 DEF Decrypts, BadgePhone
  <2> QED BY <1>9, <2>1 DEF Decrypts, BadgePhone
<1>10. CASE PreviewLands
  BY <1>0, <1>10 DEF PreviewLands, NoPreview, BadgePhone
<1>11. CASE Opens
  BY <1>0, <1>11 DEF Opens, BadgePhone
<1>12. CASE UNCHANGED badgeVars
  BY <1>12 DEF badgeVars, badgePhone, BadgePhone
<1> QED
  BY <1>3, <1>4, <1>5, <1>6, <1>7, <1>8, <1>9, <1>10, <1>11, <1>12 DEF BadgeNext

LEMMA LastReplyStep ==
    BadgeServer /\ BadgePhone /\ LastReply /\ [BadgeNext]_badgeVars => LastReply'
<1> SUFFICES ASSUME BadgeServer, BadgePhone, LastReply, [BadgeNext]_badgeVars,
                    registered', asking' = 0
             PROVE  \/ /\ Len(replies') # 0
                       /\ replies'[Len(replies')].val = count' /\ ~replies'[Len(replies')].late
                    \/ /\ \A j \in 1..Len(replies') : replies'[j].late
                       /\ wrong' \/ shown' = count'
  BY DEF LastReply
<1> DEFINE Goal == \/ /\ Len(replies') # 0
                      /\ replies'[Len(replies')].val = count' /\ ~replies'[Len(replies')].late
                   \/ /\ \A j \in 1..Len(replies') : replies'[j].late
                      /\ wrong' \/ shown' = count'
<1>0. replies \in Seq(Replies) /\ asking \in Nat /\ count \in 0..MaxMsgs /\ Len(replies) \in Nat
  BY BadgeBounds DEF BadgePhone, BadgeServer
<1>1. ASSUME Asks PROVE FALSE
  BY <1>0, <1>1 DEF Asks
<1>2. ASSUME Tells, UNCHANGED registered PROVE FALSE
  BY <1>1, <1>2 DEF Tells
<1>3. ASSUME UNCHANGED <<registered, asking, replies, count>>,
             wrong \/ shown = count => wrong' \/ shown' = count'
      PROVE  Goal
  BY <1>3 DEF LastReply
<1>4. CASE Polls \/ Registers \/ SendCounts \/ MarkResets
  BY <1>1, <1>2, <1>4 DEF Polls, Registers, SendCounts, MarkResets
<1>5. CASE TimerFires \/ SendPushes
  <2>1. UNCHANGED <<registered, replies, count, wrong, shown>>
    BY <1>5 DEF TimerFires, SendPushes, badgeServer
  <2>2. asking' = asking
    BY <1>1, <1>2, <1>5, <2>1 DEF TimerFires, SendPushes
  <2> QED BY <1>3, <2>1, <2>2
<1>6. CASE Decrypts \/ Leaves \/ Marks \/ SendCreates \/ SendFails \/ MarkFinds \/ MarkReads
           \/ MarkFails \/ UNCHANGED badgeVars
  <2>1. UNCHANGED <<registered, asking, replies, count, wrong, shown>>
    BY <1>6 DEF Decrypts, Leaves, Marks, SendCreates, SendFails, MarkFinds, MarkReads,
       MarkFails, badgePhone, badgeVars, badgeServer
  <2> QED BY <1>3, <2>1
<1>7. CASE Disconnects
  BY <1>7 DEF Disconnects
<1>8. CASE Answers
  <2>1. replies'[Len(replies')].val = count /\ ~replies'[Len(replies')].late
        /\ Len(replies') = Len(replies) + 1
    BY <1>0, <1>8, AnswerAdded DEF Answers
  <2>2. count' = count
    BY <1>8 DEF Answers, badgeServer
  <2> QED BY <1>0, <2>1, <2>2
<1>9. CASE AskFails
  BY <1>0, <1>9, AllAreLate DEF AskFails
<1>10. ASSUME NEW i \in DOMAIN replies, Arrives(i) PROVE Goal
  <2>1. i \in 1..Len(replies) /\ i \in Nat
    BY <1>0
  <2>2. /\ Len(replies') = Len(replies) - 1
        /\ \A j \in 1..Len(replies') : j < i => replies'[j].late
        /\ \A j \in 1..Len(replies') : ~(j < i) => replies'[j] = replies[j + 1]
    BY <1>0, <1>10, <2>1, AnswerTaken DEF Arrives
  <2>3. UNCHANGED <<registered, asking, count>>
        /\ shown' = replies[i].val /\ wrong' = replies[i].late
    BY <1>10 DEF Arrives, badgeServer
  <2>4. ASSUME Len(replies) # 0, replies[Len(replies)].val = count,
               ~replies[Len(replies)].late
        PROVE  Goal
    <3>1. CASE i = Len(replies)
      <4>1. \A j \in 1..Len(replies') : j < i
        BY <1>0, <2>1, <2>2, <3>1
      <4> QED BY <2>2, <2>3, <2>4, <3>1, <4>1
    <3>2. CASE i # Len(replies)
      <4>1. Len(replies') # 0 /\ Len(replies') \in 1..Len(replies') /\ ~(Len(replies') < i)
            /\ Len(replies') + 1 = Len(replies)
        BY <1>0, <2>1, <2>2, <3>2
      <4>2. replies'[Len(replies')] = replies[Len(replies)]
        BY <2>2, <4>1
      <4> QED BY <2>3, <2>4, <4>1, <4>2
    <3> QED BY <3>1, <3>2
  <2>5. ASSUME \A j \in 1..Len(replies) : replies[j].late PROVE Goal
    <3>1. wrong'
      BY <2>1, <2>3, <2>5
    <3>2. ASSUME NEW j \in 1..Len(replies') PROVE replies'[j].late
      <4>1. j + 1 \in 1..Len(replies)
        BY <1>0, <2>2
      <4> QED BY <2>2, <2>5, <4>1
    <3> QED BY <3>1, <3>2
  <2> QED BY <2>3, <2>4, <2>5 DEF LastReply
<1>11. CASE PreviewLands
  BY <1>3, <1>11 DEF PreviewLands, badgeServer
<1>12. CASE Opens
  <2>1. UNCHANGED <<registered, asking, replies, count>>
    BY <1>12 DEF Opens, badgeServer
  <2>2. CASE view = "row"
    <3>1. shown' = 0 /\ (wrong' <=> wrong \/ shown # 0)
      BY <1>12, <2>2 DEF Opens
    <3> QED BY <1>3, <2>1, <3>1
  <2>3. CASE view # "row"
    <3>1. shown' = shown /\ wrong' = wrong
      BY <1>12, <2>3 DEF Opens
    <3> QED BY <1>3, <2>1, <3>1
  <2> QED BY <2>2, <2>3
<1> QED
  BY <1>4, <1>5, <1>6, <1>7, <1>8, <1>9, <1>10, <1>11, <1>12 DEF BadgeNext

LEMMA BadgeHolds ==
    BadgeSpec => [](BadgeServer /\ BadgePhone /\ Counted /\ LastReply)
<1>1. BadgeInit => BadgeServer /\ BadgePhone /\ Counted /\ LastReply
  <2> SUFFICES ASSUME BadgeInit PROVE BadgeServer /\ BadgePhone /\ Counted /\ LastReply
    OBVIOUS
  <2> USE BadgeBounds DEF BadgeInit
  <2>0. /\ NotMarking \in [stage : {"none", "asked", "found", "read"}, upTo : 0..MaxMsgs]
        /\ NotMarking.upTo = 0 /\ NotMarking.stage = "none"
    BY DEF NotMarking
  <2>1. BadgeServer
    <3>1. Stored = 0
      BY DEF Stored
    <3>2. met \in BOOLEAN
      OBVIOUS
    <3>3. /\ sent \in 0..MaxMsgs /\ seen \in 0..sent /\ count \in 0..sent /\ known \in 0..sent
          /\ room \in 0..(known + 1) /\ count + Stored <= sent
      BY <3>1
    <3>4. /\ sending \in {"none", "stored", "counted"}
          /\ marking \in [stage : {"none", "asked", "found", "read"}, upTo : 0..MaxMsgs]
          /\ marking.upTo <= sent /\ (marking.stage = "read" => marking.upTo <= seen)
      BY <2>0
    <3> HIDE DEF BadgeInit
    <3> QED BY <3>2, <3>3, <3>4 DEF BadgeServer
  <2>2. << >> \in Seq(Replies) /\ Len(<< >>) = 0
    OBVIOUS
  <2>3. preview \in [on : BOOLEAN, val : 0..MaxMsgs]
    BY DEF NoPreview
  <2>4. BadgePhone
    <3>1. asking = 0 /\ replies \in Seq(Replies) /\ Len(replies) = 0 /\ MaxAsks \in Nat
      BY <2>2
    <3>2. asking \in Nat /\ asking + Len(replies) <= MaxAsks
      BY <3>1
    <3>3. registered \in BOOLEAN /\ timer \in BOOLEAN /\ wrong \in BOOLEAN
      OBVIOUS
    <3>4. view \in {"badge", "row"} /\ shown \in 0..MaxMsgs
      OBVIOUS
    <3> HIDE DEF BadgeInit
    <3> QED BY <2>3, <3>1, <3>2, <3>3, <3>4 DEF BadgePhone
  <2>5. Counted /\ LastReply
    BY DEF Counted, LastReply, Stored
  <2> QED BY <2>1, <2>4, <2>5
<1> QED BY <1>1, BadgeServerStep, BadgePhoneStep, CountedStep, LastReplyStep, PTL DEF BadgeSpec

(***************************************************************************)
(* The counter, the handlers of the server and what the phone has asked    *)
(* and shows have their types and bounds, for every number of messages and *)
(* requests.                                                               *)
(***************************************************************************)
THEOREM BadgeTypeCorrect == BadgeSpec => []BadgeTypeOK
<1>1. BadgeServer /\ BadgePhone => BadgeTypeOK
  <2> SUFFICES ASSUME BadgeServer, BadgePhone PROVE BadgeTypeOK
    OBVIOUS
  <2>1. replies \in Seq([val : 0..MaxMsgs, late : BOOLEAN]) /\ Len(replies) \in Nat
        /\ Len(replies) <= MaxAsks /\ asking \in 0..MaxAsks
    BY BadgeBounds DEF BadgePhone, Replies
  <2>2. {registered, timer, met, wrong} \subseteq BOOLEAN
    BY DEF BadgeServer, BadgePhone
  <2>3. room \in 0..(MaxMsgs + 1) /\ count \in 0..MaxMsgs
    BY BadgeBounds DEF BadgeServer
  <2> QED BY <2>1, <2>2, <2>3 DEF BadgeServer, BadgePhone, BadgeTypeOK
<1> QED BY <1>1, BadgeHolds, PTL

(***************************************************************************)
(* unreadCount counts the unread messages, with the exceptions             *)
(* CountIsUnread names.                                                    *)
(***************************************************************************)
THEOREM BadgeCountIsUnread == BadgeSpec => []CountIsUnread
<1>1. BadgeServer /\ Counted => CountIsUnread
  BY DEF BadgeServer, Counted, Stored, CountIsUnread
<1> QED BY <1>1, BadgeHolds, PTL

(***************************************************************************)
(* A registered phone at rest shows the server's count, with the           *)
(* exceptions ShownIsCount names.                                          *)
(***************************************************************************)
THEOREM BadgeShownIsCount == BadgeSpec => []ShownIsCount
<1>1. LastReply => ShownIsCount
  BY DEF LastReply, ShownIsCount
<1> QED BY <1>1, BadgeHolds, PTL

\* Both at once: a phone at rest shows the number of unread messages.
THEOREM BadgesStayTrue == BadgeSpec => []BadgesAreTrue
<1>1. CountIsUnread /\ ShownIsCount => BadgesAreTrue
  BY DEF BadgesAreTrue
<1> QED BY <1>1, BadgeCountIsUnread, BadgeShownIsCount, PTL

-----------------------------------------------------------------------------
(* FollowButton *)

Labels == Relationships \cup {"blocked"}
AnyCall ==
    [op : {"follow", "unfollow", "accept", "confirm", "block", "unblock", "look"},
     from : {"button", "menu", "screen", "elsewhere"}, says : Labels,
     answer : Labels \cup {"awaited", "unavailable", "failed"},
     fresh : BOOLEAN, fits : BOOLEAN, late : BOOLEAN]

\* What the button can be held to: nothing ("unavailable") while an accept stands that
\* went across a block.
Truth == IF across /\ Relationship = "connected" THEN "unavailable" ELSE Relationship

ButtonShapes ==
    /\ rel \in Relationships /\ mine \in BOOLEAN /\ theirs \in BOOLEAN
    /\ place \in {"search", "profile"} /\ label \in Labels
    /\ visible \in BOOLEAN /\ fits \in BOOLEAN /\ typed \in BOOLEAN
    /\ outdated \in BOOLEAN /\ overtaken \in BOOLEAN /\ across \in BOOLEAN
    /\ calls \in Seq(AnyCall) /\ Len(calls) <= MaxCalls
    /\ place = "profile" => fits /\ ~typed

\* There is no connection, and no request, across a block, unless it was accepted so.
NoneAcross ==
    /\ across => rel = "connected"
    /\ mine \/ theirs => rel = "none" \/ across

LabelIsTrue == ~outdated /\ Truth # "unavailable" => label = Truth

\* What a call was made for, and what its answer, or the question before it, says.
Good(c, truth) ==
    /\ c.answer \notin {"awaited", "failed", "unavailable"} /\ c.fresh /\ truth # "unavailable"
         => c.answer = truth
    /\ c.op = "confirm" /\ c.from = "button" /\ c.fresh /\ truth # "unavailable"
         => truth = "connected"
    /\ c.op = "confirm" => c.answer = "awaited"
    /\ c.from = "screen" => c.op = "look"
    /\ c.from = "elsewhere" => ~c.fresh
    /\ c.from \in {"button", "menu"} /\ c.answer = "awaited" =>
         /\ c.op = "unfollow" => c.says \in {"requested", "connected"}
         /\ c.op = "accept" => c.says = "incoming"
         /\ c.op = "unblock" => c.says = "blocked"
         /\ c.op = "confirm" => c.says = "connected"
CallsAreGood == \A j \in 1..Len(calls) : Good(calls[j], Truth)

\* The last search made is still to answer, or none that answers is to be believed.
LatestOf(s, over, fit) ==
    \/ \E k \in 1..Len(s) :
         /\ s[k].from = "screen" /\ s[k].fits /\ ~s[k].late
         /\ \A j \in 1..Len(s) : j > k => s[j].from # "screen"
    \/ /\ \A j \in 1..Len(s) : s[j].from = "screen" => s[j].late
       /\ over \/ fit
Latest == place = "search" /\ ~typed => LatestOf(calls, overtaken, fits)

-----------------------------------------------------------------------------
(* Calls *)

Keeps(c, d) ==
    /\ d.op = c.op /\ d.from = c.from /\ d.says = c.says /\ d.answer = c.answer
    /\ d.fresh => c.fresh

LEMMA GoodKept ==
    ASSUME NEW c, NEW d, NEW t, NEW u, Good(c, t), Keeps(c, d),
           ~d.fresh \/ u \in {t, "unavailable"}
    PROVE  Good(d, u)
BY DEF Good, Keeps

\* The changes that calls go through.
LEMMA CallOutdated ==
    \A c \in AnyCall : LET d == [c EXCEPT !.fresh = FALSE]
                       IN  /\ d \in AnyCall /\ Keeps(c, d) /\ ~d.fresh
                           /\ d.fits = c.fits /\ d.late = c.late
<1> SUFFICES ASSUME NEW c \in AnyCall
             PROVE  LET d == [c EXCEPT !.fresh = FALSE]
                    IN  /\ d \in AnyCall /\ Keeps(c, d) /\ ~d.fresh
                        /\ d.fits = c.fits /\ d.late = c.late
  OBVIOUS
<1> DEFINE d == [c EXCEPT !.fresh = FALSE]
<1>1. d \in AnyCall
  BY DEF AnyCall
<1>2. Keeps(c, d) /\ ~d.fresh /\ d.fits = c.fits /\ d.late = c.late
  BY DEF AnyCall, Keeps
<1> QED BY <1>1, <1>2

LEMMA CallLate ==
    \A c \in AnyCall : LET d == [c EXCEPT !.late = TRUE]
                       IN  d \in AnyCall /\ Keeps(c, d) /\ d.late /\ d.fits = c.fits
<1> SUFFICES ASSUME NEW c \in AnyCall
             PROVE  LET d == [c EXCEPT !.late = TRUE]
                    IN  d \in AnyCall /\ Keeps(c, d) /\ d.late /\ d.fits = c.fits
  OBVIOUS
<1> DEFINE d == [c EXCEPT !.late = TRUE]
<1>1. d \in AnyCall
  BY DEF AnyCall
<1>2. Keeps(c, d) /\ d.late /\ d.fits = c.fits
  BY DEF AnyCall, Keeps
<1> QED BY <1>1, <1>2

LEMMA CallFits ==
    \A c \in AnyCall, b \in BOOLEAN : [c EXCEPT !.fits = b] \in AnyCall
                                      /\ Keeps(c, [c EXCEPT !.fits = b])
<1> SUFFICES ASSUME NEW c \in AnyCall, NEW b \in BOOLEAN
             PROVE  [c EXCEPT !.fits = b] \in AnyCall /\ Keeps(c, [c EXCEPT !.fits = b])
  OBVIOUS
<1>1. [c EXCEPT !.fits = b] \in AnyCall
  BY DEF AnyCall
<1>2. Keeps(c, [c EXCEPT !.fits = b])
  BY DEF AnyCall, Keeps
<1> QED BY <1>1, <1>2

\* OutdatedBy
LEMMA CallsOutdated ==
    ASSUME NEW s \in Seq(AnyCall)
    PROVE  /\ OutdatedBy(s) \in Seq(AnyCall) /\ Len(OutdatedBy(s)) = Len(s)
           /\ \A j \in 1..Len(s) :
                /\ Keeps(s[j], OutdatedBy(s)[j])
                /\ OutdatedBy(s)[j].fits = s[j].fits /\ OutdatedBy(s)[j].late = s[j].late
                /\ Relationship' # Relationship => ~OutdatedBy(s)[j].fresh
<1>1. Len(s) \in Nat /\ DOMAIN s = 1..Len(s) /\ \A j \in 1..Len(s) : s[j] \in AnyCall
  OBVIOUS
<1>2. CASE Relationship' = Relationship
  BY <1>1, <1>2 DEF OutdatedBy, Keeps
<1>3. CASE Relationship' # Relationship
  <2> DEFINE t == [j \in DOMAIN s |-> [s[j] EXCEPT !.fresh = FALSE]]
  <2>1. OutdatedBy(s) = t
    BY <1>3 DEF OutdatedBy
  <2>2. ASSUME NEW j \in 1..Len(s)
        PROVE  /\ t[j] \in AnyCall /\ Keeps(s[j], t[j]) /\ ~t[j].fresh
               /\ t[j].fits = s[j].fits /\ t[j].late = s[j].late
    <3>1. t[j] = [s[j] EXCEPT !.fresh = FALSE] /\ s[j] \in AnyCall
      BY <1>1
    <3> HIDE DEF t
    <3> QED BY <3>1, CallOutdated
  <2>3. DOMAIN t = 1..Len(s) /\ t = [j \in 1..Len(s) |-> t[j]]
    BY <1>1
  <2> HIDE DEF t
  <2>4. t \in Seq(AnyCall) /\ Len(t) = Len(s)
    BY <1>1, <2>2, <2>3, FunctionIsSeq
  <2> QED BY <2>1, <2>2, <2>4
<1> QED BY <1>2, <1>3

\* Overtaken
LEMMA CallsOvertaken ==
    ASSUME NEW s \in Seq(AnyCall)
    PROVE  /\ Overtaken(s) \in Seq(AnyCall) /\ Len(Overtaken(s)) = Len(s)
           /\ \A j \in 1..Len(s) :
                /\ Keeps(s[j], Overtaken(s)[j])
                /\ Overtaken(s)[j].fits = s[j].fits
                /\ s[j].from = "screen" => Overtaken(s)[j].late
                /\ s[j].from # "screen" => Overtaken(s)[j].late = s[j].late
<1>1. Len(s) \in Nat /\ DOMAIN s = 1..Len(s) /\ \A j \in 1..Len(s) : s[j] \in AnyCall
  OBVIOUS
<1> DEFINE t == Overtaken(s)
<1>2. ASSUME NEW j \in 1..Len(s)
      PROVE  /\ t[j] \in AnyCall /\ Keeps(s[j], t[j]) /\ t[j].fits = s[j].fits
             /\ s[j].from = "screen" => t[j].late
             /\ s[j].from # "screen" => t[j].late = s[j].late
  <2>1. t[j] = [s[j] EXCEPT !.late = s[j].late \/ s[j].from = "screen"] /\ s[j] \in AnyCall
    BY <1>1 DEF Overtaken
  <2>2. s[j].late \in BOOLEAN
    BY <1>1 DEF AnyCall
  <2> HIDE DEF t
  <2>3. CASE s[j].from = "screen"
    <3>1. t[j] = [s[j] EXCEPT !.late = TRUE]
      BY <2>1, <2>2, <2>3
    <3> QED BY <2>1, <2>3, <3>1, CallLate
  <2>4. CASE s[j].from # "screen"
    <3>1. (s[j].late \/ s[j].from = "screen") = s[j].late
      BY <2>2, <2>4
    <3>2. t[j] = s[j]
      BY <2>1, <3>1 DEF AnyCall
    <3> QED BY <2>1, <2>4, <3>2 DEF Keeps
  <2> QED BY <2>3, <2>4
<1>3. DOMAIN t = 1..Len(s) /\ t = [j \in 1..Len(s) |-> t[j]]
  BY <1>1 DEF Overtaken
<1> HIDE DEF t
<1>4. t \in Seq(AnyCall) /\ Len(t) = Len(s)
  BY <1>1, <1>2, <1>3, FunctionIsSeq
<1> QED BY <1>2, <1>4 DEF t

\* What is left when the answer of the i-th call, made by the screen, has landed.
LEMMA CallLanded ==
    ASSUME NEW s \in Seq(AnyCall), NEW i \in 1..Len(s)
    PROVE  LET t == Overtaken(SubSeq(s, 1, i - 1)) \o SubSeq(s, i + 1, Len(s))
           IN  /\ t \in Seq(AnyCall) /\ Len(t) = Len(s) - 1
               /\ \A j \in 1..Len(t) : j < i => /\ Keeps(s[j], t[j])
                                                /\ s[j].from = "screen" => t[j].late
               /\ \A j \in 1..Len(t) : ~(j < i) => t[j] = s[j + 1]
<1> DEFINE x == SubSeq(s, 1, i - 1)
           a == Overtaken(x)
           b == SubSeq(s, i + 1, Len(s))
           t == a \o b
<1>1. Len(s) \in Nat /\ i \in Nat /\ i >= 1 /\ i <= Len(s)
  OBVIOUS
<1>2. x \in Seq(AnyCall) /\ Len(x) = i - 1 /\ \A j \in 1..(i - 1) : x[j] = s[j]
  BY <1>1
<1>3. b \in Seq(AnyCall) /\ Len(b) = Len(s) - i /\ \A j \in 1..(Len(s) - i) : b[j] = s[j + i]
  BY <1>1
<1> HIDE DEF x
<1>4. /\ a \in Seq(AnyCall) /\ Len(a) = i - 1
      /\ \A j \in 1..(i - 1) : Keeps(s[j], a[j]) /\ (s[j].from = "screen" => a[j].late)
  BY <1>2, CallsOvertaken
<1> HIDE DEF a, b
<1>5. t \in Seq(AnyCall) /\ Len(t) = Len(a) + Len(b)
  BY <1>3, <1>4, ConcatProperties
<1>6. Len(t) = Len(s) - 1
  BY <1>1, <1>3, <1>4, <1>5
<1>7. \A j \in 1..Len(t) : j < i => t[j] = a[j] /\ j \in 1..(i - 1)
  BY <1>1, <1>3, <1>4, <1>6
<1>8. ASSUME NEW j \in 1..Len(t), ~(j < i) PROVE t[j] = s[j + 1]
  <2>1. t[j] = b[j - (i - 1)]
    BY <1>1, <1>3, <1>4, <1>6, <1>8
  <2>2. j - (i - 1) \in 1..(Len(s) - i)
    BY <1>1, <1>6, <1>8
  <2>3. b[j - (i - 1)] = s[(j - (i - 1)) + i] /\ (j - (i - 1)) + i = j + 1
    BY <1>1, <1>3, <1>6, <2>2
  <2> QED BY <2>1, <2>3
<1> HIDE DEF t
<1>9. \A j \in 1..Len(t) : j < i => Keeps(s[j], t[j]) /\ (s[j].from = "screen" => t[j].late)
  BY <1>4, <1>7
<1> QED BY <1>5, <1>6, <1>8, <1>9 DEF t, a, b, x

LEMMA CallMade ==
    ASSUME NEW op \in {"follow", "unfollow", "accept", "confirm", "block", "unblock", "look"},
           NEW from \in {"button", "menu", "screen", "elsewhere"}, NEW says \in Labels
    PROVE  /\ Call(op, from, says) \in AnyCall
           /\ Call(op, from, says).op = op /\ Call(op, from, says).from = from
           /\ Call(op, from, says).says = says /\ Call(op, from, says).answer = "awaited"
           /\ ~Call(op, from, says).fresh
           /\ Call(op, from, says).fits /\ ~Call(op, from, says).late
BY DEF Call, AnyCall

LEMMA CallFreshened ==
    ASSUME NEW c \in AnyCall, NEW b \in BOOLEAN
    PROVE  /\ [c EXCEPT !.fresh = b] \in AnyCall
           /\ [c EXCEPT !.fresh = b].op = c.op /\ [c EXCEPT !.fresh = b].from = c.from
           /\ [c EXCEPT !.fresh = b].says = c.says /\ [c EXCEPT !.fresh = b].answer = c.answer
           /\ [c EXCEPT !.fresh = b].fresh = b
           /\ [c EXCEPT !.fresh = b].fits = c.fits /\ [c EXCEPT !.fresh = b].late = c.late
<1>1. [c EXCEPT !.fresh = b] \in AnyCall
  BY DEF AnyCall
<1> QED BY <1>1 DEF AnyCall

LEMMA CallAdded ==
    ASSUME NEW s \in Seq(AnyCall), NEW c \in AnyCall
    PROVE  /\ Append(s, c) \in Seq(AnyCall) /\ Len(Append(s, c)) = Len(s) + 1
           /\ \A j \in 1..Len(s) : Append(s, c)[j] = s[j]
           /\ Append(s, c)[Len(s) + 1] = c
OBVIOUS

LEMMA CallReplaced ==
    ASSUME NEW s \in Seq(AnyCall), NEW i \in 1..Len(s), NEW c \in AnyCall
    PROVE  /\ [s EXCEPT ![i] = c] \in Seq(AnyCall) /\ Len([s EXCEPT ![i] = c]) = Len(s)
           /\ \A j \in 1..Len(s) : [s EXCEPT ![i] = c][j] = IF j = i THEN c ELSE s[j]
OBVIOUS

LEMMA CallIsTyped ==
    ASSUME ButtonShapes, NEW i \in DOMAIN calls
    PROVE  i \in 1..Len(calls) /\ calls[i] \in AnyCall
BY DEF ButtonShapes

LEMMA RelationshipIs ==
    ASSUME ButtonShapes PROVE Relationship \in Labels \cup {"unavailable"}
BY DEF ButtonShapes, Relationship, Labels

LEMMA ActionOfIs ==
    \A l \in Labels :
      /\ ActionOf[l] \in {"follow", "unfollow", "accept", "confirm", "unblock"}
      /\ ActionOf[l] = "unfollow" => l = "requested"
      /\ ActionOf[l] = "accept" => l = "incoming"
      /\ ActionOf[l] = "unblock" => l = "blocked"
      /\ ActionOf[l] = "confirm" => l = "connected"
BY DEF ActionOf, Labels, Relationships

\* ClosePage, TypeQuery, Confirms and CallFails
LEMMA CallsClosed ==
    ASSUME NEW s \in Seq(AnyCall)
    PROVE  LET t == [i \in DOMAIN s |->
                       [s[i] EXCEPT !.from = "elsewhere", !.says = "none", !.fresh = FALSE]]
           IN  /\ t \in Seq(AnyCall) /\ Len(t) = Len(s)
               /\ \A j \in 1..Len(s) : /\ t[j].from = "elsewhere" /\ ~t[j].fresh
                                       /\ t[j].op = s[j].op /\ t[j].answer = s[j].answer
<1> DEFINE t == [i \in DOMAIN s |->
                   [s[i] EXCEPT !.from = "elsewhere", !.says = "none", !.fresh = FALSE]]
<1>1. Len(s) \in Nat /\ DOMAIN s = 1..Len(s) /\ \A j \in 1..Len(s) : s[j] \in AnyCall
  OBVIOUS
<1>2. "none" \in Labels
  BY DEF Labels, Relationships
<1>3. ASSUME NEW c \in AnyCall
      PROVE  LET d == [c EXCEPT !.from = "elsewhere", !.says = "none", !.fresh = FALSE]
             IN  /\ d \in AnyCall /\ d.from = "elsewhere" /\ ~d.fresh
                 /\ d.op = c.op /\ d.answer = c.answer
  BY <1>2 DEF AnyCall
<1>4. ASSUME NEW j \in 1..Len(s)
      PROVE  /\ t[j] \in AnyCall /\ t[j].from = "elsewhere" /\ ~t[j].fresh
             /\ t[j].op = s[j].op /\ t[j].answer = s[j].answer
  <2>1. t[j] = [s[j] EXCEPT !.from = "elsewhere", !.says = "none", !.fresh = FALSE]
        /\ s[j] \in AnyCall
    BY <1>1
  <2> HIDE DEF t
  <2> QED BY <1>3, <2>1
<1>5. DOMAIN t = 1..Len(s) /\ t = [j \in 1..Len(s) |-> t[j]]
  BY <1>1
<1> HIDE DEF t
<1>6. t \in Seq(AnyCall) /\ Len(t) = Len(s)
  BY <1>1, <1>4, <1>5, FunctionIsSeq
<1> QED BY <1>4, <1>6 DEF t

LEMMA CallsRetyped ==
    ASSUME NEW s \in Seq(AnyCall)
    PROVE  LET t == [i \in DOMAIN s |-> [s[i] EXCEPT !.fits = (s[i].from # "screen")]]
           IN  /\ t \in Seq(AnyCall) /\ Len(t) = Len(s)
               /\ \A j \in 1..Len(s) : Keeps(s[j], t[j])
<1> DEFINE t == [i \in DOMAIN s |-> [s[i] EXCEPT !.fits = (s[i].from # "screen")]]
<1>1. Len(s) \in Nat /\ DOMAIN s = 1..Len(s) /\ \A j \in 1..Len(s) : s[j] \in AnyCall
  OBVIOUS
<1>2. ASSUME NEW j \in 1..Len(s) PROVE t[j] \in AnyCall /\ Keeps(s[j], t[j])
  <2>1. t[j] = [s[j] EXCEPT !.fits = (s[j].from # "screen")] /\ s[j] \in AnyCall
        /\ (s[j].from # "screen") \in BOOLEAN
    BY <1>1
  <2> HIDE DEF t
  <2> QED BY <2>1, CallFits
<1>3. DOMAIN t = 1..Len(s) /\ t = [j \in 1..Len(s) |-> t[j]]
  BY <1>1
<1> HIDE DEF t
<1>4. t \in Seq(AnyCall) /\ Len(t) = Len(s)
  BY <1>1, <1>2, <1>3, FunctionIsSeq
<1> QED BY <1>2, <1>4 DEF t

LEMMA CallConfirmed ==
    ASSUME ButtonShapes, NEW i \in DOMAIN calls, Confirms(i)
    PROVE  /\ calls' \in Seq(AnyCall) /\ Len(calls') = Len(calls)
           /\ \A j \in 1..Len(calls) : j # i => calls'[j] = calls[j]
           /\ calls'[i].op = "unfollow" /\ ~calls'[i].fresh
           /\ calls'[i].from = calls[i].from /\ calls'[i].says = calls[i].says
           /\ calls'[i].answer = calls[i].answer
           /\ calls'[i].fits = calls[i].fits /\ calls'[i].late = calls[i].late
<1> DEFINE d == [calls[i] EXCEPT !.op = "unfollow", !.fresh = FALSE]
<1>1. i \in 1..Len(calls) /\ calls[i] \in AnyCall /\ calls \in Seq(AnyCall)
  BY CallIsTyped DEF ButtonShapes
<1>2. calls' = [calls EXCEPT ![i] = d]
  BY DEF Confirms
<1>3. /\ d \in AnyCall /\ d.op = "unfollow" /\ ~d.fresh /\ d.from = calls[i].from
      /\ d.says = calls[i].says /\ d.answer = calls[i].answer
      /\ d.fits = calls[i].fits /\ d.late = calls[i].late
  BY <1>1 DEF AnyCall
<1> HIDE DEF d
<1>4. /\ calls' \in Seq(AnyCall) /\ Len(calls') = Len(calls)
      /\ \A j \in 1..Len(calls) : calls'[j] = IF j = i THEN d ELSE calls[j]
  BY <1>1, <1>2, <1>3, CallReplaced
<1>5. calls'[i] = d /\ \A j \in 1..Len(calls) : j # i => calls'[j] = calls[j]
  BY <1>1, <1>4
<1> QED BY <1>3, <1>4, <1>5

LEMMA CallFailed ==
    ASSUME ButtonShapes, NEW i \in DOMAIN calls, CallFails(i)
    PROVE  /\ calls' \in Seq(AnyCall) /\ Len(calls') = Len(calls)
           /\ \A j \in 1..Len(calls) : j # i => calls'[j] = calls[j]
           /\ calls'[i].op = calls[i].op /\ calls'[i].fresh = calls[i].fresh
           /\ calls'[i].from = calls[i].from /\ calls'[i].answer = "failed"
           /\ calls'[i].fits = calls[i].fits /\ calls'[i].late = calls[i].late
<1> DEFINE d == [calls[i] EXCEPT !.answer = "failed", !.says = "none"]
<1>1. i \in 1..Len(calls) /\ calls[i] \in AnyCall /\ calls \in Seq(AnyCall)
  BY CallIsTyped DEF ButtonShapes
<1>2. calls' = [calls EXCEPT ![i] = d]
  BY <1>1 DEF CallFails
<1>3. "none" \in Labels
  BY DEF Labels, Relationships
<1>4. /\ d \in AnyCall /\ d.op = calls[i].op /\ d.fresh = calls[i].fresh
      /\ d.from = calls[i].from /\ d.answer = "failed"
      /\ d.fits = calls[i].fits /\ d.late = calls[i].late
  BY <1>1, <1>3 DEF AnyCall
<1> HIDE DEF d
<1>5. /\ calls' \in Seq(AnyCall) /\ Len(calls') = Len(calls)
      /\ \A j \in 1..Len(calls) : calls'[j] = IF j = i THEN d ELSE calls[j]
  BY <1>1, <1>2, <1>4, CallReplaced
<1>6. calls'[i] = d /\ \A j \in 1..Len(calls) : j # i => calls'[j] = calls[j]
  BY <1>1, <1>5
<1> QED BY <1>4, <1>5, <1>6

\* What Serve makes of a call.
LEMMA ServedCall ==
    ASSUME ButtonShapes, NEW i \in DOMAIN calls, Serve(i)
    PROVE  \E d \in AnyCall :
             /\ calls' = [OutdatedBy(calls) EXCEPT ![i] = d]
             /\ d.op = calls[i].op /\ d.from = calls[i].from
             /\ d.fits = calls[i].fits /\ d.late = calls[i].late
             /\ d.answer = AnswerTo(calls[i].op)
             /\ d.fresh => /\ calls[i].from # "elsewhere"
                           /\ \/ calls[i].op \in {"follow", "block", "look"}
                              \/ calls[i].says = Relationship
<1> DEFINE c == calls[i]
           e == /\ c.from # "elsewhere"
                /\ \/ c.op \in {"follow", "block", "look"}
                   \/ c.says = Relationship
<1>1. c \in AnyCall /\ c.op # "confirm"
  BY CallIsTyped DEF Serve
<1>2. AnswerTo(c.op) \in Labels \cup {"awaited", "unavailable", "failed"}
  BY RelationshipIs DEF AnswerTo, ButtonShapes, Labels, Relationships
<1>3. "none" \in Labels /\ e \in BOOLEAN
  BY DEF Labels, Relationships
<1> DEFINE d == [c EXCEPT !.answer = AnswerTo(c.op), !.says = "none", !.fresh = e]
<1>4. calls' = [OutdatedBy(calls) EXCEPT ![i] = d]
  BY DEF Serve
<1>6. PICK a \in Labels \cup {"awaited", "unavailable", "failed"} : a = AnswerTo(c.op)
  BY <1>2
<1>7. PICK b \in BOOLEAN : b = e
  BY <1>3
<1> DEFINE x == [c EXCEPT !.answer = a, !.says = "none", !.fresh = b]
<1>8. calls' = [OutdatedBy(calls) EXCEPT ![i] = x]
  BY <1>4, <1>6, <1>7
<1>9. /\ x \in AnyCall /\ x.op = c.op /\ x.from = c.from /\ x.fits = c.fits
      /\ x.late = c.late /\ x.answer = a /\ x.fresh = b
  <2>1. x \in AnyCall
    BY <1>1, <1>3 DEF AnyCall
  <2> QED BY <1>1, <2>1 DEF AnyCall
<1>10. b => /\ c.from # "elsewhere"
            /\ \/ c.op \in {"follow", "block", "look"}
               \/ c.says = Relationship
  BY <1>7
<1> HIDE DEF x, e, d
<1>11. x.answer = AnswerTo(c.op)
  BY <1>6, <1>9
<1>12. x.fresh => /\ c.from # "elsewhere"
                  /\ \/ c.op \in {"follow", "block", "look"}
                     \/ c.says = Relationship
  BY <1>9, <1>10
<1> QED BY <1>8, <1>9, <1>11, <1>12

LEMMA ServeChanges ==
    ASSUME ButtonShapes, NEW i \in DOMAIN calls, Serve(i)
    PROVE  /\ rel' \in Relationships /\ mine' \in BOOLEAN /\ theirs' = theirs
           /\ UNCHANGED <<place, label, visible, searchVars>>
           /\ outdated' \in BOOLEAN /\ across' \in BOOLEAN
           /\ Relationship' # Relationship \/ outdated => outdated'
           /\ across' => rel' = "connected"
           /\ across /\ rel' = "connected" => across'
<1>1. calls[i] \in AnyCall
  BY CallIsTyped
<1>2. Does(calls[i].op)
  BY DEF Serve
<1>3. rel' \in Relationships /\ mine' \in BOOLEAN /\ theirs' = theirs
  BY <1>1, <1>2 DEF Does, ButtonShapes, Relationships, serverRel, AnyCall
<1>4. UNCHANGED <<place, label, visible, searchVars>>
  BY DEF Serve
<1>5. outdated' = (outdated \/ Relationship' # Relationship)
      /\ across' = (rel' = "connected" /\ (across \/ (calls[i].op = "accept" /\ (mine \/ theirs))))
  BY DEF Serve
<1>6. outdated' \in BOOLEAN /\ across' \in BOOLEAN
  BY <1>5 DEF ButtonShapes
<1>7. /\ Relationship' # Relationship \/ outdated => outdated'
      /\ across' => rel' = "connected"
      /\ across /\ rel' = "connected" => across'
  BY <1>5
<1> QED BY <1>3, <1>4, <1>6, <1>7

LEMMA OthersChange ==
    ASSUME ButtonShapes, OtherActs
    PROVE  /\ rel' \in Relationships /\ mine' = mine /\ theirs' \in BOOLEAN
           /\ UNCHANGED <<place, label, visible, searchVars>>
           /\ outdated' \in BOOLEAN /\ across' \in BOOLEAN
           /\ Relationship' # Relationship \/ outdated => outdated'
           /\ across' => rel' = "connected"
           /\ across /\ rel' = "connected" <=> across'
           /\ calls' = OutdatedBy(calls)
<1>1. rel' \in Relationships /\ mine' = mine /\ theirs' \in BOOLEAN
  BY DEF OtherActs, ButtonShapes, Relationships
<1>2. outdated' = (outdated \/ Relationship' # Relationship)
      /\ across' = (across /\ rel' = "connected")
      /\ UNCHANGED <<place, label, visible, searchVars>> /\ calls' = OutdatedBy(calls)
  BY DEF OtherActs
<1>3. outdated' \in BOOLEAN /\ across' \in BOOLEAN
  BY <1>2 DEF ButtonShapes
<1>4. /\ Relationship' # Relationship \/ outdated => outdated'
      /\ across' => rel' = "connected"
      /\ across /\ rel' = "connected" <=> across'
  BY <1>2
<1> QED BY <1>1, <1>2, <1>3, <1>4

LEMMA ButtonShapesStep ==
    ButtonShapes /\ [ButtonNext]_buttonVars => ButtonShapes'
<1> SUFFICES ASSUME ButtonShapes, [ButtonNext]_buttonVars PROVE ButtonShapes'
  OBVIOUS
<1>0. Len(calls) \in Nat /\ MaxCalls \in Nat /\ "none" \in Labels /\ calls \in Seq(AnyCall)
      /\ Len(calls) <= MaxCalls
  BY ButtonAssumption DEF ButtonShapes, Labels, Relationships
<1>1. ASSUME calls' \in Seq(AnyCall), Len(calls') <= MaxCalls,
             UNCHANGED <<serverRel, place, across>>,
             label' \in Labels, visible' \in BOOLEAN, outdated' \in BOOLEAN,
             overtaken' \in BOOLEAN, fits' \in BOOLEAN, typed' \in BOOLEAN,
             place = "profile" => fits' /\ ~typed'
      PROVE  ButtonShapes'
  BY <1>1 DEF ButtonShapes, serverRel
<1>2. ASSUME calls' \in Seq(AnyCall), Len(calls') <= MaxCalls,
             UNCHANGED <<serverRel, place, across, searchVars>>,
             label' \in Labels, visible' \in BOOLEAN, outdated' \in BOOLEAN
      PROVE  ButtonShapes'
  <2>1. overtaken' \in BOOLEAN /\ fits' \in BOOLEAN /\ typed' \in BOOLEAN
        /\ (place = "profile" => fits' /\ ~typed')
    BY <1>2 DEF ButtonShapes, searchVars
  <2> QED BY <1>1, <1>2, <2>1
<1>3. ASSUME NEW c \in AnyCall, Makes(c)
      PROVE  calls' \in Seq(AnyCall) /\ Len(calls') <= MaxCalls
  <2>1. Len(Append(calls, c)) = Len(calls) + 1 /\ Append(calls, c) \in Seq(AnyCall)
    BY <1>0, CallAdded
  <2> QED BY <1>0, <1>3, <2>1 DEF Makes
<1>4. label \in Labels /\ visible \in BOOLEAN /\ outdated \in BOOLEAN /\ (~outdated) \in BOOLEAN
      /\ overtaken \in BOOLEAN /\ fits \in BOOLEAN /\ typed \in BOOLEAN
  BY DEF ButtonShapes
<1>5. CASE OtherActs
  <2>1. calls' \in Seq(AnyCall) /\ Len(calls') = Len(calls)
    BY <1>0, <1>5, CallsOutdated, OthersChange
  <2>2. /\ rel' \in Relationships /\ mine' = mine /\ theirs' \in BOOLEAN
        /\ UNCHANGED <<place, label, visible, searchVars>>
        /\ outdated' \in BOOLEAN /\ across' \in BOOLEAN
    BY <1>5, OthersChange
  <2> QED BY <1>0, <2>1, <2>2 DEF ButtonShapes, searchVars
<1>6. CASE Tap
  <2>0. Call(ActionOf[label], "button", label) \in AnyCall
    BY <1>4, ActionOfIs, CallMade
  <2>1. [Call(ActionOf[label], "button", label) EXCEPT !.fresh = ~outdated] \in AnyCall
    BY <1>4, <2>0, CallFreshened
  <2> QED BY <1>2, <1>3, <1>4, <1>6, <2>1 DEF Tap
<1>7. CASE TapMenu
  <2>1. Call(IF label = "blocked" THEN "unblock" ELSE "block", "menu", label) \in AnyCall
    BY <1>4, CallMade
  <2> QED BY <1>2, <1>3, <1>4, <1>7, <2>1 DEF TapMenu
<1>8. CASE TapElsewhere
  <2>1. PICK op \in {"follow", "unfollow", "accept", "block", "unblock"} :
          Makes(Call(op, "elsewhere", "none"))
    BY <1>8 DEF TapElsewhere
  <2>2. Call(op, "elsewhere", "none") \in AnyCall
    BY <1>0, CallMade
  <2> QED BY <1>2, <1>3, <1>4, <1>8, <2>1, <2>2 DEF TapElsewhere
<1>9. CASE OpenPage
  <2>1. Call("look", "screen", "none") \in AnyCall
    BY <1>0, CallMade
  <2> QED BY <1>2, <1>3, <1>4, <1>9, <2>1 DEF OpenPage
<1>10. CASE ClosePage
  <2>1. calls' \in Seq(AnyCall) /\ Len(calls') = Len(calls)
    BY <1>10, CallsClosed, <1>0 DEF ClosePage
  <2> QED BY <1>0, <1>2, <1>10, <2>1 DEF ClosePage
<1>11. CASE TypeQuery
  <2>1. calls' \in Seq(AnyCall) /\ Len(calls') = Len(calls)
    BY <1>11, CallsRetyped, <1>0 DEF TypeQuery
  <2> QED BY <1>0, <1>1, <1>4, <1>11, <2>1 DEF TypeQuery
<1>12. CASE Searches
  <2>1. Call("look", "screen", "none") \in AnyCall
    BY <1>0, CallMade
  <2>2. Overtaken(calls) \in Seq(AnyCall) /\ Len(Overtaken(calls)) = Len(calls)
    BY <1>0, CallsOvertaken
  <2>3. calls' \in Seq(AnyCall) /\ Len(calls') <= MaxCalls
    BY <1>0, <1>3, <1>12, <2>1, <2>2 DEF Searches
  <2>4. place # "profile"
    BY <1>12 DEF Searches, ButtonShapes
  <2>5. overtaken' \in BOOLEAN /\ fits' \in BOOLEAN /\ typed' \in BOOLEAN /\ visible' \in BOOLEAN
    BY <1>4, <1>12 DEF Searches
  <2> QED BY <1>1, <1>4, <1>12, <2>3, <2>4, <2>5 DEF Searches
<1>13. ASSUME NEW i \in DOMAIN calls, Confirms(i) PROVE ButtonShapes'
  <2>1. calls' \in Seq(AnyCall) /\ Len(calls') = Len(calls)
    BY <1>13, CallConfirmed
  <2> QED BY <1>0, <1>2, <1>4, <1>13, <2>1 DEF Confirms
<1>14. ASSUME NEW i \in DOMAIN calls, Cancels(i) PROVE ButtonShapes'
  <2>1. calls' \in Seq(AnyCall) /\ Len(calls') = Len(calls) - 1
    BY <1>0, <1>14, CallIsTyped, ElementRemoved DEF Cancels
  <2>2. label' \in Labels /\ outdated' \in BOOLEAN
    <3>1. calls[i].fresh \in BOOLEAN /\ "connected" \in Labels
      BY CallIsTyped DEF AnyCall, Labels, Relationships
    <3> QED BY <1>4, <1>14, <3>1 DEF Cancels
  <2> QED BY <1>0, <1>2, <1>4, <1>14, <2>1, <2>2 DEF Cancels
<1>15. ASSUME NEW i \in DOMAIN calls, Serve(i) PROVE ButtonShapes'
  <2>1. PICK d \in AnyCall : calls' = [OutdatedBy(calls) EXCEPT ![i] = d]
    BY <1>15, ServedCall
  <2>2. OutdatedBy(calls) \in Seq(AnyCall) /\ Len(OutdatedBy(calls)) = Len(calls)
        /\ i \in 1..Len(calls)
    BY <1>0, CallsOutdated, CallIsTyped
  <2>3. calls' \in Seq(AnyCall) /\ Len(calls') = Len(calls)
    BY <2>1, <2>2, CallReplaced
  <2>4. /\ rel' \in Relationships /\ mine' \in BOOLEAN /\ theirs' = theirs
        /\ UNCHANGED <<place, label, visible, searchVars>>
        /\ outdated' \in BOOLEAN /\ across' \in BOOLEAN
    BY <1>15, ServeChanges
  <2> QED BY <1>0, <2>3, <2>4 DEF ButtonShapes, searchVars
<1>16. ASSUME NEW i \in DOMAIN calls, CallFails(i) PROVE ButtonShapes'
  <2>1. calls' \in Seq(AnyCall) /\ Len(calls') = Len(calls)
    BY <1>16, CallFailed
  <2> QED BY <1>0, <1>2, <1>4, <1>16, <2>1 DEF CallFails
<1>17. ASSUME NEW i \in DOMAIN calls, Lands(i) PROVE ButtonShapes'
  <2>1. i \in 1..Len(calls) /\ calls[i] \in AnyCall
    BY CallIsTyped
  <2>2. calls' \in Seq(AnyCall) /\ Len(calls') = Len(calls) - 1
    <3>1. CASE calls[i].from = "screen"
      BY <1>0, <1>17, <2>1, <3>1, CallLanded DEF Lands
    <3>2. CASE calls[i].from # "screen"
      BY <1>0, <1>17, <2>1, <3>2, ElementRemoved DEF Lands
    <3> QED BY <3>1, <3>2
  <2>3. label' \in Labels /\ outdated' \in BOOLEAN
    BY <1>4, <1>17, <2>1 DEF Lands, AnyCall
  <2>4. /\ visible' \in BOOLEAN /\ fits' \in BOOLEAN /\ overtaken' \in BOOLEAN
        /\ place = "profile" => fits' = fits
    BY <1>4, <1>17, <2>1 DEF Lands, AnyCall
  <2>5. UNCHANGED <<serverRel, place, typed, across>>
    BY <1>17 DEF Lands
  <2>6. place = "profile" => fits' /\ ~typed'
    BY <2>4, <2>5 DEF ButtonShapes
  <2> QED BY <1>0, <1>1, <1>4, <2>2, <2>3, <2>4, <2>5, <2>6
<1>18. CASE UNCHANGED buttonVars
  BY <1>18 DEF buttonVars, serverRel, searchVars, ButtonShapes
<1> QED
  BY <1>5, <1>6, <1>7, <1>8, <1>9, <1>10, <1>11, <1>12, <1>13, <1>14, <1>15, <1>16, <1>17, <1>18
     DEF ButtonNext

LEMMA TruthKept ==
    ASSUME Relationship' = Relationship, across /\ rel' = "connected" => across'
    PROVE  Truth' \in {Truth, "unavailable"}
<1>1. Relationship' = "connected" => rel' = "connected"
  BY DEF Relationship
<1> QED BY <1>1 DEF Truth

LEMMA TruthSame ==
    ASSUME UNCHANGED <<serverRel, across>> PROVE Truth' = Truth /\ Relationship' = Relationship
BY DEF Truth, Relationship, serverRel

LEMMA NoneAcrossStep ==
    ButtonShapes /\ NoneAcross /\ [ButtonNext]_buttonVars => NoneAcross'
<1> SUFFICES ASSUME ButtonShapes, NoneAcross, [ButtonNext]_buttonVars PROVE NoneAcross'
  OBVIOUS
<1>1. CASE OtherActs
  <2>1. (across /\ rel' = "connected" <=> across') /\ mine' = mine
    BY <1>1, OthersChange
  <2> QED BY <1>1, <2>1 DEF OtherActs, NoneAcross
<1>2. ASSUME NEW i \in DOMAIN calls, Serve(i) PROVE NoneAcross'
  <2>1. calls[i] \in AnyCall /\ Does(calls[i].op)
    BY <1>2, CallIsTyped DEF Serve
  <2>2. across' = (rel' = "connected"
                   /\ (across \/ (calls[i].op = "accept" /\ (mine \/ theirs))))
    BY <1>2 DEF Serve
  <2>3. CASE calls[i].op = "follow"
    BY <2>1, <2>2, <2>3 DEF Does, NoneAcross
  <2>4. CASE calls[i].op = "unfollow"
    BY <2>1, <2>2, <2>4 DEF Does, NoneAcross
  <2>5. CASE calls[i].op = "accept"
    BY <2>1, <2>2, <2>5 DEF Does, NoneAcross
  <2>6. CASE calls[i].op = "block"
    BY <2>1, <2>2, <2>6 DEF Does, NoneAcross
  <2>7. CASE calls[i].op = "unblock"
    BY <2>1, <2>2, <2>7 DEF Does, NoneAcross
  <2>8. CASE calls[i].op \in {"confirm", "look"}
    BY <2>1, <2>2, <2>8 DEF Does, NoneAcross, serverRel
  <2> QED BY <2>1, <2>3, <2>4, <2>5, <2>6, <2>7, <2>8 DEF AnyCall
<1>3. CASE UNCHANGED <<serverRel, across>>
  BY <1>3 DEF NoneAcross, serverRel
<1> QED
  BY <1>1, <1>2, <1>3 DEF ButtonNext, Tap, TapMenu, TapElsewhere, OpenPage, ClosePage, TypeQuery,
     Searches, Confirms, Cancels, CallFails, Lands, buttonVars

\* The answer to a call says what the relationship is then.
LEMMA ServedIsGood ==
    ASSUME ButtonShapes, NoneAcross, CallsAreGood, NEW i \in DOMAIN calls, Serve(i),
           NEW d \in AnyCall, d.op = calls[i].op, d.from = calls[i].from,
           d.answer = AnswerTo(calls[i].op),
           d.fresh => /\ calls[i].from # "elsewhere"
                      /\ \/ calls[i].op \in {"follow", "block", "look"}
                         \/ calls[i].says = Relationship
    PROVE  Good(d, Truth')
<1> DEFINE c == calls[i]
<1>1. i \in 1..Len(calls) /\ c \in AnyCall /\ Good(c, Truth)
  BY CallIsTyped DEF CallsAreGood
<1>2. Does(c.op) /\ c.op # "confirm" /\ c.answer = "awaited"
  BY DEF Serve
<1>3. d.answer # "awaited"
  BY RelationshipIs DEF AnswerTo, Labels, Relationships, ButtonShapes
<1>4. /\ d.from = "screen" => d.op = "look"
      /\ d.from = "elsewhere" => ~d.fresh
      /\ d.op # "confirm"
  BY <1>1, <1>2 DEF Good
<1>5. ASSUME d.answer \notin {"awaited", "failed", "unavailable"}, d.fresh,
             Truth' # "unavailable"
      PROVE  d.answer = Truth'
  <2>1. Truth' = Relationship' /\ ~(across' /\ Relationship' = "connected")
    BY <1>5 DEF Truth
  <2>2. across /\ rel' = "connected" => across'
    BY ServeChanges
  <2>3. c.from \in {"button", "menu"} \/ c.op = "look"
    BY <1>1, <1>5 DEF Good, AnyCall
  <2> HIDE DEF c
  <2>4. CASE c.op = "follow"
    <3>1. ~mine /\ ~theirs
      BY <1>5, <2>4 DEF AnswerTo, c
    <3>2. rel' = (IF rel = "none" THEN "requested" ELSE rel) /\ UNCHANGED <<mine, theirs>>
      BY <1>2, <2>4, <3>1 DEF Does
    <3>3. Relationship' = rel'
      BY <3>1, <3>2 DEF Relationship
    <3>4. d.answer = IF rel = "none" THEN "requested" ELSE rel
      BY <2>4, <3>1 DEF AnswerTo, c
    <3> QED BY <2>1, <3>2, <3>3, <3>4
  <2>5. CASE c.op = "unfollow"
    <3>1. c.says \in {"requested", "connected"} /\ c.says = Relationship
      BY <1>1, <1>2, <1>5, <2>3, <2>5 DEF Good, c
    <3>2. ~mine /\ ~theirs
      BY <3>1 DEF Relationship
    <3>3. rel' = "none" /\ UNCHANGED <<mine, theirs>>
      BY <1>2, <2>5 DEF Does
    <3>4. Relationship' = "none" /\ d.answer = "none"
      BY <2>5, <3>2, <3>3 DEF Relationship, AnswerTo, c
    <3> QED BY <2>1, <3>4
  <2>6. CASE c.op = "accept"
    <3>1. c.says = "incoming" /\ c.says = Relationship
      BY <1>1, <1>2, <1>5, <2>3, <2>6 DEF Good, c
    <3>2. ~mine /\ ~theirs
      BY <3>1 DEF Relationship
    <3>3. rel' = "connected" /\ UNCHANGED <<mine, theirs>>
      BY <1>2, <2>6 DEF Does
    <3>4. Relationship' = "connected" /\ d.answer = "connected"
      BY <2>6, <3>2, <3>3 DEF Relationship, AnswerTo, c
    <3> QED BY <2>1, <3>4
  <2>7. CASE c.op = "block"
    <3>1. mine'
      BY <1>2, <2>7 DEF Does
    <3>2. Relationship' = "blocked" /\ d.answer = "blocked"
      BY <2>7, <3>1 DEF Relationship, AnswerTo, c
    <3> QED BY <2>1, <3>2
  <2>8. CASE c.op = "unblock"
    <3>1. c.says = "blocked" /\ c.says = Relationship
      BY <1>1, <1>2, <1>5, <2>3, <2>8 DEF Good, c
    <3>2. mine
      BY <3>1 DEF Relationship, ButtonShapes, Relationships
    <3>3. ~mine' /\ rel' = rel /\ theirs' = theirs
      BY <1>2, <2>8 DEF Does
    <3>4. ~theirs'
      BY <1>5, <2>1, <3>3 DEF Relationship
    <3>5. Relationship' = rel
      BY <3>3, <3>4 DEF Relationship
    <3>6. ~across
      BY <2>1, <2>2, <3>3, <3>5 DEF NoneAcross
    <3>7. rel = "none" /\ d.answer = "none"
      BY <2>8, <3>2, <3>6 DEF NoneAcross, AnswerTo, c
    <3> QED BY <2>1, <3>5, <3>7
  <2>9. CASE c.op = "look"
    <3>1. UNCHANGED serverRel
      BY <1>2, <2>9 DEF Does
    <3>2. Relationship' = Relationship /\ d.answer = Relationship
      BY <2>9, <3>1 DEF Relationship, serverRel, AnswerTo, c
    <3> QED BY <2>1, <3>2
  <2> QED BY <1>1, <1>2, <2>4, <2>5, <2>6, <2>7, <2>8, <2>9 DEF AnyCall
<1> QED BY <1>3, <1>4, <1>5 DEF Good

LEMMA CallsAreGoodStep ==
    ButtonShapes /\ NoneAcross /\ LabelIsTrue /\ CallsAreGood /\ [ButtonNext]_buttonVars
      => CallsAreGood'
<1> SUFFICES ASSUME ButtonShapes, NoneAcross, LabelIsTrue, CallsAreGood, [ButtonNext]_buttonVars
             PROVE  CallsAreGood'
  OBVIOUS
<1>0. Len(calls) \in Nat /\ calls \in Seq(AnyCall) /\ "none" \in Labels /\ label \in Labels
      /\ outdated \in BOOLEAN /\ (~outdated) \in BOOLEAN
  BY DEF ButtonShapes, Labels, Relationships
<1>1. \A j \in 1..Len(calls) : Good(calls[j], Truth)
  BY DEF CallsAreGood
<1>2. ASSUME NEW c \in AnyCall, Makes(c), Good(c, Truth), Truth' = Truth PROVE CallsAreGood'
  <2>1. calls' = Append(calls, c)
    BY <1>2 DEF Makes
  <2>2. /\ Len(calls') = Len(calls) + 1
        /\ \A j \in 1..Len(calls) : calls'[j] = calls[j]
        /\ calls'[Len(calls) + 1] = c
    BY <1>0, <2>1, CallAdded
  <2>3. ASSUME NEW j \in 1..Len(calls') PROVE Good(calls'[j], Truth)
    <3>1. j \in 1..Len(calls) \/ j = Len(calls) + 1
      BY <1>0, <2>2
    <3> QED BY <1>1, <1>2, <2>2, <3>1
  <2> QED BY <1>2, <2>3 DEF CallsAreGood
<1>3. ASSUME Len(calls') = Len(calls), Truth' = Truth,
             \A j \in 1..Len(calls) : Keeps(calls[j], calls'[j])
      PROVE  CallsAreGood'
  <2>1. ASSUME NEW j \in 1..Len(calls) PROVE Good(calls'[j], Truth)
    BY <1>1, <1>3, GoodKept
  <2> QED BY <1>3, <2>1 DEF CallsAreGood
<1>4. CASE OtherActs
  <2>1. /\ calls' = OutdatedBy(calls)
        /\ across /\ rel' = "connected" => across'
    BY <1>4, OthersChange
  <2>2. /\ Len(calls') = Len(calls)
        /\ \A j \in 1..Len(calls) :
             /\ Keeps(calls[j], calls'[j])
             /\ Relationship' # Relationship => ~calls'[j].fresh
    BY <1>0, <2>1, CallsOutdated
  <2>3. ASSUME NEW j \in 1..Len(calls) PROVE Good(calls'[j], Truth')
    BY <1>1, <2>1, <2>2, TruthKept, GoodKept
  <2> QED BY <2>2, <2>3 DEF CallsAreGood
<1>5. CASE Tap
  <2> DEFINE d == Call(ActionOf[label], "button", label)
             c == [d EXCEPT !.fresh = ~outdated]
  <2>1. /\ d \in AnyCall /\ d.op = ActionOf[label] /\ d.from = "button" /\ d.says = label
        /\ d.answer = "awaited"
    BY <1>0, ActionOfIs, CallMade
  <2>2. Makes(c) /\ UNCHANGED <<serverRel, across>>
    BY <1>5 DEF Tap
  <2> HIDE DEF d
  <2>3. /\ c \in AnyCall /\ c.op = ActionOf[label] /\ c.from = "button" /\ c.says = label
        /\ c.answer = "awaited" /\ c.fresh = ~outdated
    BY <1>0, <2>1, CallFreshened
  <2> HIDE DEF c
  <2>4. Good(c, Truth)
    <3>1. c.op = "confirm" /\ c.fresh /\ Truth # "unavailable" => Truth = "connected"
      BY <1>0, <2>3, ActionOfIs DEF LabelIsTrue
    <3>2. /\ c.op = "unfollow" => c.says \in {"requested", "connected"}
          /\ c.op = "accept" => c.says = "incoming"
          /\ c.op = "unblock" => c.says = "blocked"
          /\ c.op = "confirm" => c.says = "connected"
      BY <1>0, <2>3, ActionOfIs
    <3> QED BY <2>3, <3>1, <3>2 DEF Good
  <2> QED BY <1>2, <2>2, <2>3, <2>4, TruthSame
<1>6. CASE TapMenu
  <2> DEFINE c == Call(IF label = "blocked" THEN "unblock" ELSE "block", "menu", label)
  <2>1. /\ c \in AnyCall /\ c.op = (IF label = "blocked" THEN "unblock" ELSE "block")
        /\ c.from = "menu" /\ c.says = label /\ c.answer = "awaited" /\ ~c.fresh
    BY <1>0, CallMade
  <2>2. Makes(c) /\ UNCHANGED <<serverRel, across>>
    BY <1>6 DEF TapMenu
  <2> HIDE DEF c
  <2>3. Good(c, Truth)
    BY <2>1 DEF Good
  <2> QED BY <1>2, <2>1, <2>2, <2>3, TruthSame
<1>7. CASE TapElsewhere
  <2>1. PICK op \in {"follow", "unfollow", "accept", "block", "unblock"} :
          Makes(Call(op, "elsewhere", "none"))
    BY <1>7 DEF TapElsewhere
  <2> DEFINE c == Call(op, "elsewhere", "none")
  <2>2. c \in AnyCall /\ c.op = op /\ c.from = "elsewhere" /\ c.answer = "awaited" /\ ~c.fresh
    BY <1>0, CallMade
  <2>3. UNCHANGED <<serverRel, across>> /\ Makes(c)
    BY <1>7, <2>1 DEF TapElsewhere
  <2> HIDE DEF c
  <2>4. Good(c, Truth)
    BY <2>2 DEF Good
  <2> QED BY <1>2, <2>2, <2>3, <2>4, TruthSame
<1>8. ASSUME Makes(Call("look", "screen", "none")), UNCHANGED <<serverRel, across>>
      PROVE  CallsAreGood'
  <2> DEFINE c == Call("look", "screen", "none")
  <2>1. c \in AnyCall /\ c.op = "look" /\ c.from = "screen" /\ c.answer = "awaited" /\ ~c.fresh
    BY <1>0, CallMade
  <2>2. Makes(c)
    BY <1>8
  <2> HIDE DEF c
  <2>3. Good(c, Truth)
    BY <2>1 DEF Good
  <2> QED BY <1>2, <1>8, <2>1, <2>2, <2>3, TruthSame
<1>9. CASE OpenPage
  BY <1>8, <1>9 DEF OpenPage
<1>10. CASE ClosePage
  <2>1. /\ Len(calls') = Len(calls) /\ Truth' = Truth
        /\ \A j \in 1..Len(calls) : /\ calls'[j].from = "elsewhere" /\ ~calls'[j].fresh
                                    /\ calls'[j].op = calls[j].op
                                    /\ calls'[j].answer = calls[j].answer
    BY <1>0, <1>10, CallsClosed, TruthSame DEF ClosePage
  <2>2. ASSUME NEW j \in 1..Len(calls) PROVE Good(calls'[j], Truth)
    BY <1>1, <2>1 DEF Good
  <2> QED BY <2>1, <2>2 DEF CallsAreGood
<1>11. CASE TypeQuery
  <2>1. Len(calls') = Len(calls) /\ \A j \in 1..Len(calls) : Keeps(calls[j], calls'[j])
    BY <1>0, <1>11, CallsRetyped DEF TypeQuery
  <2> QED BY <1>3, <1>11, <2>1, TruthSame DEF TypeQuery
<1>12. CASE Searches
  <2>1. UNCHANGED <<serverRel, across>>
    BY <1>12 DEF Searches
  <2>2. CASE calls' = Overtaken(calls)
    <3>1. Len(calls') = Len(calls) /\ \A j \in 1..Len(calls) : Keeps(calls[j], calls'[j])
      BY <1>0, <2>2, CallsOvertaken
    <3> QED BY <1>3, <2>1, <3>1, TruthSame
  <2> QED BY <1>8, <1>12, <2>1, <2>2 DEF Searches
<1>13. ASSUME NEW i \in DOMAIN calls, Confirms(i) PROVE CallsAreGood'
  <2>1. i \in 1..Len(calls) /\ Truth' = Truth /\ calls[i].op = "confirm"
    BY <1>13, CallIsTyped, TruthSame DEF Confirms
  <2>2. Good(calls'[i], Truth)
    BY <1>1, <1>13, <2>1, CallConfirmed DEF Good
  <2>3. /\ Len(calls') = Len(calls)
        /\ \A j \in 1..Len(calls) : j # i => calls'[j] = calls[j]
    BY <1>13, CallConfirmed
  <2>4. ASSUME NEW j \in 1..Len(calls) PROVE Good(calls'[j], Truth)
    BY <1>1, <2>2, <2>3
  <2> QED BY <2>1, <2>3, <2>4 DEF CallsAreGood
<1>14. ASSUME NEW i \in 1..Len(calls), calls' = RemoveAt(calls, i), Truth' = Truth
       PROVE  CallsAreGood'
  <2>1. /\ Len(calls') = Len(calls) - 1
        /\ \A j \in 1..(Len(calls) - 1) : calls'[j] = calls[IF j < i THEN j ELSE j + 1]
    BY <1>0, <1>14, ElementRemoved
  <2>2. ASSUME NEW j \in 1..(Len(calls) - 1) PROVE Good(calls'[j], Truth)
    <3>1. (IF j < i THEN j ELSE j + 1) \in 1..Len(calls)
      BY <1>0
    <3> QED BY <1>1, <2>1, <3>1
  <2> QED BY <1>14, <2>1, <2>2 DEF CallsAreGood
<1>15. ASSUME NEW i \in DOMAIN calls, Cancels(i) PROVE CallsAreGood'
  BY <1>14, <1>15, CallIsTyped, TruthSame DEF Cancels
<1>16. ASSUME NEW i \in DOMAIN calls, Serve(i) PROVE CallsAreGood'
  <2>1. PICK d \in AnyCall :
             /\ calls' = [OutdatedBy(calls) EXCEPT ![i] = d]
             /\ d.op = calls[i].op /\ d.from = calls[i].from
             /\ d.answer = AnswerTo(calls[i].op)
             /\ d.fresh => /\ calls[i].from # "elsewhere"
                           /\ \/ calls[i].op \in {"follow", "block", "look"}
                              \/ calls[i].says = Relationship
    BY <1>16, ServedCall
  <2>2. Good(d, Truth')
    BY <1>16, <2>1, ServedIsGood
  <2> DEFINE s == OutdatedBy(calls)
  <2>3. /\ s \in Seq(AnyCall) /\ Len(s) = Len(calls) /\ i \in 1..Len(calls)
        /\ \A j \in 1..Len(calls) :
             /\ Keeps(calls[j], s[j])
             /\ Relationship' # Relationship => ~s[j].fresh
    BY <1>0, CallsOutdated, CallIsTyped
  <2>4. calls' = [s EXCEPT ![i] = d]
    BY <2>1
  <2> HIDE DEF s
  <2>5. /\ Len(calls') = Len(calls)
        /\ \A j \in 1..Len(calls) : calls'[j] = IF j = i THEN d ELSE s[j]
    BY <2>3, <2>4, CallReplaced
  <2>6. across /\ rel' = "connected" => across'
    BY <1>16, ServeChanges
  <2>7. ASSUME NEW j \in 1..Len(calls) PROVE Good(s[j], Truth')
    BY <1>1, <2>3, <2>6, TruthKept, GoodKept
  <2>8. ASSUME NEW j \in 1..Len(calls) PROVE Good(calls'[j], Truth')
    BY <2>2, <2>5, <2>7
  <2> QED BY <2>5, <2>8 DEF CallsAreGood
<1>17. ASSUME NEW i \in DOMAIN calls, CallFails(i) PROVE CallsAreGood'
  <2>1. i \in 1..Len(calls) /\ Truth' = Truth /\ calls[i].op # "confirm"
    BY <1>17, CallIsTyped, TruthSame DEF CallFails
  <2>2. Good(calls'[i], Truth)
    BY <1>1, <1>17, <2>1, CallFailed DEF Good
  <2>3. /\ Len(calls') = Len(calls)
        /\ \A j \in 1..Len(calls) : j # i => calls'[j] = calls[j]
    BY <1>17, CallFailed
  <2>4. ASSUME NEW j \in 1..Len(calls) PROVE Good(calls'[j], Truth)
    BY <1>1, <2>2, <2>3
  <2> QED BY <2>1, <2>3, <2>4 DEF CallsAreGood
<1>18. ASSUME NEW i \in DOMAIN calls, Lands(i) PROVE CallsAreGood'
  <2>1. i \in 1..Len(calls) /\ Truth' = Truth
    BY <1>18, CallIsTyped, TruthSame DEF Lands
  <2>2. CASE calls[i].from = "screen"
    <3>1. calls' = Overtaken(SubSeq(calls, 1, i - 1)) \o SubSeq(calls, i + 1, Len(calls))
      BY <1>18, <2>2 DEF Lands
    <3>2. /\ Len(calls') = Len(calls) - 1
          /\ \A j \in 1..Len(calls') : j < i => Keeps(calls[j], calls'[j])
          /\ \A j \in 1..Len(calls') : ~(j < i) => calls'[j] = calls[j + 1]
      BY <1>0, <2>1, <3>1, CallLanded
    <3>3. ASSUME NEW j \in 1..Len(calls') PROVE Good(calls'[j], Truth)
      <4>1. j \in 1..Len(calls) /\ j + 1 \in 1..Len(calls)
        BY <1>0, <3>2
      <4>2. CASE j < i
        BY <1>1, <3>2, <4>1, <4>2, GoodKept
      <4>3. CASE ~(j < i)
        BY <1>1, <3>2, <4>1, <4>3
      <4> QED BY <4>2, <4>3
    <3> QED BY <2>1, <3>3 DEF CallsAreGood
  <2>3. CASE calls[i].from # "screen"
    BY <1>14, <1>18, <2>1, <2>3 DEF Lands
  <2> QED BY <2>2, <2>3
<1>19. CASE UNCHANGED buttonVars
  BY <1>1, <1>19, TruthSame DEF buttonVars, CallsAreGood
<1> QED
  BY <1>4, <1>5, <1>6, <1>7, <1>9, <1>10, <1>11, <1>12, <1>13, <1>15, <1>16, <1>17, <1>18,
     <1>19 DEF ButtonNext

LEMMA LabelIsTrueStep ==
    ButtonShapes /\ LabelIsTrue /\ CallsAreGood /\ [ButtonNext]_buttonVars => LabelIsTrue'
<1> SUFFICES ASSUME ButtonShapes, LabelIsTrue, CallsAreGood, [ButtonNext]_buttonVars
             PROVE  LabelIsTrue'
  OBVIOUS
<1>1. CASE OtherActs
  <2>1. /\ label' = label /\ (Relationship' # Relationship \/ outdated => outdated')
        /\ across /\ rel' = "connected" => across'
    BY <1>1, OthersChange
  <2> QED BY <2>1, TruthKept DEF LabelIsTrue
<1>2. ASSUME NEW i \in DOMAIN calls, Serve(i) PROVE LabelIsTrue'
  <2>1. /\ label' = label /\ (Relationship' # Relationship \/ outdated => outdated')
        /\ across /\ rel' = "connected" => across'
    BY <1>2, ServeChanges
  <2> QED BY <2>1, TruthKept DEF LabelIsTrue
<1>3. ASSUME NEW i \in DOMAIN calls, Lands(i) PROVE LabelIsTrue'
  <2>1. calls[i] \in AnyCall /\ Good(calls[i], Truth) /\ Truth' = Truth
    BY <1>3, CallIsTyped, TruthSame DEF CallsAreGood, Lands
  <2>2. CASE calls[i].from # "elsewhere" /\ calls[i].answer \notin {"failed", "unavailable"}
    <3>1. label' = calls[i].answer /\ outdated' = ~calls[i].fresh /\ calls[i].answer # "awaited"
      BY <1>3, <2>2 DEF Lands
    <3> QED BY <2>1, <2>2, <3>1 DEF Good, LabelIsTrue
  <2>3. CASE ~(calls[i].from # "elsewhere" /\ calls[i].answer \notin {"failed", "unavailable"})
    <3>1. UNCHANGED <<label, outdated>>
      BY <1>3, <2>3 DEF Lands
    <3> QED BY <2>1, <3>1 DEF LabelIsTrue
  <2> QED BY <2>2, <2>3
<1>4. ASSUME NEW i \in DOMAIN calls, Cancels(i) PROVE LabelIsTrue'
  <2>1. calls[i] \in AnyCall /\ Good(calls[i], Truth) /\ Truth' = Truth
        /\ calls[i].op = "confirm"
    BY <1>4, CallIsTyped, TruthSame DEF CallsAreGood, Cancels
  <2>2. CASE calls[i].from = "button"
    <3>1. label' = "connected" /\ outdated' = ~calls[i].fresh
      BY <1>4, <2>2 DEF Cancels
    <3> QED BY <2>1, <2>2, <3>1 DEF Good, LabelIsTrue
  <2>3. CASE calls[i].from # "button"
    <3>1. UNCHANGED <<label, outdated>>
      BY <1>4, <2>3 DEF Cancels
    <3> QED BY <2>1, <3>1 DEF LabelIsTrue
  <2> QED BY <2>2, <2>3
<1>5. CASE ClosePage
  BY <1>5 DEF ClosePage, LabelIsTrue
<1>6. CASE UNCHANGED <<serverRel, across, label, outdated>>
  BY <1>6, TruthSame DEF LabelIsTrue
<1> QED
  BY <1>1, <1>2, <1>3, <1>4, <1>5, <1>6 DEF ButtonNext, Tap, TapMenu, TapElsewhere, OpenPage,
     TypeQuery, Searches, Confirms, CallFails, buttonVars

-----------------------------------------------------------------------------
\* What the changes of the calls leave of the order of the searches.
LEMMA LatestMapped ==
    ASSUME NEW s \in Seq(AnyCall), NEW t \in Seq(AnyCall), NEW o, NEW f, Len(t) = Len(s),
           \A j \in 1..Len(s) : /\ t[j].from = s[j].from
                                /\ t[j].fits = s[j].fits /\ t[j].late = s[j].late,
           LatestOf(s, o, f)
    PROVE  LatestOf(t, o, f)
BY DEF LatestOf

LEMMA LatestAdded ==
    ASSUME NEW s \in Seq(AnyCall), NEW c \in AnyCall, c.from # "screen", NEW o, NEW f,
           LatestOf(s, o, f)
    PROVE  LatestOf(Append(s, c), o, f)
<1> DEFINE t == Append(s, c)
<1>1. /\ Len(t) = Len(s) + 1 /\ Len(s) \in Nat
      /\ \A j \in 1..Len(s) : t[j] = s[j]
      /\ t[Len(s) + 1] = c
  BY CallAdded
<1> HIDE DEF t
<1>2. \A j \in 1..Len(t) : j \in 1..Len(s) \/ (j = Len(s) + 1 /\ t[j].from # "screen")
  BY <1>1
<1>3. \A j \in 1..Len(s) : j \in 1..Len(t)
  BY <1>1
<1>4. LatestOf(t, o, f)
  BY <1>1, <1>2, <1>3 DEF LatestOf
<1> QED BY <1>4 DEF t

LEMMA LatestShifted ==
    ASSUME NEW s \in Seq(AnyCall), NEW t \in Seq(AnyCall), NEW i \in 1..Len(s),
           Len(t) = Len(s) - 1,
           \A j \in 1..Len(t) : j < i => t[j].from = s[j].from,
           \A j \in 1..Len(t) : ~(j < i) => t[j] = s[j + 1],
           NEW k \in 1..Len(s), i < k, s[k].from = "screen", s[k].fits, ~s[k].late,
           \A j \in 1..Len(s) : j > k => s[j].from # "screen", NEW o, NEW f
    PROVE  LatestOf(t, o, f)
<1>1. Len(s) \in Nat /\ Len(t) \in Nat /\ k - 1 \in 1..Len(t) /\ ~(k - 1 < i) /\ (k - 1) + 1 = k
  OBVIOUS
<1>2. t[k - 1] = s[k]
  BY <1>1
<1>3. ASSUME NEW j \in 1..Len(t), j > k - 1 PROVE t[j].from # "screen"
  <2>1. j + 1 \in 1..Len(s) /\ j + 1 > k /\ ~(j < i)
    BY <1>1, <1>3
  <2> QED BY <2>1
<1> QED BY <1>1, <1>2, <1>3 DEF LatestOf

LEMMA LatestRemoved ==
    ASSUME NEW s \in Seq(AnyCall), NEW i \in 1..Len(s), s[i].from # "screen", NEW o, NEW f,
           LatestOf(s, o, f)
    PROVE  LatestOf(RemoveAt(s, i), o, f)
<1> DEFINE t == RemoveAt(s, i)
<1>1. /\ t \in Seq(AnyCall) /\ Len(t) = Len(s) - 1
      /\ \A j \in 1..(Len(s) - 1) : t[j] = s[IF j < i THEN j ELSE j + 1]
  BY ElementRemoved
<1> HIDE DEF t
<1>2. /\ Len(s) \in Nat /\ Len(t) \in Nat
      /\ \A j \in 1..Len(t) : j < i => t[j] = s[j] /\ j \in 1..Len(s)
      /\ \A j \in 1..Len(t) : ~(j < i) => t[j] = s[j + 1] /\ j + 1 \in 1..Len(s)
  BY <1>1
<1>3. ASSUME NEW k \in 1..Len(s), s[k].from = "screen", s[k].fits, ~s[k].late,
             \A j \in 1..Len(s) : j > k => s[j].from # "screen"
      PROVE  LatestOf(t, o, f)
  <2>1. CASE i < k
    BY <1>1, <1>2, <1>3, <2>1, LatestShifted
  <2>2. CASE k < i
    <3>1. k \in 1..Len(t) /\ t[k] = s[k]
      BY <1>1, <1>2, <2>2
    <3>2. ASSUME NEW j \in 1..Len(t), j > k PROVE t[j].from # "screen"
      <4>1. j + 1 > k
        BY <3>2
      <4> QED BY <1>2, <1>3, <3>2, <4>1
    <3> QED BY <1>3, <3>1, <3>2 DEF LatestOf
  <2> QED BY <1>3, <2>1, <2>2
<1>4. ASSUME \A j \in 1..Len(s) : s[j].from = "screen" => s[j].late, o \/ f
      PROVE  LatestOf(t, o, f)
  BY <1>2, <1>4 DEF LatestOf
<1>5. LatestOf(t, o, f)
  BY <1>3, <1>4 DEF LatestOf
<1> QED BY <1>5 DEF t

LEMMA LatestLanded ==
    ASSUME NEW s \in Seq(AnyCall), NEW i \in 1..Len(s), s[i].from = "screen", NEW o, NEW f,
           LatestOf(s, o, f)
    PROVE  LatestOf(Overtaken(SubSeq(s, 1, i - 1)) \o SubSeq(s, i + 1, Len(s)),
                    s[i].late, s[i].fits)
<1> DEFINE t == Overtaken(SubSeq(s, 1, i - 1)) \o SubSeq(s, i + 1, Len(s))
<1>1. /\ t \in Seq(AnyCall) /\ Len(t) = Len(s) - 1
      /\ \A j \in 1..Len(t) : j < i => Keeps(s[j], t[j]) /\ (s[j].from = "screen" => t[j].late)
      /\ \A j \in 1..Len(t) : ~(j < i) => t[j] = s[j + 1]
  BY CallLanded
<1> HIDE DEF t
<1>2. /\ Len(s) \in Nat /\ Len(t) \in Nat
      /\ \A j \in 1..Len(t) : j < i => t[j].from = s[j].from
      /\ \A j \in 1..Len(t) : j < i /\ t[j].from = "screen" => t[j].late
      /\ \A j \in 1..Len(t) : ~(j < i) => j + 1 \in 1..Len(s)
  BY <1>1 DEF Keeps
<1>3. ASSUME NEW k \in 1..Len(s), s[k].from = "screen", s[k].fits, ~s[k].late,
             \A j \in 1..Len(s) : j > k => s[j].from # "screen"
      PROVE  LatestOf(t, s[i].late, s[i].fits)
  <2>1. CASE i < k
    BY <1>1, <1>2, <1>3, <2>1, LatestShifted
  <2>2. CASE i = k
    <3>1. ASSUME NEW j \in 1..Len(t), t[j].from = "screen" PROVE t[j].late
      <4>1. CASE j < i
        BY <1>2, <3>1, <4>1
      <4>2. CASE ~(j < i)
        <5>1. j + 1 > k /\ t[j] = s[j + 1] /\ j + 1 \in 1..Len(s)
          BY <1>1, <1>2, <2>2, <4>2
        <5> QED BY <1>3, <3>1, <5>1
      <4> QED BY <4>1, <4>2
    <3> QED BY <1>3, <2>2, <3>1 DEF LatestOf
  <2>3. i <= k
    BY <1>3
  <2> QED BY <2>1, <2>2, <2>3
<1>4. ASSUME \A j \in 1..Len(s) : s[j].from = "screen" => s[j].late
      PROVE  LatestOf(t, s[i].late, s[i].fits)
  <2>1. s[i].late
    BY <1>4
  <2>2. ASSUME NEW j \in 1..Len(t), t[j].from = "screen" PROVE t[j].late
    <3>1. CASE j < i
      BY <1>2, <2>2, <3>1
    <3>2. CASE ~(j < i)
      BY <1>1, <1>2, <1>4, <2>2, <3>2
    <3> QED BY <3>1, <3>2
  <2> QED BY <2>1, <2>2 DEF LatestOf
<1>5. LatestOf(t, s[i].late, s[i].fits)
  BY <1>3, <1>4 DEF LatestOf
<1> QED BY <1>5 DEF t

LEMMA LatestStep ==
    ButtonShapes /\ CallsAreGood /\ Latest /\ [ButtonNext]_buttonVars => Latest'
<1> SUFFICES ASSUME ButtonShapes, CallsAreGood, Latest, [ButtonNext]_buttonVars,
                    place' = "search", ~typed'
             PROVE  LatestOf(calls', overtaken', fits')
  BY DEF Latest
<1> DEFINE Goal == LatestOf(calls', overtaken', fits')
<1>0. calls \in Seq(AnyCall) /\ Len(calls) \in Nat /\ "none" \in Labels /\ label \in Labels
      /\ (~outdated) \in BOOLEAN /\ calls' \in Seq(AnyCall)
  BY ButtonShapesStep DEF ButtonShapes, Labels, Relationships
<1>1. ASSUME UNCHANGED <<place, searchVars>> PROVE LatestOf(calls, overtaken', fits')
  BY <1>1 DEF Latest, searchVars
<1>2. ASSUME UNCHANGED <<place, searchVars>>, Len(calls') = Len(calls),
             \A j \in 1..Len(calls) : /\ calls'[j].from = calls[j].from
                                      /\ calls'[j].fits = calls[j].fits
                                      /\ calls'[j].late = calls[j].late
      PROVE  Goal
  BY <1>0, <1>1, <1>2, LatestMapped
<1>3. ASSUME NEW c \in AnyCall, Makes(c), c.from # "screen", UNCHANGED <<place, searchVars>>
      PROVE  Goal
  <2>1. calls' = Append(calls, c)
    BY <1>3 DEF Makes
  <2> QED BY <1>0, <1>1, <1>3, <2>1, LatestAdded
<1>4. CASE OtherActs
  <2>1. calls' = OutdatedBy(calls) /\ UNCHANGED <<place, searchVars>>
    BY <1>4, OthersChange
  <2>2. \A j \in 1..Len(calls) : /\ calls'[j].from = calls[j].from
                                 /\ calls'[j].fits = calls[j].fits
                                 /\ calls'[j].late = calls[j].late
    BY <1>0, <2>1, CallsOutdated DEF Keeps
  <2>3. Len(calls') = Len(calls)
    BY <1>0, <2>1, CallsOutdated
  <2> QED BY <1>2, <2>1, <2>2, <2>3
<1>5. CASE Tap
  <2> DEFINE d == Call(ActionOf[label], "button", label)
             c == [d EXCEPT !.fresh = ~outdated]
  <2>1. d \in AnyCall /\ d.from = "button"
    BY <1>0, ActionOfIs, CallMade
  <2>2. Makes(c) /\ UNCHANGED <<place, searchVars>>
    BY <1>5 DEF Tap
  <2> HIDE DEF d
  <2>3. c \in AnyCall /\ c.from = "button"
    BY <1>0, <2>1, CallFreshened
  <2> HIDE DEF c
  <2> QED BY <1>3, <2>2, <2>3
<1>6. CASE TapMenu
  <2> DEFINE c == Call(IF label = "blocked" THEN "unblock" ELSE "block", "menu", label)
  <2>1. c \in AnyCall /\ c.from = "menu"
    BY <1>0, CallMade
  <2>2. Makes(c) /\ UNCHANGED <<place, searchVars>>
    BY <1>6 DEF TapMenu
  <2> HIDE DEF c
  <2> QED BY <1>3, <2>1, <2>2
<1>7. CASE TapElsewhere
  <2>1. PICK op \in {"follow", "unfollow", "accept", "block", "unblock"} :
          Makes(Call(op, "elsewhere", "none"))
    BY <1>7 DEF TapElsewhere
  <2>2. /\ Call(op, "elsewhere", "none") \in AnyCall
        /\ Call(op, "elsewhere", "none").from = "elsewhere"
    BY <1>0, CallMade
  <2>3. UNCHANGED <<place, searchVars>>
    BY <1>7 DEF TapElsewhere
  <2> QED BY <1>3, <2>1, <2>2, <2>3
<1>8. CASE OpenPage \/ ClosePage
  BY <1>8 DEF OpenPage, ClosePage
<1>9. CASE TypeQuery
  BY <1>9 DEF TypeQuery
<1>10. CASE Searches
  <2>1. CASE Makes(Call("look", "screen", "none"))
    <3> DEFINE c == Call("look", "screen", "none")
    <3>1. c \in AnyCall /\ c.from = "screen" /\ c.fits /\ ~c.late
      BY <1>0, CallMade
    <3>2. calls' = Append(calls, c)
      BY <2>1 DEF Makes
    <3> HIDE DEF c
    <3>3. Len(calls') = Len(calls) + 1 /\ calls'[Len(calls) + 1] = c
      BY <1>0, <3>1, <3>2, CallAdded
    <3>4. Len(calls) + 1 \in 1..Len(calls') /\ \A j \in 1..Len(calls') : ~(j > Len(calls) + 1)
      BY <1>0, <3>3
    <3> QED BY <3>1, <3>3, <3>4 DEF LatestOf
  <2>2. CASE fits' = TRUE /\ calls' = Overtaken(calls)
    <3>1. Len(calls') = Len(calls)
          /\ \A j \in 1..Len(calls) : /\ calls'[j].from = calls[j].from
                                      /\ calls[j].from = "screen" => calls'[j].late
      BY <1>0, <2>2, CallsOvertaken DEF Keeps
    <3> QED BY <2>2, <3>1 DEF LatestOf
  <2> QED BY <1>10, <2>1, <2>2 DEF Searches
<1>11. ASSUME NEW i \in DOMAIN calls, Confirms(i) PROVE Goal
  <2>1. UNCHANGED <<place, searchVars>>
    BY <1>11 DEF Confirms
  <2>2. Len(calls') = Len(calls)
        /\ \A j \in 1..Len(calls) : /\ calls'[j].from = calls[j].from
                                    /\ calls'[j].fits = calls[j].fits
                                    /\ calls'[j].late = calls[j].late
    BY <1>11, CallConfirmed
  <2> QED BY <1>2, <2>1, <2>2
<1>12. ASSUME NEW i \in DOMAIN calls, Cancels(i) PROVE Goal
  <2>1. i \in 1..Len(calls) /\ calls[i].from # "screen"
    BY <1>12, CallIsTyped DEF CallsAreGood, Good, Cancels
  <2>2. UNCHANGED <<place, searchVars>> /\ calls' = RemoveAt(calls, i)
    BY <1>12 DEF Cancels
  <2> QED BY <1>0, <1>1, <2>1, <2>2, LatestRemoved
<1>13. ASSUME NEW i \in DOMAIN calls, Serve(i) PROVE Goal
  <2>1. PICK d \in AnyCall :
             /\ calls' = [OutdatedBy(calls) EXCEPT ![i] = d]
             /\ d.from = calls[i].from /\ d.fits = calls[i].fits /\ d.late = calls[i].late
    BY <1>13, ServedCall
  <2> DEFINE s == OutdatedBy(calls)
  <2>2. /\ s \in Seq(AnyCall) /\ Len(s) = Len(calls) /\ i \in 1..Len(calls)
        /\ \A j \in 1..Len(calls) : /\ s[j].from = calls[j].from
                                    /\ s[j].fits = calls[j].fits /\ s[j].late = calls[j].late
    BY <1>0, CallsOutdated, CallIsTyped DEF Keeps
  <2>3. calls' = [s EXCEPT ![i] = d]
    BY <2>1
  <2> HIDE DEF s
  <2>4. /\ Len(calls') = Len(calls)
        /\ \A j \in 1..Len(calls) : calls'[j] = IF j = i THEN d ELSE s[j]
    BY <2>2, <2>3, CallReplaced
  <2>5. UNCHANGED <<place, searchVars>>
    BY <1>13, ServeChanges
  <2> QED BY <1>2, <2>1, <2>2, <2>4, <2>5
<1>14. ASSUME NEW i \in DOMAIN calls, CallFails(i) PROVE Goal
  <2>1. UNCHANGED <<place, searchVars>>
    BY <1>14 DEF CallFails
  <2>2. Len(calls') = Len(calls)
        /\ \A j \in 1..Len(calls) : /\ calls'[j].from = calls[j].from
                                    /\ calls'[j].fits = calls[j].fits
                                    /\ calls'[j].late = calls[j].late
    BY <1>14, CallFailed
  <2> QED BY <1>2, <2>1, <2>2
<1>15. ASSUME NEW i \in DOMAIN calls, Lands(i) PROVE Goal
  <2>1. i \in 1..Len(calls) /\ UNCHANGED <<place, typed>>
    BY <1>15, CallIsTyped DEF Lands
  <2>2. LatestOf(calls, overtaken, fits)
    BY <2>1 DEF Latest
  <2>3. CASE calls[i].from = "screen"
    <3>1. /\ fits' = calls[i].fits /\ overtaken' = calls[i].late
          /\ calls' = Overtaken(SubSeq(calls, 1, i - 1)) \o SubSeq(calls, i + 1, Len(calls))
      BY <1>15, <2>1, <2>3 DEF Lands
    <3> QED BY <1>0, <2>1, <2>2, <2>3, <3>1, LatestLanded
  <2>4. CASE calls[i].from # "screen"
    <3>1. fits' = fits /\ overtaken' = overtaken /\ calls' = RemoveAt(calls, i)
      BY <1>15, <2>4 DEF Lands
    <3> QED BY <1>0, <2>1, <2>2, <2>4, <3>1, LatestRemoved
  <2> QED BY <2>3, <2>4
<1>16. CASE UNCHANGED buttonVars
  BY <1>1, <1>16 DEF buttonVars
<1> QED
  BY <1>4, <1>5, <1>6, <1>7, <1>8, <1>9, <1>10, <1>11, <1>12, <1>13, <1>14, <1>15, <1>16
     DEF ButtonNext

-----------------------------------------------------------------------------
ButtonInv ==
    ButtonShapes /\ NoneAcross /\ LabelIsTrue /\ CallsAreGood /\ Latest

LEMMA ButtonHolds == ButtonSpec => []ButtonInv
<1>1. ButtonInit => ButtonInv
  <2> SUFFICES ASSUME ButtonInit PROVE ButtonInv
    OBVIOUS
  <2> USE DEF ButtonInit
  <2>1. calls \in Seq(AnyCall) /\ Len(calls) = 0 /\ MaxCalls \in Nat /\ "none" \in Labels
    BY ButtonAssumption DEF Labels, Relationships
  <2>2. ButtonShapes
    <3>1. visible \in BOOLEAN /\ fits \in BOOLEAN /\ typed \in BOOLEAN /\ outdated \in BOOLEAN
          /\ overtaken \in BOOLEAN /\ across \in BOOLEAN /\ mine \in BOOLEAN /\ theirs \in BOOLEAN
      OBVIOUS
    <3>2. /\ rel \in Relationships /\ place \in {"search", "profile"} /\ label \in Labels
          /\ place = "profile" => fits /\ ~typed
      BY <2>1
    <3> HIDE DEF ButtonInit
    <3> QED BY <2>1, <3>1, <3>2 DEF ButtonShapes
  <2>3. NoneAcross /\ LabelIsTrue
    BY DEF NoneAcross, LabelIsTrue
  <2>4. CallsAreGood
    BY <2>1 DEF CallsAreGood
  <2>5. Latest
    BY <2>1 DEF Latest, LatestOf
  <2> QED BY <2>2, <2>3, <2>4, <2>5 DEF ButtonInv
<1>2. ButtonInv /\ [ButtonNext]_buttonVars => ButtonInv'
  BY ButtonShapesStep, NoneAcrossStep, LabelIsTrueStep, CallsAreGoodStep, LatestStep
     DEF ButtonInv
<1> QED BY <1>1, <1>2, PTL DEF ButtonSpec

(***************************************************************************)
(* The relationship, the screen and its calls have their types and bounds, *)
(* for every number of calls.                                              *)
(***************************************************************************)
THEOREM ButtonTypeCorrect == ButtonSpec => []ButtonTypeOK
<1>1. ButtonInv => ButtonTypeOK
  <2> SUFFICES ASSUME ButtonInv PROVE ButtonTypeOK
    OBVIOUS
  <2>1. ButtonShapes
    BY DEF ButtonInv
  <2>2. \A i \in DOMAIN calls : calls[i] \in AnyCall
    BY <2>1, CallIsTyped
  <2>3. \A i \in DOMAIN calls :
         /\ calls[i].op \in {"follow", "unfollow", "accept", "confirm", "block", "unblock", "look"}
         /\ calls[i].from \in {"button", "menu", "screen", "elsewhere"}
         /\ calls[i].answer \in Relationships \cup {"awaited", "blocked", "unavailable", "failed"}
    BY <2>2 DEF AnyCall, Labels
  <2>4. {mine, theirs} \subseteq BOOLEAN
        /\ {visible, fits, typed, outdated, overtaken, across} \subseteq BOOLEAN
    BY <2>1 DEF ButtonShapes
  <2> QED BY <2>1, <2>3, <2>4 DEF ButtonShapes, ButtonTypeOK, Labels
<1> QED BY <1>1, ButtonHolds, PTL

(***************************************************************************)
(* A button says what the relationship is, and the results are those of    *)
(* what was typed, with the exceptions ButtonIsTrue names.                 *)
(***************************************************************************)
THEOREM ButtonSaysWhatIs == ButtonSpec => []ButtonIsTrue
<1>1. ButtonInv => ButtonIsTrue
  <2> SUFFICES ASSUME ButtonInv PROVE ButtonIsTrue
    OBVIOUS
  <2>1. visible /\ ~outdated /\ ~across /\ Relationship # "unavailable" => label = Relationship
    BY DEF ButtonInv, LabelIsTrue, Truth
  <2>2. ASSUME ~typed, ~overtaken, \A i \in DOMAIN calls : calls[i].from # "screen" PROVE fits
    <3>1. DOMAIN calls = 1..Len(calls)
      BY DEF ButtonInv, ButtonShapes
    <3>2. CASE place = "search"
      BY <2>2, <3>1, <3>2 DEF ButtonInv, Latest, LatestOf
    <3>3. CASE place = "profile"
      BY <3>3 DEF ButtonInv, ButtonShapes
    <3> QED BY <3>2, <3>3 DEF ButtonInv, ButtonShapes
  <2> QED BY <2>1, <2>2 DEF ButtonIsTrue
<1> QED BY <1>1, ButtonHolds, PTL

-----------------------------------------------------------------------------
(* Notices *)

\* What is asked of the server is listed again if it fails; what it has answered is gone.
TapsKnown ==
    \A a \in acts : a.id \in a.before /\ (a.result \in {"ok", "unknown"} => a.id \in past)

\* A notification that is not shown is being loaded or dealt with, or is missing.
OnItsWay(n) ==
    \/ n \in items \cup missing
    \/ \E l \in Loads : loads[l].stage = "sent"
    \/ \E l \in Loads : loads[l].stage = "read" /\ n \in loads[l].list
    \/ \E a \in acts : a.id = n
NoneForgotten == here => \A n \in there : OnItsWay(n)

LEMMA NoticeTypeStep == NoticeTypeOK /\ [NoticeNext]_noticeVars => NoticeTypeOK'
<1> SUFFICES ASSUME NoticeTypeOK, [NoticeNext]_noticeVars PROVE NoticeTypeOK'
  OBVIOUS
<1> USE DEF NoticeTypeOK
<1>1. ASSUME NEW l \in Loads,
             LoadStarts(l) \/ NoticesRegister(l) \/ LoadReads(l) \/ LoadArrives(l) \/ LoadFails(l)
      PROVE  NoticeTypeOK'
  <2>1. loads' \in [Loads -> [stage : {"none", "sent", "read"}, list : SUBSET Noticed]]
    BY <1>1 DEF LoadStarts, NoticesRegister, LoadReads, LoadArrives, LoadFails, NoLoad
  <2>2. {items', missing'} \subseteq SUBSET Noticed
    <3>1. loads[l].list \subseteq Noticed
      OBVIOUS
    <3> QED
      BY <1>1, <3>1 DEF LoadStarts, NoticesRegister, LoadReads, LoadArrives, LoadFails, Merge
  <2>3. here' \in BOOLEAN /\ UNCHANGED <<there, past, acts>>
    BY <1>1 DEF LoadStarts, NoticesRegister, LoadReads, LoadArrives, LoadFails
  <2> QED BY <2>1, <2>2, <2>3
<1>2. CASE NoticesDisconnect
  BY <1>2 DEF NoticesDisconnect
<1>3. ASSUME NEW n \in Noticed, Notified(n) \/ Withdrawn(n) PROVE NoticeTypeOK'
  BY <1>3 DEF Notified, Withdrawn, Merge
<1>4. ASSUME NEW n \in Noticed, NEW tap \in {"dismiss", "answer"}, Taps(n, tap)
      PROVE  NoticeTypeOK'
  BY <1>4 DEF Taps
<1>5. ASSUME NEW a \in acts, TapServed(a) \/ TapFails(a) \/ TapSucceeds(a) \/ TapUndone(a)
      PROVE  NoticeTypeOK'
  <2>1. /\ a.id \in Noticed /\ a.before \subseteq Noticed
        /\ \A r \in {"ok", "unknown", "failed"} :
             [a EXCEPT !.result = r] \in [id : Noticed, tap : {"dismiss", "answer"},
                before : SUBSET Noticed, result : {"sent", "ok", "unknown", "failed"}]
    OBVIOUS
  <2> QED BY <1>5, <2>1 DEF TapServed, TapFails, TapSucceeds, TapUndone, Becomes
<1>6. CASE UNCHANGED noticeVars
  BY <1>6 DEF noticeVars
<1> QED BY <1>1, <1>2, <1>3, <1>4, <1>5, <1>6 DEF NoticeNext

LEMMA TapsKnownStep ==
    NoticeTypeOK /\ TapsKnown /\ [NoticeNext]_noticeVars => TapsKnown'
<1> SUFFICES ASSUME NoticeTypeOK, TapsKnown, [NoticeNext]_noticeVars PROVE TapsKnown'
  OBVIOUS
<1> USE DEF TapsKnown
<1>1. ASSUME UNCHANGED acts, past \subseteq past' PROVE TapsKnown'
  BY <1>1
<1>2. ASSUME NEW l \in Loads,
             LoadStarts(l) \/ NoticesRegister(l) \/ LoadReads(l) \/ LoadArrives(l) \/ LoadFails(l)
      PROVE  TapsKnown'
  BY <1>1, <1>2 DEF LoadStarts, NoticesRegister, LoadReads, LoadArrives, LoadFails
<1>3. CASE NoticesDisconnect \/ UNCHANGED noticeVars
  BY <1>1, <1>3 DEF NoticesDisconnect, noticeVars
<1>4. ASSUME NEW n \in Noticed, Notified(n) \/ Withdrawn(n) PROVE TapsKnown'
  BY <1>1, <1>4 DEF Notified, Withdrawn
<1>5. ASSUME NEW n \in Noticed, NEW tap \in {"dismiss", "answer"}, Taps(n, tap)
      PROVE  TapsKnown'
  BY <1>5 DEF Taps
<1>6. ASSUME NEW a \in acts, TapServed(a) \/ TapFails(a) PROVE TapsKnown'
  <2>1. \A r \in {"ok", "unknown", "failed"} :
          LET b == [a EXCEPT !.result = r] IN b.id = a.id /\ b.before = a.before /\ b.result = r
    BY DEF NoticeTypeOK
  <2>2. PICK r \in {"ok", "unknown", "failed"} :
            /\ acts' = (acts \ {a}) \cup {[a EXCEPT !.result = r]}
            /\ past \subseteq past' /\ (r \in {"ok", "unknown"} => a.id \in past')
    <3>1. CASE TapServed(a)
      BY <3>1 DEF TapServed, Becomes
    <3>2. CASE TapFails(a)
      BY <3>2 DEF TapFails, Becomes
    <3> QED BY <1>6, <3>1, <3>2
  <2> DEFINE b == [a EXCEPT !.result = r]
  <2>3. b.id = a.id /\ b.before = a.before /\ b.result = r /\ acts' = (acts \ {a}) \cup {b}
    BY <2>1, <2>2
  <2> HIDE DEF b
  <2> QED BY <2>2, <2>3
<1>7. ASSUME NEW a \in acts, TapSucceeds(a) \/ TapUndone(a) PROVE TapsKnown'
  BY <1>7 DEF TapSucceeds, TapUndone
<1> QED BY <1>2, <1>3, <1>4, <1>5, <1>6, <1>7 DEF NoticeNext

LEMMA NoneForgottenStep ==
    NoticeTypeOK /\ TapsKnown /\ NoneForgotten /\ [NoticeNext]_noticeVars => NoneForgotten'
<1> SUFFICES ASSUME NoticeTypeOK, TapsKnown, NoneForgotten, [NoticeNext]_noticeVars, here',
                    NEW n \in there'
             PROVE  OnItsWay(n)'
  BY DEF NoneForgotten
<1>1. ASSUME NEW l \in Loads, LoadStarts(l) \/ NoticesRegister(l) PROVE OnItsWay(n)'
  <2>1. loads'[l].stage = "sent"
    BY <1>1 DEF LoadStarts, NoticesRegister, NoticeTypeOK
  <2> QED BY <2>1 DEF OnItsWay
<1>2. ASSUME NEW l \in Loads, LoadReads(l) PROVE OnItsWay(n)'
  <2>1. loads'[l].stage = "read" /\ n \in loads'[l].list
    BY <1>2 DEF LoadReads, NoticeTypeOK
  <2> QED BY <2>1 DEF OnItsWay
<1>3. ASSUME NEW l \in Loads, LoadArrives(l) PROVE OnItsWay(n)'
  <2>1. OnItsWay(n) /\ UNCHANGED acts /\ \A k \in Loads \ {l} : loads'[k] = loads[k]
    BY <1>3 DEF LoadArrives, NoneForgotten, NoticeTypeOK
  <2>2. items' \cup missing' = items \cup missing \cup loads[l].list /\ loads[l].stage # "sent"
    BY <1>3 DEF LoadArrives, Merge
  <2> QED BY <2>1, <2>2 DEF OnItsWay
<1>4. ASSUME NEW l \in Loads, LoadFails(l) PROVE OnItsWay(n)'
  BY <1>4 DEF LoadFails, OnItsWay
<1>5. CASE NoticesDisconnect
  BY <1>5 DEF NoticesDisconnect
<1>6. ASSUME NEW q \in Noticed, Notified(q) PROVE OnItsWay(n)'
  BY <1>6 DEF Notified, Merge, NoneForgotten, OnItsWay
<1>7. ASSUME NEW q \in Noticed, Withdrawn(q) PROVE OnItsWay(n)'
  BY <1>7 DEF Withdrawn, NoneForgotten, OnItsWay
<1>8. ASSUME NEW q \in Noticed, NEW tap \in {"dismiss", "answer"}, Taps(q, tap)
      PROVE  OnItsWay(n)'
  <2> DEFINE b == [id |-> q, tap |-> tap, before |-> items, result |-> "sent"]
  <2>1. UNCHANGED <<there, here, missing, loads>> /\ items' = items \ {q} /\ acts' = acts \cup {b}
    BY <1>8 DEF Taps
  <2>2. OnItsWay(n) /\ b.id = q
    BY <2>1 DEF NoneForgotten
  <2> HIDE DEF b
  <2>3. CASE n = q
    BY <2>1, <2>2, <2>3 DEF OnItsWay
  <2>4. CASE n # q
    BY <2>1, <2>2, <2>4 DEF OnItsWay
  <2> QED BY <2>3, <2>4
<1>9. ASSUME NEW a \in acts, TapServed(a) \/ TapFails(a) PROVE OnItsWay(n)'
  <2>1. \A r \in {"ok", "unknown", "failed"} : [a EXCEPT !.result = r].id = a.id
    BY DEF NoticeTypeOK
  <2>2. \E b \in acts' : b.id = a.id
    BY <1>9, <2>1 DEF TapServed, TapFails, Becomes
  <2>3. OnItsWay(n) /\ UNCHANGED <<items, missing, loads>> /\ acts \ {a} \subseteq acts'
    BY <1>9 DEF TapServed, TapFails, Becomes, NoneForgotten
  <2> QED BY <2>2, <2>3 DEF OnItsWay
<1>10. ASSUME NEW a \in acts, TapSucceeds(a) PROVE OnItsWay(n)'
  <2>1. a.id \in past /\ n \notin past
    BY <1>10 DEF TapSucceeds, TapsKnown, NoticeTypeOK
  <2>2. OnItsWay(n) /\ UNCHANGED <<items, missing, loads>> /\ acts' = acts \ {a}
    BY <1>10 DEF TapSucceeds, NoneForgotten
  <2> QED BY <2>1, <2>2 DEF OnItsWay
<1>11. ASSUME NEW a \in acts, TapUndone(a) PROVE OnItsWay(n)'
  <2>1. a.id \in items' /\ items \cup missing \subseteq items' \cup missing'
    BY <1>11 DEF TapUndone, TapsKnown
  <2>2. OnItsWay(n) /\ UNCHANGED loads /\ acts' = acts \ {a}
    BY <1>11 DEF TapUndone, NoneForgotten
  <2> QED BY <2>1, <2>2 DEF OnItsWay
<1>12. CASE UNCHANGED noticeVars
  BY <1>12 DEF noticeVars, NoneForgotten, OnItsWay
<1> HIDE DEF OnItsWay
<1> QED
  BY <1>1, <1>2, <1>3, <1>4, <1>5, <1>6, <1>7, <1>8, <1>9, <1>10, <1>11, <1>12 DEF NoticeNext

LEMMA NoticeHolds == NoticeSpec => [](NoticeTypeOK /\ TapsKnown /\ NoneForgotten)
<1>1. NoticeInit => NoticeTypeOK /\ TapsKnown /\ NoneForgotten
  <2> SUFFICES ASSUME NoticeInit PROVE NoticeTypeOK /\ TapsKnown /\ NoneForgotten
    OBVIOUS
  <2>1. loads \in [Loads -> [stage : {"none", "sent", "read"}, list : SUBSET Noticed]]
    BY DEF NoticeInit, NoLoad
  <2> QED BY <2>1 DEF NoticeInit, NoticeTypeOK, TapsKnown, NoneForgotten
<1> QED
  BY <1>1, NoticeTypeStep, TapsKnownStep, NoneForgottenStep, PTL DEF NoticeSpec

(***************************************************************************)
(* The list, the loads and the taps under way have their types, and no     *)
(* notification is both there and gone, for any notifications and loads.   *)
(***************************************************************************)
THEOREM NoticeTypeCorrect == NoticeSpec => []NoticeTypeOK
BY NoticeHolds, PTL

(***************************************************************************)
(* A registered phone at rest lists every notification the user has,       *)
(* whatever was pushed, loaded and put back, with the exceptions           *)
(* NoticesShown names.                                                     *)
(***************************************************************************)
THEOREM NoticesAreShown == NoticeSpec => []NoticesShown
<1>1. NoticeTypeOK /\ TapsKnown /\ NoneForgotten => NoticesShown
  BY DEF NoticesShown, NoneForgotten, OnItsWay, NoLoad
<1> QED BY <1>1, NoticeHolds, PTL

-----------------------------------------------------------------------------
(* ProfilePage *)

PageValues == Texts \cup [Platforms -> Texts] \cup SUBSET Texts
AnySave == [of : {"name", "urls", "links"}, value : PageValues, heals : BOOLEAN]
SaveTyped(s) ==
    /\ s.of = "name" => s.value \in Texts
    /\ s.of = "urls" => s.value \in [Platforms -> Texts]
    /\ s.of = "links" => s.value \in SUBSET Texts

\* PageTypeOK, with what a save has of each kind.
SavesTyped ==
    /\ saves \in Seq(AnySave) /\ Len(saves) <= MaxSaves
    /\ \A i \in 1..Len(saves) : SaveTyped(saves[i])
PageShapes ==
    /\ PageTypeOK /\ SavesTyped
    /\ load.stage # "none" => mounted

\* A page that is not filled has made no save that heals; and unless one was made early,
\* nothing is under way, and what was fetched is the profile.
NoneHeals == \A i \in 1..Len(saves) : saves[i].heals = FALSE
Unfilled ==
    mounted /\ ~Landed =>
      /\ NoneHeals
      /\ \/ early
         \/ /\ saves = << >> /\ picking = NoPicture /\ canvas = NoCanvas
            /\ load.stage = "answered" =>
                 /\ load.got.name = profile.name /\ load.got.urls = profile.urls
                 /\ load.got.picture = profile.picture /\ load.got.hero = profile.hero

\* Of one kind: the save that heals is the last, of what is on the page; unless the kind
\* is amiss there is one, or the server has what is on the page.
Heals(s, i, w) == s[i].of = w /\ s[i].heals = TRUE
HealsLast(s, w, v) ==
    \A i \in 1..Len(s) : Heals(s, i, w) =>
      s[i].value = v /\ \A j \in 1..Len(s) : s[j].of = w => j <= i
Stands(s, w, v, pv, bad) ==
    /\ HealsLast(s, w, v)
    /\ \/ w \in bad
       \/ pv = v /\ \A i \in 1..Len(s) : s[i].of # w
       \/ \E i \in 1..Len(s) : Heals(s, i, w)

NameStands ==
    Landed => /\ nameRef = entered.name
              /\ Stands(saves, "name", entered.name, profile.name, amiss)
UrlsStand ==
    Landed => /\ page.urls = entered.urls
              /\ Stands(saves, "urls", page.urls, profile.urls, amiss)
LinksStand == Landed => Stands(saves, "links", links, profile.links, amiss)

\* The picture before is the server's until the new one is.
PictureStands ==
    Landed /\ "picture" \notin amiss =>
      /\ picking.stage = "none" => picking = NoPicture
      /\ profile.picture = CASE picking.stage = "none" -> page.picture
                             [] picking.stage = "sent" -> picking.old
                             [] picking.stage = "stored" -> picking.new

\* The canvas has the server's hero but for the user's changes.
HeroStands ==
    Landed /\ "hero" \notin amiss =>
      /\ canvas.stage \in {"closed", "open"} =>
           profile.hero = entered.hero /\ page.hero = profile.hero
      /\ canvas.stage = "closed" => canvas = NoCanvas
      /\ canvas.stage = "open" =>
           \A h \in HeroParts \ canvas.mine : canvas.hero[h] = entered.hero[h]
      /\ canvas.stage \in {"saving", "stored"} => canvas.hero = entered.hero
      /\ canvas.stage = "stored" => profile.hero = canvas.hero

LEMMA PageBounds == MaxEdits \in Nat /\ MaxSaves \in Nat
BY PageAssumption DEF PageAssumption

LEMMA TextsAre ==
    /\ 0 \in Texts /\ 1 \in Texts /\ NoHero \in Heroes /\ Blank \in Shown
    /\ \A n \in 0..MaxEdits : n + 1 \in Texts
    /\ \A n \in 0..MaxEdits : n < MaxEdits => n + 1 \in 0..MaxEdits /\ (n + 1) + 1 \in Texts
BY PageBounds DEF Texts, NoHero, Heroes, Blank, Shown

LEMMA Appended ==
    ASSUME NEW S, NEW s \in Seq(S), NEW x \in S
    PROVE  /\ Append(s, x) \in Seq(S) /\ Len(Append(s, x)) = Len(s) + 1
           /\ Append(s, x)[Len(s) + 1] = x
           /\ \A i \in 1..Len(s) : Append(s, x)[i] = s[i]
OBVIOUS

\* A new save, and what becomes of the others.
With(s, e) == Append([i \in DOMAIN s |-> [s[i] EXCEPT !.heals = @ /\ s[i].of # e.of]], e)

LEMMA SaveAdded ==
    ASSUME NEW s \in Seq(AnySave), NEW e \in AnySave
    PROVE  /\ With(s, e) \in Seq(AnySave) /\ Len(With(s, e)) = Len(s) + 1
           /\ \A i \in 1..Len(s) :
                /\ With(s, e)[i].of = s[i].of /\ With(s, e)[i].value = s[i].value
                /\ With(s, e)[i].heals = (s[i].heals /\ s[i].of # e.of)
           /\ With(s, e)[Len(s) + 1] = e
<1> DEFINE n == Len(s)
           f == [i \in DOMAIN s |-> [s[i] EXCEPT !.heals = @ /\ s[i].of # e.of]]
<1>1. n \in Nat /\ DOMAIN s = 1..n /\ \A i \in 1..n : s[i] \in AnySave
  OBVIOUS
<1>2. ASSUME NEW i \in 1..n
      PROVE  /\ f[i] \in AnySave /\ f[i].of = s[i].of /\ f[i].value = s[i].value
             /\ f[i].heals = (s[i].heals /\ s[i].of # e.of)
  <2>1. s[i] \in AnySave /\ f[i] = [s[i] EXCEPT !.heals = @ /\ s[i].of # e.of]
    BY <1>1
  <2> DEFINE b == s[i].heals /\ s[i].of # e.of
  <2>2. b \in BOOLEAN
    OBVIOUS
  <2>3. f[i] = [s[i] EXCEPT !.heals = b]
    BY <2>1
  <2> HIDE DEF b, f
  <2>4. f[i] \in AnySave /\ f[i].of = s[i].of /\ f[i].value = s[i].value /\ f[i].heals = b
    BY <2>1, <2>2, <2>3 DEF AnySave
  <2> QED BY <2>4 DEF b
<1>3. f \in Seq(AnySave) /\ Len(f) = n
  <2>1. DOMAIN f = 1..n /\ f = [i \in 1..n |-> f[i]]
    BY <1>1
  <2> HIDE DEF f
  <2> QED BY <1>1, <1>2, <2>1, FunctionIsSeq
<1>4. With(s, e) = Append(f, e)
  BY DEF With
<1> HIDE DEF f
<1>5. /\ Append(f, e) \in Seq(AnySave) /\ Len(Append(f, e)) = Len(f) + 1
      /\ Append(f, e)[Len(f) + 1] = e /\ \A i \in 1..Len(f) : Append(f, e)[i] = f[i]
  <2>1. f \in Seq(AnySave)
    BY <1>3
  <2> QED BY <2>1, Appended
<1>6. /\ With(s, e) \in Seq(AnySave) /\ Len(With(s, e)) = n + 1 /\ With(s, e)[n + 1] = e
      /\ \A i \in 1..n : With(s, e)[i] = f[i]
  BY <1>3, <1>4, <1>5
<1> QED BY <1>2, <1>6

\* One that heals is the last of its kind, and those of other kinds stay as they are.
LEMMA StandsAdded ==
    ASSUME NEW s \in Seq(AnySave), NEW e \in AnySave, e.heals = TRUE
    PROVE  /\ \A pv, bad : Stands(With(s, e), e.of, e.value, pv, bad)
           /\ \A x, u, pv, bad : x # e.of /\ Stands(s, x, u, pv, bad) =>
                Stands(With(s, e), x, u, pv, bad)
<1> DEFINE t == With(s, e)
           n == Len(s)
           w == e.of
<1>0. n \in Nat /\ Len(s) = n
  OBVIOUS
<1>1. /\ Len(t) = n + 1 /\ t[n + 1] = e
      /\ \A i \in 1..n : /\ t[i].of = s[i].of /\ t[i].value = s[i].value
                         /\ t[i].heals = (s[i].heals /\ s[i].of # w)
  BY SaveAdded
<1> HIDE DEF t
<1>2. \A i \in 1..n : \A x : Heals(t, i, x) <=> Heals(s, i, x) /\ x # w
  <2>1. \A i \in 1..n : s[i].heals \in BOOLEAN
    <3>1. \A i \in 1..n : s[i] \in AnySave
      OBVIOUS
    <3> QED BY <3>1 DEF AnySave
  <2>2. ASSUME NEW i \in 1..n, NEW x PROVE Heals(t, i, x) <=> Heals(s, i, x) /\ x # w
    <3>1. t[i].heals = (s[i].heals /\ s[i].of # w) /\ t[i].of = s[i].of
      BY <1>1
    <3>2. t[i].heals = TRUE <=> s[i].heals = TRUE /\ s[i].of # w
      BY <2>1, <3>1
    <3> QED BY <3>1, <3>2 DEF Heals
  <2> QED BY <2>2
<1>3. /\ Heals(t, n + 1, w) /\ t[n + 1].value = e.value
      /\ \A i \in 1..n : t[i].of = s[i].of /\ t[i].value = s[i].value
  BY <1>1 DEF Heals
<1> HIDE DEF n, w
<1>4. \A i \in 1..(n + 1) : (i \in 1..n \/ i = n + 1) /\ i <= n + 1
  BY <1>0
<1>5. n + 1 \in 1..(n + 1) /\ \A i \in 1..n : i \in 1..(n + 1)
  BY <1>0
<1>6. ASSUME NEW pv, NEW bad PROVE Stands(t, w, e.value, pv, bad)
  <2>1. \A i \in 1..(n + 1) : Heals(t, i, w) => i = n + 1
    BY <1>2, <1>4
  <2> QED BY <1>1, <1>3, <1>4, <1>5, <2>1 DEF Stands, HealsLast
<1>7. ASSUME NEW x, NEW u, NEW pv, NEW bad, x # w, Stands(s, x, u, pv, bad)
      PROVE  Stands(t, x, u, pv, bad)
  <2>1. \A i \in 1..(n + 1) : t[i].of = x => i \in 1..n
    BY <1>1, <1>4, <1>7 DEF w
  <2>2. \A i \in 1..(n + 1) : Heals(t, i, x) => i \in 1..n /\ Heals(s, i, x)
    BY <1>2, <2>1 DEF Heals
  <2>3. HealsLast(t, x, u)
    <3> SUFFICES ASSUME NEW i \in 1..(n + 1), Heals(t, i, x)
                 PROVE  t[i].value = u /\ \A j \in 1..(n + 1) : t[j].of = x => j <= i
      BY <1>1 DEF HealsLast
    <3> QED BY <1>0, <1>3, <1>7, <2>1, <2>2 DEF Stands, HealsLast
  <2>4. CASE x \in bad
    BY <2>3, <2>4 DEF Stands
  <2>5. CASE pv = u /\ \A i \in 1..n : s[i].of # x
    <3>1. \A i \in 1..(n + 1) : t[i].of # x
      BY <1>3, <2>1, <2>5
    <3> QED BY <1>1, <2>3, <2>5, <3>1 DEF Stands
  <2>6. CASE \E i \in 1..n : Heals(s, i, x)
    <3>1. \E i \in 1..(n + 1) : Heals(t, i, x)
      BY <1>2, <1>5, <1>7, <2>6
    <3> QED BY <1>1, <2>3, <3>1 DEF Stands
  <2> QED BY <1>0, <1>7, <2>4, <2>5, <2>6 DEF Stands
<1>8. /\ \A pv, bad : Stands(t, w, e.value, pv, bad)
      /\ \A x, u, pv, bad : x # w /\ Stands(s, x, u, pv, bad) => Stands(t, x, u, pv, bad)
  BY <1>6, <1>7
<1> QED BY <1>8 DEF t, w

\* A save is done, or fails: of those that are left each keeps its place.
LEMMA StandsRemoved ==
    ASSUME NEW s \in Seq(AnySave), NEW i \in 1..Len(s), NEW t, t = RemoveAt(s, i),
           NEW w, NEW v, NEW pv, NEW bad, NEW worse, Stands(s, w, v, pv, bad)
    PROVE  /\ s[i].of # w /\ (w \in bad => w \in worse) => Stands(t, w, v, pv, worse)
           /\ w \in worse => \A qv : Stands(t, w, v, qv, worse)
           /\ /\ s[i].of = w
              /\ (\E j \in 1..(i - 1) : s[j].of = w) => w \in worse
              /\ w \in bad /\ ~Heals(s, i, w) => w \in worse
              => Stands(t, w, v, s[i].value, worse)
<1> DEFINE n == Len(s)
           at(j) == IF j < i THEN j ELSE j + 1
<1>0. n \in Nat /\ i \in 1..n /\ Len(s) = n
  OBVIOUS
<1>1. Len(t) = n - 1 /\ \A j \in 1..(n - 1) : t[j] = s[at(j)]
  BY ElementRemoved
<1> HIDE DEF n
<1>2. \A j \in 1..(n - 1) : at(j) \in 1..n /\ at(j) # i
  BY <1>0
<1>3. \A j, k \in 1..(n - 1) : at(j) <= at(k) => j <= k
  BY <1>0
<1>4. \A j \in 1..n : j # i => \E k \in 1..(n - 1) : at(k) = j
  <2> SUFFICES ASSUME NEW j \in 1..n, j # i PROVE \E k \in 1..(n - 1) : at(k) = j
    OBVIOUS
  <2>1. CASE j < i
    <3>1. j \in 1..(n - 1) /\ at(j) = j
      BY <1>0, <2>1
    <3> QED BY <3>1
  <2>2. CASE j > i
    <3>1. j - 1 \in 1..(n - 1) /\ at(j - 1) = j
      BY <1>0, <2>2
    <3> QED BY <3>1
  <2> QED BY <1>0, <2>1, <2>2
<1> HIDE DEF at
<1>5. HealsLast(t, w, v)
  <2> SUFFICES ASSUME NEW j \in 1..(n - 1), Heals(t, j, w)
               PROVE  t[j].value = v /\ \A k \in 1..(n - 1) : t[k].of = w => k <= j
    BY <1>1 DEF HealsLast
  <2>1. Heals(s, at(j), w) /\ at(j) \in 1..n
    BY <1>1, <1>2 DEF Heals
  <2>2. s[at(j)].value = v /\ \A k \in 1..n : s[k].of = w => k <= at(j)
    BY <1>0, <2>1 DEF Stands, HealsLast
  <2> QED BY <1>1, <1>2, <1>3, <2>2
<1>6. ASSUME NEW j \in 1..n, j # i, Heals(s, j, w) PROVE \E k \in 1..(n - 1) : Heals(t, k, w)
  BY <1>1, <1>4, <1>6 DEF Heals
<1>7. \/ w \in bad
      \/ pv = v /\ \A j \in 1..n : s[j].of # w
      \/ \E j \in 1..n : Heals(s, j, w)
  BY <1>0 DEF Stands
<1>8. ASSUME s[i].of # w, w \in bad => w \in worse PROVE Stands(t, w, v, pv, worse)
  <2>1. CASE w \in bad
    BY <1>5, <1>8, <2>1 DEF Stands
  <2>2. CASE pv = v /\ \A j \in 1..n : s[j].of # w
    <3>1. \A j \in 1..(n - 1) : t[j].of # w
      BY <1>1, <1>2, <2>2
    <3> QED BY <1>1, <1>5, <2>2, <3>1 DEF Stands
  <2>3. CASE \E j \in 1..n : Heals(s, j, w)
    <3>1. \E k \in 1..(n - 1) : Heals(t, k, w)
      BY <1>6, <1>8, <2>3 DEF Heals
    <3> QED BY <1>1, <1>5, <3>1 DEF Stands
  <2> QED BY <1>7, <2>1, <2>2, <2>3
<1>9. w \in worse => \A qv : Stands(t, w, v, qv, worse)
  BY <1>5 DEF Stands
<1>10. ASSUME s[i].of = w, (\E j \in 1..(i - 1) : s[j].of = w) => w \in worse,
              w \in bad /\ ~Heals(s, i, w) => w \in worse
       PROVE  Stands(t, w, v, s[i].value, worse)
  <2>1. CASE w \in worse
    BY <1>9, <2>1
  <2>2. CASE w \notin worse /\ Heals(s, i, w)
    <3>1. s[i].value = v /\ \A j \in 1..n : s[j].of = w => j <= i
      BY <1>0, <2>2 DEF Stands, HealsLast
    <3>2. ASSUME NEW j \in 1..n, s[j].of = w PROVE j = i
      <4>1. j <= i /\ ~(j \in 1..(i - 1))
        BY <1>10, <2>2, <3>1, <3>2
      <4> QED BY <1>0, <4>1
    <3>3. \A j \in 1..(n - 1) : t[j].of # w
      BY <1>1, <1>2, <3>2
    <3> QED BY <1>1, <1>5, <3>1, <3>3 DEF Stands
  <2>3. CASE w \notin worse /\ ~Heals(s, i, w)
    <3>1. \E j \in 1..n : Heals(s, j, w)
      BY <1>0, <1>7, <1>10, <2>3
    <3>2. \E k \in 1..(n - 1) : Heals(t, k, w)
      BY <1>6, <2>3, <3>1
    <3> QED BY <1>1, <1>5, <3>2 DEF Stands
  <2> QED BY <2>1, <2>2, <2>3
<1> QED BY <1>8, <1>9, <1>10

LEMMA SavesMade ==
    ASSUME SavesTyped, NEW of \in {"name", "urls", "links"}, NEW v \in PageValues,
           Saves(of, v), Landed \in BOOLEAN,
           SaveTyped([of |-> of, value |-> v, heals |-> Landed])
    PROVE  /\ SavesTyped'
           /\ saves' = With(saves, [of |-> of, value |-> v, heals |-> Landed])
           /\ early' = (early \/ ~Landed)
<1> DEFINE e == [of |-> of, value |-> v, heals |-> Landed]
<1>1. e \in AnySave /\ e.of = of /\ saves \in Seq(AnySave) /\ Len(saves) \in Nat
  BY DEF AnySave, SavesTyped
<1>2. saves' = With(saves, e) /\ early' = (early \/ ~Landed) /\ Len(saves) < MaxSaves
  BY DEF Saves, With
<1>3. SaveTyped(e)
  OBVIOUS
<1> HIDE DEF e
<1>4. /\ saves' \in Seq(AnySave) /\ Len(saves') = Len(saves) + 1
      /\ \A i \in 1..Len(saves) : saves'[i].of = saves[i].of /\ saves'[i].value = saves[i].value
      /\ saves'[Len(saves) + 1] = e
  BY <1>1, <1>2, SaveAdded
<1>5. Len(saves') <= MaxSaves /\ \A i \in 1..Len(saves') : i \in 1..Len(saves) \/ i = Len(saves) + 1
  BY <1>1, <1>2, <1>4, PageBounds
<1>6. ASSUME NEW i \in 1..Len(saves') PROVE SaveTyped(saves'[i])
  BY <1>3, <1>4, <1>5 DEF SavesTyped, SaveTyped
<1> QED BY <1>2, <1>4, <1>5, <1>6 DEF SavesTyped, e

LEMMA SavesLeft ==
    ASSUME SavesTyped, NEW i \in 1..Len(saves), saves' = RemoveAt(saves, i)
    PROVE  SavesTyped' /\ Len(saves') = Len(saves) - 1
<1>1. saves \in Seq(AnySave) /\ Len(saves) \in Nat /\ Len(saves) <= MaxSaves
  BY DEF SavesTyped
<1>2. /\ saves' \in Seq(AnySave) /\ Len(saves') = Len(saves) - 1
      /\ \A j \in 1..(Len(saves) - 1) : saves'[j] = saves[IF j < i THEN j ELSE j + 1]
  BY <1>1, ElementRemoved
<1>3. Len(saves') <= MaxSaves
  BY <1>1, <1>2, PageBounds
<1>4. ASSUME NEW j \in 1..Len(saves') PROVE SaveTyped(saves'[j])
  <2>1. (IF j < i THEN j ELSE j + 1) \in 1..Len(saves)
    BY <1>1, <1>2
  <2> QED BY <1>2, <2>1 DEF SavesTyped
<1> QED BY <1>2, <1>3, <1>4 DEF SavesTyped

LEMMA SavesOld ==
    ASSUME SavesTyped, saves' = [i \in DOMAIN saves |-> [saves[i] EXCEPT !.heals = FALSE]]
    PROVE  /\ SavesTyped' /\ Len(saves') = Len(saves)
           /\ \A i \in 1..Len(saves) : saves'[i].heals = FALSE
<1> DEFINE n == Len(saves)
           f == [i \in DOMAIN saves |-> [saves[i] EXCEPT !.heals = FALSE]]
<1>1. n \in Nat /\ DOMAIN saves = 1..n /\ \A i \in 1..n : saves[i] \in AnySave
  BY DEF SavesTyped
<1>2. ASSUME NEW i \in 1..n
      PROVE  f[i] \in AnySave /\ f[i].of = saves[i].of /\ f[i].value = saves[i].value
             /\ f[i].heals = FALSE
  BY <1>1 DEF AnySave
<1>3. f \in Seq(AnySave) /\ Len(f) = n
  <2>1. DOMAIN f = 1..n /\ f = [i \in 1..n |-> f[i]]
    BY <1>1
  <2> HIDE DEF f
  <2> QED BY <1>1, <1>2, <2>1, FunctionIsSeq
<1>4. saves' = f
  OBVIOUS
<1> HIDE DEF f
<1>5. ASSUME NEW i \in 1..n PROVE SaveTyped(saves'[i])
  BY <1>2, <1>4 DEF SavesTyped, SaveTyped
<1> QED BY <1>2, <1>3, <1>4, <1>5 DEF SavesTyped

ProfileTyped ==
    profile \in [name : Texts, urls : [Platforms -> Texts], picture : Texts,
                 hero : Heroes, links : SUBSET Texts]
EnteredTyped == entered \in [name : Texts, urls : [Platforms -> Texts], hero : Heroes]
LoadTyped == load \in [stage : {"none", "sent", "answered", "landed"}, got : Shown]
PickingTyped == picking \in [stage : {"none", "sent", "stored"}, new : Texts, old : Texts]
CanvasTyped ==
    canvas \in [stage : {"closed", "open", "saving", "stored"}, hero : Heroes,
                mine : SUBSET HeroParts, left : BOOLEAN]
ScreenTyped == page \in Shown /\ nameRef \in Texts /\ links \in SUBSET Texts /\ me \in Heroes
PageHistoryTyped ==
    /\ mounted \in BOOLEAN /\ early \in BOOLEAN /\ edits \in 0..MaxEdits
    /\ amiss \subseteq {"name", "urls", "links", "picture", "hero"}

LEMMA PageTypes ==
    SavesTyped =>
      (PageTypeOK <=> ProfileTyped /\ EnteredTyped /\ LoadTyped /\ PickingTyped /\ CanvasTyped
                      /\ ScreenTyped /\ PageHistoryTyped)
<1> SUFFICES ASSUME SavesTyped
             PROVE  PageTypeOK <=> ProfileTyped /\ EnteredTyped /\ LoadTyped /\ PickingTyped
                                   /\ CanvasTyped /\ ScreenTyped /\ PageHistoryTyped
  OBVIOUS
<1>1. /\ Len(saves) <= MaxSaves
      /\ \A i \in DOMAIN saves : saves[i].of \in {"name", "urls", "links"}
  <2>1. DOMAIN saves = 1..Len(saves) /\ \A i \in 1..Len(saves) : saves[i] \in AnySave
    BY DEF SavesTyped
  <2> QED BY <2>1 DEF SavesTyped, AnySave
<1> QED BY <1>1 DEF PageTypeOK, ProfileTyped, EnteredTyped, LoadTyped, PickingTyped,
                    CanvasTyped, ScreenTyped, PageHistoryTyped

\* A new text, and what it can be put into.
LEMMA NewText ==
    ASSUME PageHistoryTyped, Edits
    PROVE  New \in Texts /\ edits' \in 0..MaxEdits /\ edits' = edits + 1
BY TextsAre DEF PageHistoryTyped, Edits, New

LEMMA SavesTypedStep == PageShapes /\ [PageNext]_pageVars => SavesTyped'
<1> SUFFICES ASSUME PageShapes, [PageNext]_pageVars PROVE SavesTyped'
  OBVIOUS
<1>1. /\ SavesTyped /\ ScreenTyped /\ LoadTyped /\ PageHistoryTyped /\ Landed \in BOOLEAN
      /\ DOMAIN saves = 1..Len(saves)
  BY PageTypes DEF PageShapes, SavesTyped, Landed
<1>2. CASE UNCHANGED saves
  BY <1>1, <1>2 DEF SavesTyped
<1>3. CASE OpenProfile
  BY <1>1, <1>3, SavesOld DEF OpenProfile
<1>4. CASE BlurName
  <2>1. page.name \in Texts /\ page.name \in PageValues /\ Saves("name", page.name)
    BY <1>1, <1>4 DEF BlurName, ScreenTyped, Shown, PageValues
  <2>2. SaveTyped([of |-> "name", value |-> page.name, heals |-> Landed])
    BY <2>1 DEF SaveTyped
  <2> QED BY <1>1, <2>1, <2>2, SavesMade
<1>5. ASSUME NEW p \in Platforms, SaveSocial(p) PROVE SavesTyped'
  <2>1. New \in Texts
    BY <1>1, <1>5, NewText DEF SaveSocial
  <2>2. page' = [page EXCEPT !.urls[p] = New] /\ Saves("urls", page'.urls)
    BY <1>5 DEF SaveSocial
  <2>3. page'.urls \in [Platforms -> Texts] /\ page'.urls \in PageValues
    BY <1>1, <2>1, <2>2 DEF ScreenTyped, Shown, PageValues
  <2>4. SaveTyped([of |-> "urls", value |-> page'.urls, heals |-> Landed])
    BY <2>3 DEF SaveTyped
  <2> QED BY <1>1, <2>2, <2>3, <2>4, SavesMade
<1>6. ASSUME AddNewLink \/ \E l \in links : EditLink(l) \/ DeleteLink(l) PROVE SavesTyped'
  <2>1. links' \subseteq Texts /\ Saves("links", links')
    BY <1>1, <1>6, NewText DEF AddNewLink, EditLink, DeleteLink, ScreenTyped
  <2>2. links' \in PageValues /\ SaveTyped([of |-> "links", value |-> links', heals |-> Landed])
    BY <2>1 DEF SaveTyped, PageValues
  <2> QED BY <1>1, <2>1, <2>2, SavesMade
<1>7. ASSUME NEW i \in DOMAIN saves, SaveIsDone(i) \/ SaveFails(i) PROVE SavesTyped'
  <2>1. i \in 1..Len(saves) /\ saves' = RemoveAt(saves, i)
    BY <1>1, <1>7 DEF SaveIsDone, SaveFails
  <2> QED BY <1>1, <2>1, SavesLeft
<1>8. CASE \/ CloseProfile \/ LoadIsAnswered \/ ProfileLoadFails \/ LoadLands \/ TypeName
           \/ OpenCanvas \/ (\E h \in HeroParts : EditHero(h)) \/ SaveHero \/ LeaveCanvas
           \/ HeroIsStored \/ HeroLands \/ HeroFails \/ PickAvatar \/ PictureIsStored
           \/ PictureLands \/ PictureFails \/ UNCHANGED pageVars
  BY <1>2, <1>8 DEF CloseProfile, LoadIsAnswered, ProfileLoadFails, LoadLands, TypeName,
     OpenCanvas, EditHero, SaveHero, LeaveCanvas, HeroIsStored, HeroLands, HeroFails, PickAvatar,
     PictureIsStored, PictureLands, PictureFails, pageVars
<1> QED BY <1>3, <1>4, <1>5, <1>6, <1>7, <1>8 DEF PageNext

PageTyped ==
    /\ ProfileTyped /\ EnteredTyped /\ LoadTyped /\ PickingTyped /\ CanvasTyped
    /\ ScreenTyped /\ PageHistoryTyped /\ (load.stage # "none" => mounted)

LEMMA BlankTyped ==
    /\ Blank \in Shown /\ Nothing \in [name : Texts, urls : [Platforms -> Texts], hero : Heroes]
    /\ NotLoading \in [stage : {"none"}, got : Shown]
    /\ NoPicture \in [stage : {"none"}, new : Texts, old : Texts]
    /\ NoCanvas \in [stage : {"closed"}, hero : Heroes, mine : SUBSET HeroParts, left : BOOLEAN]
    /\ NotLoading.stage = "none" /\ NoPicture.stage = "none" /\ NoCanvas.stage = "closed"
    /\ NoCanvas.left = FALSE /\ NoCanvas.mine = {}
BY TextsAre DEF Nothing, NotLoading, NoPicture, NoCanvas

\* The page and its load.
LEMMA PageTypedOpened ==
    ASSUME PageTyped,
           \/ OpenProfile \/ CloseProfile \/ LoadIsAnswered \/ ProfileLoadFails \/ LoadLands
           \/ TypeName
    PROVE  PageTyped'
<1> USE DEF ProfileTyped, EnteredTyped, LoadTyped, PickingTyped, CanvasTyped, ScreenTyped,
            PageHistoryTyped, heroVars
<1>1. CASE OpenProfile
  <2>1. page' \in Shown
    BY <1>1, BlankTyped DEF OpenProfile, Shown, PageTyped
  <2>2. load' \in [stage : {"sent"}, got : Shown]
    BY <1>1, BlankTyped DEF OpenProfile
  <2>3. early' \in BOOLEAN
    BY <1>1 DEF OpenProfile
  <2>4. nameRef' \in Texts /\ links' = {} /\ mounted' = TRUE
        /\ UNCHANGED <<profile, me, canvas, picking, edits, entered, amiss>>
    BY <1>1, TextsAre DEF OpenProfile
  <2> QED BY <2>1, <2>2, <2>3, <2>4 DEF PageTyped
<1>2. CASE CloseProfile
  BY <1>2, BlankTyped, TextsAre DEF CloseProfile, Unmounted, PageTyped
<1>3. CASE LoadIsAnswered
  <2>1. [name |-> profile.name, urls |-> profile.urls, picture |-> profile.picture,
         hero |-> profile.hero] \in Shown
    BY DEF Shown, PageTyped
  <2> QED BY <1>3, <2>1 DEF LoadIsAnswered, PageTyped
<1>4. CASE ProfileLoadFails
  BY <1>4, BlankTyped DEF ProfileLoadFails, PageTyped
<1>5. CASE LoadLands
  <2>1. load.got \in Shown /\ load'.stage = "landed" /\ load' \in [stage : {"landed"}, got : Shown]
    BY <1>5, BlankTyped DEF LoadLands, PageTyped
  <2>2. page' \in Shown /\ nameRef' \in Texts /\ EnteredTyped'
    BY <1>5, <2>1 DEF LoadLands, Shown
  <2>3. amiss' \subseteq {"name", "urls", "links", "picture", "hero"}
    BY <1>5 DEF LoadLands
  <2>4. UNCHANGED <<profile, me, canvas, picking, mounted, links, edits, early>>
    BY <1>5 DEF LoadLands
  <2>5. mounted'
    BY <1>5, <2>4 DEF LoadLands, PageTyped
  <2> QED BY <2>1, <2>2, <2>3, <2>4, <2>5 DEF PageTyped
<1>6. CASE TypeName
  <2>1. New \in Texts /\ edits' \in 0..MaxEdits
    BY <1>6, NewText DEF TypeName, PageTyped
  <2>2. page' \in Shown
    BY <1>6, <2>1 DEF TypeName, PageTyped, Shown
  <2> QED BY <1>6, <2>1, <2>2 DEF TypeName, PageTyped
<1> QED BY <1>1, <1>2, <1>3, <1>4, <1>5, <1>6

\* Edits that are saved at once, and the saves.
LEMMA PageTypedSaved ==
    ASSUME PageTyped, SavesTyped,
           \/ BlurName \/ (\E p \in Platforms : SaveSocial(p)) \/ AddNewLink
           \/ (\E l \in links : EditLink(l) \/ DeleteLink(l))
           \/ (\E i \in DOMAIN saves : SaveIsDone(i) \/ SaveFails(i))
    PROVE  PageTyped'
<1> USE DEF ProfileTyped, EnteredTyped, LoadTyped, PickingTyped, CanvasTyped, ScreenTyped,
            PageHistoryTyped, heroVars
<1>0. ASSUME NEW of, NEW v, Saves(of, v) PROVE early' \in BOOLEAN
  BY <1>0 DEF Saves
<1>1. CASE BlurName
  <2>1. page.name \in Texts /\ [entered EXCEPT !.name = page.name] \in
                [name : Texts, urls : [Platforms -> Texts], hero : Heroes]
    BY DEF PageTyped, Shown
  <2>2. EnteredTyped'
    BY <1>1, <2>1 DEF BlurName, Enters, PageTyped
  <2> QED BY <1>0, <1>1, <2>1, <2>2 DEF BlurName, PageTyped
<1>2. ASSUME NEW p \in Platforms, SaveSocial(p) PROVE PageTyped'
  <2>1. New \in Texts /\ edits' \in 0..MaxEdits
    BY <1>2, NewText DEF SaveSocial, PageTyped
  <2>2. page' \in Shown
    BY <1>2, <2>1 DEF SaveSocial, PageTyped, Shown
  <2>3. EnteredTyped'
    BY <1>2, <2>1 DEF SaveSocial, Enters, PageTyped
  <2> QED BY <1>0, <1>2, <2>1, <2>2, <2>3 DEF SaveSocial, PageTyped
<1>3. ASSUME AddNewLink \/ \E l \in links : EditLink(l) \/ DeleteLink(l) PROVE PageTyped'
  <2>1. links' \subseteq Texts /\ edits' \in 0..MaxEdits
    BY <1>3, NewText DEF AddNewLink, EditLink, DeleteLink, PageTyped
  <2>2. early' \in BOOLEAN
    BY <1>0, <1>3 DEF AddNewLink, EditLink, DeleteLink
  <2>3. UNCHANGED <<profile, me, canvas, picking, mounted, load, page, nameRef, entered, amiss>>
    BY <1>3 DEF AddNewLink, EditLink, DeleteLink
  <2> QED BY <2>1, <2>2, <2>3 DEF PageTyped
<1>4. ASSUME NEW i \in DOMAIN saves, SaveIsDone(i) PROVE PageTyped'
  <2>1. saves[i] \in AnySave /\ SaveTyped(saves[i])
    BY DEF SavesTyped
  <2>2. ProfileTyped'
    <3>1. CASE saves[i].of = "name"
      BY <1>4, <2>1, <3>1 DEF SaveIsDone, SaveTyped, PageTyped
    <3>2. CASE saves[i].of = "urls"
      BY <1>4, <2>1, <3>2 DEF SaveIsDone, SaveTyped, PageTyped
    <3>3. CASE saves[i].of = "links"
      BY <1>4, <2>1, <3>3 DEF SaveIsDone, SaveTyped, PageTyped
    <3> QED BY <2>1, <3>1, <3>2, <3>3 DEF AnySave
  <2>3. amiss' \subseteq {"name", "urls", "links", "picture", "hero"}
    BY <1>4, <2>1 DEF SaveIsDone, Amiss, PageTyped, AnySave
  <2> QED BY <1>4, <2>2, <2>3 DEF SaveIsDone, PageTyped
<1>5. ASSUME NEW i \in DOMAIN saves, SaveFails(i) PROVE PageTyped'
  <2>1. saves[i].of \in {"name", "urls", "links"}
    <3>1. saves[i] \in AnySave
      BY DEF SavesTyped
    <3> QED BY <3>1 DEF AnySave
  <2>2. amiss' \subseteq {"name", "urls", "links", "picture", "hero"}
    BY <1>5, <2>1 DEF SaveFails, Amiss, PageTyped
  <2> QED BY <1>5, <2>2 DEF SaveFails, PageTyped
<1> QED BY <1>1, <1>2, <1>3, <1>4, <1>5

\* The hero.
LEMMA PageTypedHero ==
    ASSUME PageTyped,
           \/ OpenCanvas \/ (\E h \in HeroParts : EditHero(h)) \/ SaveHero \/ LeaveCanvas
           \/ HeroIsStored \/ HeroLands \/ HeroFails
    PROVE  PageTyped'
<1> USE DEF ProfileTyped, EnteredTyped, LoadTyped, PickingTyped, CanvasTyped, ScreenTyped,
            PageHistoryTyped
<1>0. canvas.hero \in Heroes /\ page.hero \in Heroes /\ canvas.mine \subseteq HeroParts
  BY DEF PageTyped, Shown
<1>1. CASE OpenCanvas
  <2>1. CanvasTyped'
    BY <1>0, <1>1, BlankTyped DEF OpenCanvas
  <2>2. early' \in BOOLEAN
    BY <1>1 DEF OpenCanvas
  <2> QED BY <1>1, <2>1, <2>2 DEF OpenCanvas, PageTyped
<1>2. ASSUME NEW h \in HeroParts, EditHero(h) PROVE PageTyped'
  <2>1. New \in Texts /\ edits' \in 0..MaxEdits
    BY <1>2, NewText DEF EditHero, PageTyped
  <2>2. [canvas.hero EXCEPT ![h] = New] \in Heroes /\ canvas.mine \cup {h} \subseteq HeroParts
    BY <1>0, <2>1 DEF Heroes
  <2>3. CanvasTyped'
    BY <1>2, <2>2 DEF EditHero, PageTyped
  <2> QED BY <1>2, <2>1, <2>3 DEF EditHero, PageTyped
<1>3. CASE SaveHero
  <2>1. [h \in HeroParts |-> IF h \in canvas.mine THEN canvas.hero[h] ELSE entered.hero[h]]
           \in Heroes
    BY <1>0 DEF Heroes, PageTyped
  <2>2. EnteredTyped'
    BY <1>3, <2>1 DEF SaveHero, Enters, PageTyped
  <2>3. CanvasTyped'
    BY <1>3 DEF SaveHero, PageTyped
  <2> QED BY <1>3, <2>2, <2>3 DEF SaveHero, PageTyped
<1>4. CASE LeaveCanvas
  <2>1. CanvasTyped'
    BY <1>4, BlankTyped DEF LeaveCanvas, PageTyped
  <2> QED BY <1>4, <2>1 DEF LeaveCanvas, PageTyped
<1>5. CASE HeroIsStored
  <2>1. CanvasTyped' /\ ProfileTyped'
    BY <1>0, <1>5 DEF HeroIsStored, PageTyped
  <2> QED BY <1>5, <2>1 DEF HeroIsStored, PageTyped
<1>6. CASE HeroLands
  <2>1. CanvasTyped' /\ me' \in Heroes
    BY <1>0, <1>6, BlankTyped DEF HeroLands
  <2>2. CASE Unmounted
    BY <1>6, <2>1, <2>2, BlankTyped, TextsAre DEF HeroLands, Unmounted, PageTyped
  <2>3. CASE /\ page' = [page EXCEPT !.hero = me']
             /\ UNCHANGED <<mounted, load, nameRef, links, entered, early, amiss>>
    <3>1. page' \in Shown
      BY <2>1, <2>3 DEF PageTyped, Shown
    <3> QED BY <1>6, <2>1, <2>3, <3>1 DEF HeroLands, PageTyped
  <2> QED BY <1>6, <2>2, <2>3 DEF HeroLands
<1>7. CASE HeroFails
  <2>1. CanvasTyped'
    BY <1>7, BlankTyped DEF HeroFails, PageTyped
  <2>2. amiss' \subseteq {"name", "urls", "links", "picture", "hero"}
    BY <1>7 DEF HeroFails, Amiss, PageTyped
  <2> QED BY <1>7, <2>1, <2>2 DEF HeroFails, PageTyped
<1> QED BY <1>1, <1>2, <1>3, <1>4, <1>5, <1>6, <1>7

\* The picture.
LEMMA PageTypedPicture ==
    ASSUME PageTyped, PickAvatar \/ PictureIsStored \/ PictureLands \/ PictureFails
    PROVE  PageTyped'
<1> USE DEF ProfileTyped, EnteredTyped, LoadTyped, PickingTyped, CanvasTyped, ScreenTyped,
            PageHistoryTyped, heroVars
<1>1. CASE PickAvatar
  <2>1. New \in Texts /\ edits' \in 0..MaxEdits
    BY <1>1, NewText DEF PickAvatar, PageTyped
  <2>2. page' \in Shown /\ PickingTyped'
    BY <1>1, <2>1 DEF PickAvatar, PageTyped, Shown
  <2>3. early' \in BOOLEAN
    BY <1>1 DEF PickAvatar
  <2> QED BY <1>1, <2>1, <2>2, <2>3 DEF PickAvatar, PageTyped
<1>2. CASE PictureIsStored
  BY <1>2 DEF PictureIsStored, PageTyped
<1>3. CASE PictureLands \/ PictureFails
  <2>1. page' \in Shown
    BY <1>3 DEF PictureLands, PictureFails, PageTyped, Shown
  <2>2. amiss' \subseteq {"name", "urls", "links", "picture", "hero"}
    BY <1>3 DEF PictureLands, PictureFails, Amiss, PageTyped
  <2> QED BY <1>3, <2>1, <2>2, BlankTyped DEF PictureLands, PictureFails, PageTyped
<1> QED BY <1>1, <1>2, <1>3

LEMMA PageShapesStep == PageShapes /\ [PageNext]_pageVars => PageShapes'
<1> SUFFICES ASSUME PageShapes, [PageNext]_pageVars PROVE PageShapes'
  OBVIOUS
<1>1. SavesTyped /\ SavesTyped' /\ PageTyped
  BY SavesTypedStep, PageTypes DEF PageShapes, PageTyped
<1>2. PageTyped'
  <2>1. CASE UNCHANGED pageVars
    BY <1>1, <2>1 DEF pageVars, PageTyped, ProfileTyped, EnteredTyped, LoadTyped, PickingTyped,
       CanvasTyped, ScreenTyped, PageHistoryTyped
  <2>2. CASE PageNext
    BY <1>1, <2>2, PageTypedOpened, PageTypedSaved, PageTypedHero, PageTypedPicture DEF PageNext
  <2> QED BY <2>1, <2>2
<1>3. PageTypes'
  BY PageTypes, PTL
<1> QED BY <1>1, <1>2, <1>3 DEF PageShapes, PageTyped

LEMMA NoneHealsStep ==
    ASSUME PageShapes, [PageNext]_pageVars, mounted', ~Landed', Unfilled
    PROVE  NoneHeals'
<1>1. /\ SavesTyped /\ ScreenTyped /\ LoadTyped /\ PageHistoryTyped /\ DOMAIN saves = 1..Len(saves)
      /\ saves \in Seq(AnySave) /\ Len(saves) \in Nat
  BY PageTypes DEF PageShapes, SavesTyped
<1>2. CASE OpenProfile
  BY <1>1, <1>2, SavesOld DEF OpenProfile, NoneHeals
<1>3. CASE ~OpenProfile
  <2>1. mounted /\ ~Landed /\ NoneHeals
    <3>1. /\ mounted' = mounted \/ Unmounted \/ OpenProfile
          /\ \/ load' = load \/ Unmounted \/ OpenProfile \/ LoadIsAnswered \/ ProfileLoadFails
             \/ LoadLands
      BY DEF PageNext, pageVars, CloseProfile, LoadIsAnswered, ProfileLoadFails, LoadLands,
           TypeName,
         BlurName, SaveSocial, AddNewLink, EditLink, DeleteLink, OpenCanvas, EditHero, SaveHero,
         LeaveCanvas, HeroIsStored, HeroLands, HeroFails, PickAvatar, PictureIsStored,
         PictureLands, PictureFails, SaveIsDone, SaveFails
    <3>2. ~Unmounted
      BY DEF Unmounted
    <3>3. ~LoadLands
      BY <1>1 DEF LoadLands, Landed, LoadTyped
    <3>4. mounted
      BY <1>3, <3>1, <3>2
    <3>5. ~Landed
      BY <1>3, <3>1, <3>2, <3>3 DEF LoadIsAnswered, ProfileLoadFails, Landed
    <3> QED BY <3>4, <3>5 DEF Unfilled
  <2>2. CASE UNCHANGED saves
    BY <2>1, <2>2 DEF NoneHeals
  <2>3. ASSUME NEW of \in {"name", "urls", "links"}, NEW v \in PageValues, Saves(of, v)
        PROVE  NoneHeals'
    <3> DEFINE e == [of |-> of, value |-> v, heals |-> FALSE]
    <3>a. Landed = FALSE
      BY <2>1 DEF Landed
    <3>b. saves' = With(saves, [of |-> of, value |-> v, heals |-> Landed])
      BY <2>3 DEF Saves, With
    <3>1. saves' = With(saves, e)
      BY <3>a, <3>b
    <3>c. e \in AnySave
      BY DEF AnySave
    <3>2. e.heals = FALSE
      OBVIOUS
    <3> HIDE DEF e
    <3>3. /\ Len(saves') = Len(saves) + 1 /\ saves'[Len(saves) + 1] = e
          /\ \A i \in 1..Len(saves) : saves'[i].heals = (saves[i].heals /\ saves[i].of # e.of)
      BY <1>1, <3>1, <3>c, SaveAdded
    <3>4. \A i \in 1..Len(saves) : saves'[i].heals = FALSE
      BY <2>1, <3>3 DEF NoneHeals
    <3>5. \A i \in 1..(Len(saves) + 1) : i \in 1..Len(saves) \/ i = Len(saves) + 1
      BY <1>1
    <3> QED BY <3>2, <3>3, <3>4, <3>5 DEF NoneHeals
  <2>4. ASSUME NEW i \in DOMAIN saves, SaveIsDone(i) \/ SaveFails(i) PROVE NoneHeals'
    <3>1. i \in 1..Len(saves) /\ saves' = RemoveAt(saves, i)
      BY <1>1, <2>4 DEF SaveIsDone, SaveFails
    <3>2. /\ Len(saves') = Len(saves) - 1
          /\ \A j \in 1..(Len(saves) - 1) : saves'[j] = saves[IF j < i THEN j ELSE j + 1]
      BY <1>1, <3>1, ElementRemoved
    <3>3. \A j \in 1..(Len(saves) - 1) : (IF j < i THEN j ELSE j + 1) \in 1..Len(saves)
      BY <1>1, <3>1
    <3> QED BY <2>1, <3>2, <3>3 DEF NoneHeals
  <2>5. CASE BlurName
    <3>1. page.name \in PageValues /\ Saves("name", page.name)
      BY <1>1, <2>5 DEF BlurName, ScreenTyped, Shown, PageValues
    <3> QED BY <2>3, <3>1
  <2>6. ASSUME NEW p \in Platforms, SaveSocial(p) PROVE NoneHeals'
    <3>1. New \in Texts /\ page' = [page EXCEPT !.urls[p] = New] /\ Saves("urls", page'.urls)
      BY <1>1, <2>6, NewText DEF SaveSocial
    <3>2. page'.urls \in PageValues
      BY <1>1, <3>1 DEF ScreenTyped, Shown, PageValues
    <3> QED BY <2>3, <3>1, <3>2
  <2>7. CASE AddNewLink \/ \E l \in links : EditLink(l) \/ DeleteLink(l)
    <3>1. links' \subseteq Texts /\ Saves("links", links')
      BY <1>1, <2>7, NewText DEF AddNewLink, EditLink, DeleteLink, ScreenTyped
    <3>2. links' \in PageValues
      BY <3>1 DEF PageValues
    <3> QED BY <2>3, <3>1, <3>2
  <2> QED
    BY <1>3, <2>2, <2>4, <2>5, <2>6, <2>7 DEF PageNext, pageVars, CloseProfile, LoadIsAnswered,
       ProfileLoadFails, LoadLands, TypeName, OpenCanvas, EditHero, SaveHero, LeaveCanvas,
       HeroIsStored, HeroLands, HeroFails, PickAvatar, PictureIsStored, PictureLands, PictureFails
<1> QED BY <1>2, <1>3

LEMMA UnfilledStep == PageShapes /\ Unfilled /\ [PageNext]_pageVars => Unfilled'
<1> SUFFICES ASSUME PageShapes, Unfilled, [PageNext]_pageVars, mounted', ~Landed', ~early'
             PROVE  /\ saves' = << >> /\ picking' = NoPicture /\ canvas' = NoCanvas
                    /\ load'.stage = "answered" =>
                         /\ load'.got.name = profile'.name /\ load'.got.urls = profile'.urls
                         /\ load'.got.picture = profile'.picture /\ load'.got.hero = profile'.hero
  BY NoneHealsStep DEF Unfilled
<1>0. /\ SavesTyped /\ LoadTyped /\ DOMAIN saves = 1..Len(saves) /\ Len(saves) \in Nat
      /\ saves \in Seq(AnySave)
  BY PageTypes DEF PageShapes, SavesTyped
<1>1. CASE OpenProfile
  <2>1. saves = << >> /\ picking = NoPicture /\ canvas = NoCanvas
    BY <1>1 DEF OpenProfile
  <2>2. saves' \in Seq(AnySave) /\ Len(saves') = 0
    BY <1>0, <1>1, <2>1, SavesOld DEF OpenProfile, SavesTyped
  <2>3. saves' = << >>
    BY <2>2
  <2>4. load'.stage = "sent"
    BY <1>1, BlankTyped DEF OpenProfile
  <2> QED BY <1>1, <2>1, <2>3, <2>4 DEF OpenProfile, heroVars
<1>2. ASSUME mounted, ~Landed, ~early
      PROVE  /\ saves = << >> /\ picking = NoPicture /\ canvas = NoCanvas
             /\ load.stage = "answered" =>
                  /\ load.got.name = profile.name /\ load.got.urls = profile.urls
                  /\ load.got.picture = profile.picture /\ load.got.hero = profile.hero
  BY <1>2 DEF Unfilled
<1>3. CASE UNCHANGED pageVars \/ TypeName
  <2>1. UNCHANGED <<profile, saves, picking, mounted, load, canvas, early>>
    BY <1>3 DEF pageVars, TypeName, heroVars
  <2> QED BY <1>2, <2>1 DEF Landed
<1>4. CASE LoadIsAnswered \/ ProfileLoadFails
  <2>1. UNCHANGED <<profile, saves, picking, mounted, canvas, early>> /\ ~Landed
    BY <1>4 DEF LoadIsAnswered, ProfileLoadFails, heroVars, Landed
  <2>2. load'.stage = "answered" =>
          /\ load'.got.name = profile.name /\ load'.got.urls = profile.urls
          /\ load'.got.picture = profile.picture /\ load'.got.hero = profile.hero
    <3>1. CASE LoadIsAnswered
      BY <3>1 DEF LoadIsAnswered
    <3>2. CASE ProfileLoadFails
      BY <3>2, BlankTyped DEF ProfileLoadFails
    <3> QED BY <1>4, <3>1, <3>2
  <2> QED BY <1>2, <2>1, <2>2
<1>5. CASE LoadLands \/ CloseProfile
  BY <1>0, <1>5 DEF LoadLands, CloseProfile, Unmounted, Landed, LoadTyped
<1>6. CASE BlurName \/ (\E p \in Platforms : SaveSocial(p)) \/ AddNewLink
           \/ (\E l \in links : EditLink(l) \/ DeleteLink(l)) \/ OpenCanvas \/ PickAvatar
  <2>1. load' = load /\ early' = (early \/ ~Landed)
    BY <1>6 DEF BlurName, SaveSocial, AddNewLink, EditLink, DeleteLink, OpenCanvas, PickAvatar,
       Saves
  <2> QED BY <2>1 DEF Landed
<1>7. CASE \/ (\E h \in HeroParts : EditHero(h)) \/ SaveHero \/ LeaveCanvas \/ HeroIsStored
           \/ HeroLands \/ HeroFails
  <2>1. canvas # NoCanvas
    BY <1>7, BlankTyped DEF EditHero, SaveHero, LeaveCanvas, HeroIsStored, HeroLands, HeroFails
  <2>2. UNCHANGED <<mounted, load, early>>
    BY <1>7 DEF EditHero, SaveHero, LeaveCanvas, HeroIsStored, HeroLands, HeroFails, Unmounted
  <2> QED BY <1>2, <2>1, <2>2 DEF Landed
<1>8. CASE PictureIsStored \/ PictureLands \/ PictureFails
  <2>1. picking # NoPicture /\ UNCHANGED <<mounted, load, early>>
    BY <1>8, BlankTyped DEF PictureIsStored, PictureLands, PictureFails
  <2> QED BY <1>2, <2>1 DEF Landed
<1>9. ASSUME NEW i \in DOMAIN saves, SaveIsDone(i) \/ SaveFails(i) PROVE FALSE
  <2>1. saves # << >>
    BY <1>0, <1>9
  <2>2. UNCHANGED <<mounted, load, early>>
    BY <1>9 DEF SaveIsDone, SaveFails
  <2> QED BY <1>2, <2>1, <2>2 DEF Landed
<1> QED BY <1>1, <1>3, <1>4, <1>5, <1>6, <1>7, <1>8, <1>9 DEF PageNext

KindsStand == NameStands /\ UrlsStand /\ LinksStand

LEMMA StandsWorse ==
    ASSUME NEW s, NEW w, NEW v, NEW pv, NEW bad, NEW worse, Stands(s, w, v, pv, bad),
           w \in bad => w \in worse
    PROVE  Stands(s, w, v, pv, worse)
BY DEF Stands

LEMMA KindsLand ==
    ASSUME PageShapes, Unfilled, LoadLands
    PROVE  KindsStand'
<1>1. /\ mounted /\ ~Landed /\ load.got \in Shown
      /\ saves' = saves /\ profile' = profile /\ links' = links /\ page' = load.got
      /\ nameRef' = load.got.name
      /\ entered' = [name |-> load.got.name, urls |-> load.got.urls, hero |-> load.got.hero]
      /\ amiss' = IF early THEN {"name", "urls", "links", "picture", "hero"} ELSE {"links"}
  BY PageTypes DEF PageShapes, LoadLands, Landed, LoadTyped
<1>2. NoneHeals
  BY <1>1 DEF Unfilled
<1>3. \A w, v : HealsLast(saves, w, v)
  BY <1>2 DEF NoneHeals, HealsLast, Heals
<1>4. ASSUME NEW w, NEW v, NEW pv, w \in amiss' PROVE Stands(saves', w, v, pv, amiss')
  BY <1>1, <1>3, <1>4 DEF Stands
<1>5. "links" \in amiss'
  BY <1>1
<1>6. CASE early
  <2>1. "name" \in amiss' /\ "urls" \in amiss'
    BY <1>1, <1>6
  <2> QED BY <1>1, <1>4, <1>5, <2>1 DEF KindsStand, NameStands, UrlsStand, LinksStand
<1>7. CASE ~early
  <2>1. /\ saves = << >> /\ load.got.name = profile.name /\ load.got.urls = profile.urls
    BY <1>1, <1>7 DEF Unfilled, LoadLands
  <2>2. \A i \in 1..Len(saves) : FALSE
    BY <2>1
  <2>3. \A w, v : Stands(saves', w, v, v, amiss')
    BY <1>1, <1>3, <2>2 DEF Stands
  <2>4. entered'.name = profile'.name /\ entered'.urls = profile'.urls
    BY <1>1, <2>1
  <2> QED BY <1>1, <1>4, <1>5, <2>1, <2>3, <2>4 DEF KindsStand, NameStands, UrlsStand, LinksStand
<1> QED BY <1>6, <1>7

LEMMA KindsKept ==
    ASSUME KindsStand, Landed,
           UNCHANGED <<saves, nameRef, links>>, amiss \subseteq amiss',
           profile'.name = profile.name, profile'.urls = profile.urls,
           profile'.links = profile.links,
           entered'.name = entered.name, entered'.urls = entered.urls, page'.urls = page.urls
    PROVE  KindsStand'
<1>1. /\ Stands(saves, "name", entered.name, profile.name, amiss')
      /\ Stands(saves, "urls", page.urls, profile.urls, amiss')
      /\ Stands(saves, "links", links, profile.links, amiss')
  BY StandsWorse DEF KindsStand, NameStands, UrlsStand, LinksStand
<1>2. nameRef = entered.name /\ page.urls = entered.urls
  BY DEF KindsStand, NameStands, UrlsStand
<1> QED BY <1>1, <1>2 DEF KindsStand, NameStands, UrlsStand, LinksStand

\* A save of what is on the page.
LEMMA KindsSaved ==
    ASSUME PageShapes, KindsStand, Landed, NEW of \in {"name", "urls", "links"},
           NEW v \in PageValues, Saves(of, v), UNCHANGED <<profile, amiss>>
    PROVE  /\ \A pv : Stands(saves', of, v, pv, amiss')
           /\ of # "name" => Stands(saves', "name", entered.name, profile'.name, amiss')
           /\ of # "urls" => Stands(saves', "urls", page.urls, profile'.urls, amiss')
           /\ of # "links" => Stands(saves', "links", links, profile'.links, amiss')
<1> DEFINE e == [of |-> of, value |-> v, heals |-> TRUE]
<1>1. Landed = TRUE
  BY DEF Landed
<1>2. saves' = With(saves, [of |-> of, value |-> v, heals |-> Landed])
  BY DEF Saves, With
<1>3. saves' = With(saves, e)
  BY <1>1, <1>2
<1>4. e \in AnySave
  BY DEF AnySave
<1>5. e.of = of /\ e.value = v /\ e.heals = TRUE
  OBVIOUS
<1>6. saves \in Seq(AnySave)
  BY DEF PageShapes, SavesTyped
<1> HIDE DEF e
<1>7. /\ \A pv, bad : Stands(saves', e.of, e.value, pv, bad)
      /\ \A x, u, pv, bad :
           x # e.of /\ Stands(saves, x, u, pv, bad) => Stands(saves', x, u, pv, bad)
  BY <1>3, <1>4, <1>5, <1>6, StandsAdded
<1>8. /\ Stands(saves, "name", entered.name, profile.name, amiss)
      /\ Stands(saves, "urls", page.urls, profile.urls, amiss)
      /\ Stands(saves, "links", links, profile.links, amiss)
  BY DEF KindsStand, NameStands, UrlsStand, LinksStand
<1> QED BY <1>5, <1>7, <1>8

\* A save is done, or fails.
LEMMA KindsLeft ==
    ASSUME PageShapes, KindsStand, Landed, NEW i \in DOMAIN saves, SaveIsDone(i) \/ SaveFails(i)
    PROVE  KindsStand'
<1>1. /\ saves \in Seq(AnySave) /\ i \in 1..Len(saves) /\ saves' = RemoveAt(saves, i)
      /\ UNCHANGED <<nameRef, links, entered, page>>
  BY DEF PageShapes, SavesTyped, SaveIsDone, SaveFails
<1>2. /\ Stands(saves, "name", entered.name, profile.name, amiss)
      /\ Stands(saves, "urls", page.urls, profile.urls, amiss)
      /\ Stands(saves, "links", links, profile.links, amiss)
      /\ nameRef = entered.name /\ page.urls = entered.urls
  BY DEF KindsStand, NameStands, UrlsStand, LinksStand
<1>3. /\ saves[i] \in AnySave /\ saves[i].of \in {"name", "urls", "links"}
      /\ saves[i].heals \in BOOLEAN
  <2>1. saves[i] \in AnySave
    BY <1>1
  <2> QED BY <2>1 DEF AnySave
<1>4. CASE SaveFails(i)
  <2>1. profile' = profile /\ amiss' = amiss \cup {saves[i].of}
    BY <1>4 DEF SaveFails, Amiss
  <2>2. ASSUME NEW w, NEW v, NEW pv, Stands(saves, w, v, pv, amiss)
        PROVE  Stands(saves', w, v, pv, amiss')
    BY <1>1, <2>1, <2>2, StandsRemoved
  <2>3. /\ Stands(saves', "name", entered.name, profile.name, amiss')
        /\ Stands(saves', "urls", page.urls, profile.urls, amiss')
        /\ Stands(saves', "links", links, profile.links, amiss')
    BY <1>2, <2>2
  <2> QED BY <1>1, <1>2, <2>1, <2>3 DEF KindsStand, NameStands, UrlsStand, LinksStand
<1>5. CASE SaveIsDone(i)
  <2> DEFINE over == \E j \in 1..(i - 1) : saves[j].of = saves[i].of
             of == saves[i].of
  <2>1. amiss' = IF over THEN amiss \cup {of}
                 ELSE IF saves[i].heals /\ ~(early /\ of = "urls") THEN amiss \ {of} ELSE amiss
    BY <1>5 DEF SaveIsDone, Amiss
  <2>2. \A w : w # of => (w \in amiss <=> w \in amiss')
    BY <2>1
  <2>3. (over => of \in amiss') /\ (of \in amiss /\ ~Heals(saves, i, of) => of \in amiss')
    BY <1>3, <2>1 DEF Heals
  <2>4. ASSUME NEW w, NEW v, NEW pv, Stands(saves, w, v, pv, amiss)
        PROVE  /\ of # w => Stands(saves', w, v, pv, amiss')
               /\ of = w => Stands(saves', w, v, saves[i].value, amiss')
    <3>1. CASE of # w
      BY <1>1, <2>2, <2>4, <3>1, StandsRemoved
    <3>2. CASE of = w
      BY <1>1, <2>3, <2>4, <3>2, StandsRemoved
    <3> QED BY <3>1, <3>2
  <2>5. ProfileTyped
    BY PageTypes DEF PageShapes
  <2>6. profile' = CASE saves[i].of = "name" -> [profile EXCEPT !.name = saves[i].value]
                     [] saves[i].of = "urls" -> [profile EXCEPT !.urls = saves[i].value]
                     [] saves[i].of = "links" -> [profile EXCEPT !.links = saves[i].value]
    BY <1>5 DEF SaveIsDone
  <2>7. /\ profile'.name = IF of = "name" THEN saves[i].value ELSE profile.name
        /\ profile'.urls = IF of = "urls" THEN saves[i].value ELSE profile.urls
        /\ profile'.links = IF of = "links" THEN saves[i].value ELSE profile.links
    <3>1. CASE of = "name"
      BY <2>5, <2>6, <3>1 DEF ProfileTyped
    <3>2. CASE of = "urls"
      BY <2>5, <2>6, <3>2 DEF ProfileTyped
    <3>3. CASE of = "links"
      BY <2>5, <2>6, <3>3 DEF ProfileTyped
    <3> QED BY <1>3, <3>1, <3>2, <3>3
  <2> HIDE DEF over, of
  <2>8. Stands(saves', "name", entered.name, profile'.name, amiss')
    BY <1>2, <2>4, <2>7
  <2>9. Stands(saves', "urls", page.urls, profile'.urls, amiss')
    BY <1>2, <2>4, <2>7
  <2>10. Stands(saves', "links", links, profile'.links, amiss')
    BY <1>2, <2>4, <2>7
  <2> QED BY <1>1, <1>2, <2>8, <2>9, <2>10 DEF KindsStand, NameStands, UrlsStand, LinksStand
<1> QED BY <1>4, <1>5

LEMMA StaysLanded ==
    ASSUME PageShapes, [PageNext]_pageVars, Landed', ~LoadLands
    PROVE  /\ Landed /\ ~OpenProfile /\ ~CloseProfile /\ ~LoadIsAnswered /\ ~ProfileLoadFails
           /\ ~Unmounted
<1>1. ~OpenProfile /\ ~Unmounted /\ ~LoadIsAnswered /\ ~ProfileLoadFails
  BY BlankTyped DEF OpenProfile, Unmounted, LoadIsAnswered, ProfileLoadFails, Landed
<1>2. ~CloseProfile
  BY <1>1 DEF CloseProfile
<1>3. load' = load
  BY <1>1, <1>2 DEF PageNext, pageVars, TypeName, BlurName, SaveSocial, AddNewLink, EditLink,
       DeleteLink,
     OpenCanvas, EditHero, SaveHero, LeaveCanvas, HeroIsStored, HeroLands, HeroFails, PickAvatar,
     PictureIsStored, PictureLands, PictureFails, SaveIsDone, SaveFails
<1> QED BY <1>1, <1>2, <1>3 DEF Landed

LEMMA KindsStandStep ==
    PageShapes /\ Unfilled /\ KindsStand /\ [PageNext]_pageVars => KindsStand'
<1> SUFFICES ASSUME PageShapes, Unfilled, KindsStand, [PageNext]_pageVars, Landed'
             PROVE  KindsStand'
  BY DEF KindsStand, NameStands, UrlsStand, LinksStand
<1>0. /\ ProfileTyped /\ EnteredTyped /\ ScreenTyped /\ PageHistoryTyped /\ SavesTyped
  BY PageTypes DEF PageShapes
<1>1. CASE LoadLands
  BY <1>1, KindsLand
<1>2. CASE ~LoadLands
  <2>0. /\ Landed /\ ~OpenProfile /\ ~CloseProfile /\ ~LoadIsAnswered /\ ~ProfileLoadFails
        /\ ~Unmounted
    BY <1>2, StaysLanded
  <2>1. CASE \/ TypeName \/ OpenCanvas \/ (\E h \in HeroParts : EditHero(h)) \/ SaveHero
             \/ LeaveCanvas \/ HeroIsStored \/ HeroLands \/ HeroFails
             \/ PickAvatar \/ PictureIsStored \/ PictureLands \/ PictureFails \/ UNCHANGED pageVars
    <3>1. /\ UNCHANGED <<saves, nameRef, links>> /\ amiss \subseteq amiss'
      BY <2>0, <2>1 DEF TypeName, OpenCanvas, EditHero, SaveHero, LeaveCanvas, HeroIsStored,
         HeroLands, HeroFails, PickAvatar, PictureIsStored, PictureLands, PictureFails, pageVars,
         Amiss
    <3>2. /\ profile'.name = profile.name /\ profile'.urls = profile.urls
          /\ profile'.links = profile.links
      BY <1>0, <2>1 DEF TypeName, OpenCanvas, EditHero, SaveHero, LeaveCanvas, HeroIsStored,
         HeroLands, HeroFails, PickAvatar, PictureIsStored, PictureLands, PictureFails, pageVars,
         ProfileTyped
    <3>3. entered'.name = entered.name /\ entered'.urls = entered.urls
      BY <1>0, <2>0, <2>1 DEF TypeName, OpenCanvas, EditHero, SaveHero, LeaveCanvas, HeroIsStored,
         HeroLands, HeroFails, PickAvatar, PictureIsStored, PictureLands, PictureFails, pageVars,
         Enters, EnteredTyped
    <3>4. page'.urls = page.urls
      BY <1>0, <2>0, <2>1 DEF TypeName, OpenCanvas, EditHero, SaveHero, LeaveCanvas, HeroIsStored,
         HeroLands, HeroFails, PickAvatar, PictureIsStored, PictureLands, PictureFails, pageVars,
         ScreenTyped, Shown
    <3> QED BY <2>0, <3>1, <3>2, <3>3, <3>4, KindsKept
  <2>2. CASE BlurName
    <3>1. page.name \in PageValues /\ Saves("name", page.name) /\ UNCHANGED <<profile, amiss>>
      BY <1>0, <2>2 DEF BlurName, ScreenTyped, Shown, PageValues
    <3>2. entered'.name = page.name /\ entered'.urls = entered.urls /\ nameRef' = page.name
          /\ UNCHANGED <<page, links>>
      BY <1>0, <2>0, <2>2 DEF BlurName, Enters, EnteredTyped
    <3>3. /\ Stands(saves', "name", page.name, profile'.name, amiss')
          /\ Stands(saves', "urls", page.urls, profile'.urls, amiss')
          /\ Stands(saves', "links", links, profile'.links, amiss')
      BY <2>0, <3>1, KindsSaved
    <3>4. page.urls = entered.urls
      BY <2>0 DEF KindsStand, UrlsStand
    <3> QED BY <3>2, <3>3, <3>4 DEF KindsStand, NameStands, UrlsStand, LinksStand
  <2>3. ASSUME NEW p \in Platforms, SaveSocial(p) PROVE KindsStand'
    <3>1. New \in Texts /\ page' = [page EXCEPT !.urls[p] = New] /\ Saves("urls", page'.urls)
          /\ UNCHANGED <<profile, amiss, nameRef, links>>
      BY <1>0, <2>3, NewText DEF SaveSocial
    <3>2. page'.urls \in PageValues
      BY <1>0, <3>1 DEF ScreenTyped, Shown, PageValues
    <3>3. /\ Stands(saves', "name", entered.name, profile'.name, amiss')
          /\ Stands(saves', "urls", page'.urls, profile'.urls, amiss')
          /\ Stands(saves', "links", links, profile'.links, amiss')
      BY <2>0, <3>1, <3>2, KindsSaved
    <3>4. page.urls = entered.urls /\ nameRef = entered.name
      BY <2>0 DEF KindsStand, UrlsStand, NameStands
    <3>5. entered' = [entered EXCEPT !.urls[p] = New]
      BY <2>0, <2>3 DEF SaveSocial, Enters
    <3>6. entered'.urls = [entered.urls EXCEPT ![p] = New] /\ entered'.name = entered.name
      BY <1>0, <3>5 DEF EnteredTyped
    <3>7. page'.urls = [page.urls EXCEPT ![p] = New]
      BY <1>0, <3>1 DEF ScreenTyped, Shown
    <3> QED BY <3>1, <3>3, <3>4, <3>6, <3>7 DEF KindsStand, NameStands, UrlsStand, LinksStand
  <2>4. CASE AddNewLink \/ \E l \in links : EditLink(l) \/ DeleteLink(l)
    <3>1. links' \subseteq Texts /\ Saves("links", links')
          /\ UNCHANGED <<profile, amiss, nameRef, page, entered>>
      BY <1>0, <2>4, NewText DEF AddNewLink, EditLink, DeleteLink, ScreenTyped
    <3>2. links' \in PageValues
      BY <3>1 DEF PageValues
    <3>3. /\ Stands(saves', "name", entered.name, profile'.name, amiss')
          /\ Stands(saves', "urls", page.urls, profile'.urls, amiss')
          /\ Stands(saves', "links", links', profile'.links, amiss')
      BY <2>0, <3>1, <3>2, KindsSaved
    <3>4. page.urls = entered.urls /\ nameRef = entered.name
      BY <2>0 DEF KindsStand, UrlsStand, NameStands
    <3> QED BY <3>1, <3>3, <3>4 DEF KindsStand, NameStands, UrlsStand, LinksStand
  <2>5. ASSUME NEW i \in DOMAIN saves, SaveIsDone(i) \/ SaveFails(i) PROVE KindsStand'
    BY <2>0, <2>5, KindsLeft
  <2> QED BY <1>2, <2>0, <2>1, <2>2, <2>3, <2>4, <2>5 DEF PageNext
<1> QED BY <1>1, <1>2

LEMMA PictureStandsStep ==
    PageShapes /\ Unfilled /\ PictureStands /\ [PageNext]_pageVars => PictureStands'
<1> SUFFICES ASSUME PageShapes, Unfilled, PictureStands, [PageNext]_pageVars, Landed',
                    "picture" \notin amiss'
             PROVE  PictureStands'
  BY DEF PictureStands
<1>0. ProfileTyped /\ ScreenTyped /\ LoadTyped /\ PickingTyped /\ SavesTyped
  BY PageTypes DEF PageShapes
<1>1. CASE LoadLands
  <2>1. /\ mounted /\ ~Landed /\ ~early
        /\ picking' = picking /\ profile' = profile /\ page' = load.got
    BY <1>1 DEF PageShapes, LoadLands, Landed
  <2>2. picking = NoPicture /\ load.got.picture = profile.picture
    BY <1>1, <2>1 DEF Unfilled, LoadLands
  <2> QED BY <2>1, <2>2, BlankTyped DEF PictureStands
<1>2. CASE ~LoadLands
  <2>0. /\ Landed /\ ~OpenProfile /\ ~CloseProfile /\ ~LoadIsAnswered /\ ~ProfileLoadFails
        /\ ~Unmounted
    BY <1>2, StaysLanded
  <2>1. ASSUME page'.picture = page.picture, profile'.picture = profile.picture,
               picking' = picking, "picture" \notin amiss
        PROVE  PictureStands'
    BY <2>0, <2>1 DEF PictureStands
  <2>2. CASE \/ TypeName \/ OpenCanvas \/ (\E h \in HeroParts : EditHero(h)) \/ SaveHero
             \/ LeaveCanvas \/ HeroIsStored \/ HeroLands \/ HeroFails \/ UNCHANGED pageVars
             \/ BlurName \/ (\E p \in Platforms : SaveSocial(p)) \/ AddNewLink
             \/ (\E l \in links : EditLink(l) \/ DeleteLink(l))
    <3>1. page'.picture = page.picture
      BY <1>0, <2>0, <2>2 DEF TypeName, OpenCanvas, EditHero, SaveHero, LeaveCanvas, HeroIsStored,
         HeroLands, HeroFails, pageVars, BlurName, SaveSocial, AddNewLink, EditLink, DeleteLink,
         ScreenTyped, Shown
    <3>2. profile'.picture = profile.picture
      BY <1>0, <2>2 DEF TypeName, OpenCanvas, EditHero, SaveHero, LeaveCanvas, HeroIsStored,
         HeroLands, HeroFails, pageVars, BlurName, SaveSocial, AddNewLink, EditLink, DeleteLink,
         ProfileTyped
    <3>3. picking' = picking /\ "picture" \notin amiss
      BY <2>0, <2>2 DEF TypeName, OpenCanvas, EditHero, SaveHero, LeaveCanvas, HeroIsStored,
         HeroLands, HeroFails, pageVars, BlurName, SaveSocial, AddNewLink, EditLink, DeleteLink,
         Amiss
    <3> QED BY <2>1, <3>1, <3>2, <3>3
  <2>3. ASSUME NEW i \in DOMAIN saves, SaveIsDone(i) \/ SaveFails(i) PROVE PictureStands'
    <3>1. saves[i] \in AnySave
      BY <1>0 DEF SavesTyped
    <3>2. saves[i].of \in {"name", "urls", "links"}
      BY <3>1 DEF AnySave
    <3>3. profile'.picture = profile.picture
      BY <1>0, <2>3, <3>2 DEF SaveIsDone, SaveFails, ProfileTyped
    <3>4. picking' = picking /\ page' = page /\ "picture" \notin amiss
      BY <2>3, <3>2 DEF SaveIsDone, SaveFails, Amiss
    <3> QED BY <2>1, <3>3, <3>4
  <2>4. CASE PickAvatar
    <3>1. /\ picking.stage = "none" /\ "picture" \notin amiss /\ profile' = profile
          /\ picking'.stage = "sent" /\ picking'.old = page.picture
      BY <2>4, BlankTyped DEF PickAvatar
    <3> QED BY <2>0, <3>1 DEF PictureStands
  <2>5. CASE PictureIsStored
    <3>1. profile'.picture = picking.new /\ picking'.stage = "stored" /\ picking'.new = picking.new
      BY <1>0, <2>5 DEF PictureIsStored, ProfileTyped, PickingTyped
    <3> QED BY <3>1 DEF PictureStands
  <2>6. CASE PictureLands
    <3>1. /\ picking.stage = "stored" /\ picking' = NoPicture /\ picking'.stage = "none"
          /\ profile' = profile
          /\ "picture" \notin amiss /\ mounted
      BY <2>0, <2>6, BlankTyped DEF PictureLands, PageShapes, Landed
    <3>2. page'.picture = picking.new
      BY <1>0, <2>6, <3>1 DEF PictureLands, ScreenTyped, Shown
    <3> QED BY <2>0, <3>1, <3>2 DEF PictureStands
  <2>7. CASE PictureFails
    <3>1. /\ picking.stage = "sent" /\ picking' = NoPicture /\ picking'.stage = "none"
          /\ profile' = profile /\ "picture" \notin amiss /\ mounted
      <4>1. picking.stage # "stored"
        BY <2>0, <2>7 DEF PictureFails, Amiss
      <4>2. picking.stage # "none"
        <5>1. picking # NoPicture /\ "picture" \notin amiss
          BY <2>0, <2>7, <4>1 DEF PictureFails, Amiss
        <5> QED BY <2>0, <5>1 DEF PictureStands
      <4>3. picking.stage = "sent"
        BY <1>0, <4>1, <4>2 DEF PickingTyped
      <4>4. picking' = NoPicture /\ picking'.stage = "none"
        BY <2>7, BlankTyped DEF PictureFails
      <4>5. profile' = profile /\ "picture" \notin amiss
        BY <2>0, <2>7, <4>1 DEF PictureFails, Amiss
      <4>6. mounted
        BY <2>0 DEF PageShapes, Landed
      <4> QED BY <4>3, <4>4, <4>5, <4>6
    <3>2. page'.picture = picking.old
      BY <1>0, <2>7, <3>1 DEF PictureFails, ScreenTyped, Shown
    <3> QED BY <2>0, <3>1, <3>2 DEF PictureStands
  <2> QED BY <1>2, <2>0, <2>2, <2>3, <2>4, <2>5, <2>6, <2>7 DEF PageNext
<1> QED BY <1>1, <1>2

LEMMA HeroStandsStep ==
    PageShapes /\ Unfilled /\ HeroStands /\ [PageNext]_pageVars => HeroStands'
<1> SUFFICES ASSUME PageShapes, Unfilled, HeroStands, [PageNext]_pageVars, Landed',
                    "hero" \notin amiss'
             PROVE  HeroStands'
  BY DEF HeroStands
<1>0. ProfileTyped /\ EnteredTyped /\ ScreenTyped /\ LoadTyped /\ CanvasTyped /\ SavesTyped
  BY PageTypes DEF PageShapes
<1>1. CASE LoadLands
  <2>1. /\ mounted /\ ~Landed /\ ~early
        /\ canvas' = canvas /\ profile' = profile /\ page' = load.got
        /\ entered'.hero = load.got.hero
    BY <1>1 DEF PageShapes, LoadLands, Landed, heroVars
  <2>2. canvas = NoCanvas /\ load.got.hero = profile.hero
    BY <1>1, <2>1 DEF Unfilled, LoadLands
  <2> QED BY <2>1, <2>2, BlankTyped DEF HeroStands
<1>2. CASE ~LoadLands
  <2>0. /\ Landed /\ ~OpenProfile /\ ~CloseProfile /\ ~LoadIsAnswered /\ ~ProfileLoadFails
        /\ ~Unmounted
    BY <1>2, StaysLanded
  <2>1. ASSUME page'.hero = page.hero, profile'.hero = profile.hero, canvas' = canvas,
               entered'.hero = entered.hero, "hero" \notin amiss
        PROVE  HeroStands'
    BY <2>0, <2>1 DEF HeroStands
  <2>2. CASE \/ TypeName \/ PickAvatar \/ PictureIsStored \/ PictureLands \/ PictureFails
             \/ UNCHANGED pageVars \/ BlurName \/ (\E p \in Platforms : SaveSocial(p))
             \/ AddNewLink \/ (\E l \in links : EditLink(l) \/ DeleteLink(l))
    <3>1. page'.hero = page.hero
      BY <1>0, <2>2 DEF TypeName, PickAvatar, PictureIsStored, PictureLands, PictureFails,
         pageVars, BlurName, SaveSocial, AddNewLink, EditLink, DeleteLink, ScreenTyped, Shown
    <3>2. profile'.hero = profile.hero
      BY <1>0, <2>2 DEF TypeName, PickAvatar, PictureIsStored, PictureLands, PictureFails,
         pageVars, BlurName, SaveSocial, AddNewLink, EditLink, DeleteLink, ProfileTyped
    <3>3. entered'.hero = entered.hero
      BY <1>0, <2>2 DEF TypeName, PickAvatar, PictureIsStored, PictureLands, PictureFails,
         pageVars, BlurName, SaveSocial, AddNewLink, EditLink, DeleteLink, Enters, EnteredTyped
    <3>4. canvas' = canvas
      BY <2>2 DEF TypeName, PickAvatar, PictureIsStored, PictureLands, PictureFails, heroVars,
         pageVars, BlurName, SaveSocial, AddNewLink, EditLink, DeleteLink
    <3>5. "hero" \notin amiss
      BY <2>0, <2>2 DEF TypeName, PickAvatar, PictureIsStored, PictureLands, PictureFails, Amiss,
         pageVars, BlurName, SaveSocial, AddNewLink, EditLink, DeleteLink
    <3> QED BY <2>1, <3>1, <3>2, <3>3, <3>4, <3>5
  <2>3. ASSUME NEW i \in DOMAIN saves, SaveIsDone(i) \/ SaveFails(i) PROVE HeroStands'
    <3>1. saves[i] \in AnySave
      BY <1>0 DEF SavesTyped
    <3>2. saves[i].of \in {"name", "urls", "links"}
      BY <3>1 DEF AnySave
    <3>3. profile'.hero = profile.hero
      BY <1>0, <2>3, <3>2 DEF SaveIsDone, SaveFails, ProfileTyped
    <3>4. /\ canvas' = canvas /\ page' = page /\ entered' = entered
          /\ "hero" \notin amiss
      BY <2>0, <2>3, <3>2 DEF SaveIsDone, SaveFails, Amiss, heroVars
    <3> QED BY <2>1, <3>3, <3>4
  <2>4. CASE OpenCanvas
    <3>1. /\ canvas.stage = "closed" /\ "hero" \notin amiss
          /\ profile' = profile /\ page' = page /\ entered' = entered
      BY <2>4, BlankTyped DEF OpenCanvas
    <3>2. canvas'.stage = "open" /\ canvas'.hero = page.hero
      BY <2>4, BlankTyped DEF OpenCanvas
    <3> QED BY <2>0, <3>1, <3>2 DEF HeroStands
  <2>5. ASSUME NEW h \in HeroParts, EditHero(h) PROVE HeroStands'
    <3>1. /\ canvas.stage = "open" /\ "hero" \notin amiss
          /\ profile' = profile /\ page' = page /\ entered' = entered
      BY <2>5 DEF EditHero
    <3>2. /\ canvas'.stage = "open" /\ canvas'.mine = canvas.mine \cup {h}
          /\ \A g \in HeroParts \ {h} : canvas'.hero[g] = canvas.hero[g]
      BY <1>0, <2>5 DEF EditHero, CanvasTyped, Heroes
    <3> QED BY <2>0, <3>1, <3>2 DEF HeroStands
  <2>6. CASE SaveHero
    <3>1. /\ canvas.stage = "open" /\ "hero" \notin amiss
          /\ profile' = profile /\ page' = page
      BY <2>6 DEF SaveHero
    <3>2. canvas'.stage = "saving" /\ canvas'.hero = canvas.hero
      BY <1>0, <2>6 DEF SaveHero, CanvasTyped
    <3>3. entered'.hero = [h \in HeroParts |-> IF h \in canvas.mine THEN canvas.hero[h]
                                                                 ELSE entered.hero[h]]
      BY <1>0, <2>0, <2>6 DEF SaveHero, Enters, EnteredTyped
    <3>4. \A h \in HeroParts \ canvas.mine : canvas.hero[h] = entered.hero[h]
      BY <2>0, <3>1 DEF HeroStands
    <3>5. canvas.hero = [h \in HeroParts |-> canvas.hero[h]]
      BY <1>0 DEF CanvasTyped, Heroes
    <3>6. entered'.hero = canvas.hero
      BY <3>3, <3>4, <3>5
    <3> QED BY <3>2, <3>6 DEF HeroStands
  <2>7. CASE LeaveCanvas
    <3>1. /\ "hero" \notin amiss /\ profile' = profile /\ page' = page /\ entered' = entered
          /\ canvas.stage # "closed"
      BY <2>7 DEF LeaveCanvas
    <3>2. CASE canvas.stage = "open"
      <4>1. canvas' = NoCanvas
        BY <2>7, <3>2 DEF LeaveCanvas
      <4> QED BY <2>0, <3>1, <3>2, <4>1, BlankTyped DEF HeroStands
    <3>3. CASE canvas.stage # "open"
      <4>1. canvas'.stage = canvas.stage /\ canvas'.hero = canvas.hero
        BY <1>0, <2>7, <3>3 DEF LeaveCanvas, CanvasTyped
      <4> QED BY <2>0, <3>1, <3>3, <4>1 DEF HeroStands
    <3> QED BY <3>2, <3>3
  <2>8. CASE HeroIsStored
    <3>1. /\ canvas.stage = "saving" /\ "hero" \notin amiss /\ entered' = entered
      BY <2>8 DEF HeroIsStored
    <3>2. /\ canvas'.stage = "stored" /\ canvas'.hero = canvas.hero /\ profile'.hero = canvas.hero
      BY <1>0, <2>8 DEF HeroIsStored, CanvasTyped, ProfileTyped
    <3> QED BY <2>0, <3>1, <3>2 DEF HeroStands
  <2>9. CASE HeroLands
    <3>1. /\ canvas.stage = "stored" /\ canvas' = NoCanvas /\ profile' = profile
          /\ page' = [page EXCEPT !.hero = me'] /\ me' = canvas.hero
          /\ UNCHANGED <<entered, amiss>>
      BY <2>0, <2>9 DEF HeroLands
    <3>2. page'.hero = canvas.hero
      BY <1>0, <3>1 DEF ScreenTyped, Shown
    <3> QED BY <2>0, <3>1, <3>2, BlankTyped DEF HeroStands
  <2>10. CASE HeroFails
    BY <2>0, <2>10 DEF HeroFails, Amiss
  <2> QED BY <1>2, <2>0, <2>2, <2>3, <2>4, <2>5, <2>6, <2>7, <2>8, <2>9, <2>10 DEF PageNext
<1> QED BY <1>1, <1>2

PageKeeps == PageShapes /\ Unfilled /\ KindsStand /\ PictureStands /\ HeroStands

LEMMA PageHolds == PageSpec => []PageKeeps
<1>1. PageInit => PageKeeps
  <2> SUFFICES ASSUME PageInit PROVE PageKeeps
    OBVIOUS
  <2>0. /\ saves = << >> /\ Len(saves) = 0 /\ mounted = FALSE /\ load = NotLoading
        /\ load.stage = "none"
    BY BlankTyped DEF PageInit
  <2>1. SavesTyped
    BY <2>0, PageBounds DEF SavesTyped
  <2>2. PageTypeOK
    <3>1. ProfileTyped /\ me \in Heroes
      BY TextsAre DEF PageInit, ProfileTyped, Heroes
    <3>2. EnteredTyped /\ LoadTyped /\ PickingTyped /\ CanvasTyped
      BY BlankTyped DEF PageInit, EnteredTyped, LoadTyped, PickingTyped, CanvasTyped
    <3>3. ScreenTyped
      <4>1. page \in Shown /\ nameRef \in Texts /\ links \in SUBSET Texts
        BY BlankTyped, TextsAre DEF PageInit
      <4> QED BY <3>1, <4>1 DEF ScreenTyped
    <3>4. PageHistoryTyped
      <4>1. mounted = FALSE /\ early = FALSE /\ edits = 0 /\ amiss = {}
        BY DEF PageInit
      <4>2. mounted \in BOOLEAN /\ early \in BOOLEAN
        BY <4>1
      <4>3. edits \in 0..MaxEdits
        BY <4>1, PageBounds
      <4> QED BY <4>1, <4>2, <4>3 DEF PageHistoryTyped
    <3> QED BY <2>1, <3>1, <3>2, <3>3, <3>4, PageTypes
  <2> QED BY <2>0, <2>1, <2>2 DEF PageKeeps, PageShapes, Unfilled, Landed, KindsStand, NameStands,
             UrlsStand, LinksStand, PictureStands, HeroStands
<1>2. PageKeeps /\ [PageNext]_pageVars => PageKeeps'
  BY PageShapesStep, UnfilledStep, KindsStandStep, PictureStandsStep, HeroStandsStep DEF PageKeeps
<1> QED BY <1>1, <1>2, PTL DEF PageSpec

\* A user's page, the request that fills it, the saves under way, the picture and the hero
\* always have the states fullProfile.tsx, AddLink.tsx and HeroCanvas.tsx give them.
THEOREM PageTypeCorrect == PageSpec => []PageTypeOK
<1>1. PageKeeps => PageTypeOK
  BY DEF PageKeeps, PageShapes
<1> QED BY <1>1, PageHolds, PTL

\* When everything the user has edited on the profile page has been answered, the server
\* has it and the page shows it, unless a save failed, was overtaken, or met another visit.
THEOREM ProfileStaysKept == PageSpec => []ProfileIsKept
<1>1. PageKeeps => ProfileIsKept
  <2> SUFFICES ASSUME PageKeeps, Landed, saves = << >>, picking = NoPicture, canvas = NoCanvas
               PROVE  /\ "name" \notin amiss =>
                           profile.name = entered.name /\ nameRef = profile.name
                      /\ "urls" \notin amiss =>
                           profile.urls = entered.urls /\ page.urls = profile.urls
                      /\ "links" \notin amiss => profile.links = links
                      /\ "picture" \notin amiss => page.picture = profile.picture
                      /\ "hero" \notin amiss =>
                           profile.hero = entered.hero /\ page.hero = profile.hero
    BY DEF ProfileIsKept
  <2>1. /\ nameRef = entered.name /\ Stands(saves, "name", entered.name, profile.name, amiss)
        /\ page.urls = entered.urls /\ Stands(saves, "urls", page.urls, profile.urls, amiss)
        /\ Stands(saves, "links", links, profile.links, amiss)
    BY DEF PageKeeps, KindsStand, NameStands, UrlsStand, LinksStand
  <2>2. Len(saves) = 0
    OBVIOUS
  <2>3. \A w, v, pv, bad : Stands(saves, w, v, pv, bad) => w \in bad \/ pv = v
    BY <2>2 DEF Stands
  <2>4. /\ "name" \notin amiss => profile.name = entered.name /\ nameRef = profile.name
        /\ "urls" \notin amiss => profile.urls = entered.urls /\ page.urls = profile.urls
        /\ "links" \notin amiss => profile.links = links
    BY <2>1, <2>3
  <2>5. "picture" \notin amiss => page.picture = profile.picture
    BY BlankTyped DEF PageKeeps, PictureStands
  <2>6. "hero" \notin amiss => profile.hero = entered.hero /\ page.hero = profile.hero
    BY BlankTyped DEF PageKeeps, HeroStands
  <2> QED BY <2>4, <2>5, <2>6
<1> QED BY <1>1, PageHolds, PTL
-----------------------------------------------------------------------------
(* SocialGraph *)

Conns == {NoConn} \cup {Conn(st, u) : st \in {"pending", "accepted", "rejected"}, u \in Pair}
Requests ==
    [op : {"follow", "notify", "send", "remove"}, by : Pair]
    \cup [op : {"write"}, by : Pair, read : {NoConn} \cup {Conn("rejected", u) : u \in Pair}]
    \cup [op : {"block"}, by : Pair, step : 1..4]
Underway == BagToSet(doing)
Blocks == {h \in Underway : h.op = "block"}
Blocking(steps) == \E h \in Blocks : h.step \in steps

UnderwayTyped == IsABag(doing) /\ Underway \subseteq Requests
RelationTyped ==
    /\ conn \in Conns /\ msgs \in BOOLEAN /\ taint \in 0..3
    /\ lists \subseteq Pair /\ note \subseteq Pair /\ blocks \subseteq Pair
    /\ gone \subseteq Pair /\ asked \subseteq Pair
\* What is removed is the account that is being deleted.
GraphShapes ==
    /\ UnderwayTyped /\ RelationTyped
    /\ \A h \in Underway : h.op = "remove" => gone = {h.by}

\* While a block is at work, the lists are cut last and the notifications before them; who
\* is past a step has left nothing for it that a new request would not have tainted.
Agrees ==
    taint = 0 =>
      /\ gone = {} => IF Connected THEN lists = Pair ELSE lists = {} \/ Blocking({2, 3, 4})
      /\ \A u \in note : PendingBy(Other(u)) \/ Blocking({2})
      /\ Blocking({2, 3, 4}) => conn = NoConn
      /\ Blocking({3, 4}) => note = {}
      /\ \A h \in Blocks : h.step = 4 => h.by \notin lists
BlockCuts ==
    blocks # {} /\ taint < 2 =>
      /\ Blocking({1}) \/ conn.status \notin {"pending", "accepted"}
      /\ Blocking({1, 2}) \/ note = {}
DeletionCuts ==
    gone # {} /\ taint < 3 =>
      /\ conn = NoConn /\ ~msgs /\ blocks = {} /\ note = {}
      /\ lists = {} \/ \E h \in Underway : h.op = "remove" /\ lists \subseteq {h.by}

LEMMA OthersAre ==
    \A u \in Pair : Other(u) \in Pair /\ Other(u) # u /\ Other(Other(u)) = u /\ Pair = {u, Other(u)}
<1>1. PICK a, b \in Pair : a # b /\ Pair = {a, b}
  BY GraphAssumption DEF GraphAssumption
<1>2. Other(a) = b /\ Other(b) = a
  BY <1>1 DEF Other
<1> QED BY <1>1, <1>2

LEMMA ConnsAre ==
    /\ NoConn \in Conns /\ NoConn.status = "none"
    /\ \A st, u : Conn(st, u).status = st
    /\ \A st, u, tt, v : Conn(st, u) = Conn(tt, v) => st = tt /\ u = v
    /\ \A st \in {"pending", "accepted", "rejected"} : \A u \in Pair : Conn(st, u) \in Conns
    /\ \A c \in Conns : c # NoConn => [c EXCEPT !.status = "rejected"] \in Conns
                                      /\ [c EXCEPT !.status = "rejected"].status = "rejected"
    /\ \A c \in Conns : c.status \notin {"pending", "accepted"} =>
         c \in {NoConn} \cup {Conn("rejected", u) : u \in Pair}
<1>1. \A st, u, tt, v : Conn(st, u) = Conn(tt, v) => st = tt /\ u = v
  <2> SUFFICES ASSUME NEW st, NEW u, NEW tt, NEW v, Conn(st, u) = Conn(tt, v)
               PROVE  st = tt /\ u = v
    OBVIOUS
  <2>1. Conn(st, u).status = st /\ Conn(tt, v).status = tt
    BY DEF Conn
  <2>2. Conn(st, u).requestedBy = u /\ Conn(tt, v).requestedBy = v
    BY DEF Conn
  <2> QED BY <2>1, <2>2
<1>2. \A st, u : Conn(st, u).status = st
  BY DEF Conn
<1>3. \A c \in Conns : c # NoConn => [c EXCEPT !.status = "rejected"] \in Conns
                                     /\ [c EXCEPT !.status = "rejected"].status = "rejected"
  <2> SUFFICES ASSUME NEW c \in Conns, c # NoConn
               PROVE  /\ [c EXCEPT !.status = "rejected"] \in Conns
                      /\ [c EXCEPT !.status = "rejected"].status = "rejected"
    OBVIOUS
  <2>1. PICK st \in {"pending", "accepted", "rejected"}, u \in Pair : c = Conn(st, u)
    BY DEF Conns
  <2>2. [c EXCEPT !.status = "rejected"] = Conn("rejected", u)
    BY <2>1 DEF Conn
  <2> QED BY <1>2, <2>2 DEF Conns
<1>4. NoConn \in Conns /\ NoConn.status = "none"
  BY DEF Conns, NoConn
<1>5. \A c \in Conns : c.status \notin {"pending", "accepted"} =>
         c \in {NoConn} \cup {Conn("rejected", u) : u \in Pair}
  BY <1>2 DEF Conns
<1> QED BY <1>1, <1>2, <1>3, <1>4, <1>5 DEF Conns

-----------------------------------------------------------------------------
(* The requests under way *)

LEMMA BagGrows ==
    ASSUME NEW B, IsABag(B), NEW h
    PROVE  /\ IsABag(B (+) SetToBag({h}))
           /\ BagToSet(B (+) SetToBag({h})) = BagToSet(B) \cup {h}
BY DEF IsABag, BagToSet, SetToBag, (+)

LEMMA BagShrinks ==
    ASSUME NEW B, IsABag(B), NEW h
    PROVE  /\ IsABag(B (-) SetToBag({h}))
           /\ BagToSet(B (-) SetToBag({h})) \subseteq BagToSet(B)
           /\ BagToSet(B) \ {h} \subseteq BagToSet(B (-) SetToBag({h}))
BY DEF IsABag, BagToSet, SetToBag, (-)

LEMMA NoneUnderway == IsABag(EmptyBag) /\ BagToSet(EmptyBag) = {}
BY DEF IsABag, BagToSet, SetToBag, EmptyBag

LEMMA Begun ==
    ASSUME IsABag(doing), NEW h, Begin(h)
    PROVE  IsABag(doing') /\ Underway' = Underway \cup {h}
BY BagGrows DEF Begin, Underway

LEMMA Ended ==
    ASSUME IsABag(doing), NEW h, Done(h)
    PROVE  IsABag(doing') /\ Underway' \subseteq Underway /\ Underway \ {h} \subseteq Underway'
BY BagShrinks DEF Done, Underway

LEMMA Continued ==
    ASSUME IsABag(doing), NEW h, NEW next, Then(h, next)
    PROVE  /\ IsABag(doing') /\ Underway' \subseteq Underway \cup {next}
           /\ (Underway \ {h}) \cup {next} \subseteq Underway'
<1> DEFINE B == doing (-) SetToBag({h})
<1>1. /\ IsABag(B) /\ BagToSet(B) \subseteq BagToSet(doing)
      /\ BagToSet(doing) \ {h} \subseteq BagToSet(B)
  BY BagShrinks
<1> HIDE DEF B
<1>2. IsABag(B (+) SetToBag({next})) /\ BagToSet(B (+) SetToBag({next})) = BagToSet(B) \cup {next}
  BY <1>1, BagGrows
<1>3. doing' = B (+) SetToBag({next})
  BY DEF Then, B
<1> QED BY <1>1, <1>2, <1>3 DEF Underway

\* The steps that leave the blocks at work as they are.
Elsewhere(h) ==
    \/ FollowLooks(h) \/ FollowWrites(h) \/ FollowNotifies(h) \/ FollowFails(h)
    \/ SendStores(h) \/ DeleteUser(h)
RequestTaps(u) ==
    \/ FollowChecks(u) \/ Unfollow(u) \/ SeesRequest(u) \/ AcceptRequester(u)
    \/ AcceptNote(u) \/ RejectNote(u) \/ DismissNote(u) \/ Unblock(u)
    \/ SendChecks(u) \/ DeleteWipes(u)

LEMMA ElsewhereUnderway ==
    ASSUME UnderwayTyped, RelationTyped, NEW h \in Underway, Elsewhere(h)
    PROVE  /\ UnderwayTyped' /\ Blocks' = Blocks
           /\ \A g \in Underway' : g.op = "remove" => g \in Underway
           /\ \A g \in Underway : g.op = "remove" => g \in Underway' \/ DeleteUser(h)
<1>0. /\ h \in Requests /\ h.by \in Pair /\ Underway \subseteq Requests /\ IsABag(doing)
      /\ conn \in Conns
  BY DEF UnderwayTyped, RelationTyped, Requests
<1>1. CASE Done(h) /\ h.op # "block"
  <2>1. IsABag(doing') /\ Underway' \subseteq Underway /\ Underway \ {h} \subseteq Underway'
    BY <1>0, <1>1, Ended
  <2>2. UnderwayTyped' /\ Blocks' = Blocks
    BY <1>0, <1>1, <2>1 DEF UnderwayTyped, Blocks
  <2>3. h.op = "remove" => DeleteUser(h)
    BY DEF Elsewhere, FollowLooks, FollowWrites, FollowNotifies, FollowFails, SendStores
  <2> QED BY <2>1, <2>2, <2>3
<1>2. ASSUME NEW n \in Requests, Then(h, n), h.op \in {"follow", "write"},
             n.op \in {"write", "notify"}
      PROVE  /\ UnderwayTyped' /\ Blocks' = Blocks
             /\ \A g \in Underway' : g.op = "remove" => g \in Underway
             /\ \A g \in Underway : g.op = "remove" => g \in Underway'
  <2>1. /\ IsABag(doing') /\ Underway' \subseteq Underway \cup {n}
        /\ (Underway \ {h}) \cup {n} \subseteq Underway'
    BY <1>0, <1>2, Continued
  <2>2. UnderwayTyped'
    BY <1>0, <1>2, <2>1 DEF UnderwayTyped
  <2>3. \A g : g.op \notin {"follow", "write", "notify"} => (g \in Underway' <=> g \in Underway)
    BY <1>2, <2>1
  <2>4. Blocks' = Blocks
    BY <2>3 DEF Blocks
  <2> QED BY <2>2, <2>3, <2>4
<1>3. CASE FollowLooks(h)
  <2>1. CASE Done(h)
    BY <1>1, <1>3, <2>1 DEF FollowLooks
  <2>2. CASE ~Done(h)
    <3>1. conn \in {NoConn} \cup {Conn("rejected", u) : u \in Pair}
      BY <1>0, <1>3, <2>2, ConnsAre DEF FollowLooks
    <3> DEFINE n == [op |-> "write", by |-> h.by, read |-> conn]
    <3>2. n \in Requests /\ n.op = "write"
      BY <1>0, <3>1 DEF Requests
    <3>3. Then(h, n) /\ h.op = "follow"
      BY <1>3, <2>2 DEF FollowLooks
    <3> HIDE DEF n
    <3> QED BY <1>2, <3>2, <3>3
  <2> QED BY <2>1, <2>2
<1>4. CASE FollowWrites(h)
  <2> DEFINE n == [op |-> "notify", by |-> h.by]
  <2>1. n \in Requests /\ n.op = "notify" /\ Then(h, n) /\ h.op = "write"
    BY <1>0, <1>4 DEF Requests, FollowWrites
  <2> HIDE DEF n
  <2> QED BY <1>2, <2>1
<1>5. CASE FollowNotifies(h) \/ FollowFails(h) \/ SendStores(h) \/ DeleteUser(h)
  BY <1>1, <1>5 DEF FollowNotifies, FollowFails, SendStores, DeleteUser
<1> QED BY <1>3, <1>4, <1>5 DEF Elsewhere

LEMMA TapsUnderway ==
    ASSUME UnderwayTyped, NEW u \in Pair, RequestTaps(u)
    PROVE  /\ UnderwayTyped' /\ Blocks' = Blocks /\ Underway \subseteq Underway'
           /\ \A g \in Underway' : g.op = "remove" => g \in Underway \/ (DeleteWipes(u) /\ g.by = u)
<1>0. Underway \subseteq Requests /\ IsABag(doing)
  BY DEF UnderwayTyped
<1>1. CASE UNCHANGED doing
  BY <1>0, <1>1 DEF UnderwayTyped, Blocks, Underway
<1>2. ASSUME NEW o \in {"follow", "send", "remove"}, Begin([op |-> o, by |-> u]),
             o = "remove" => DeleteWipes(u)
      PROVE  /\ UnderwayTyped' /\ Blocks' = Blocks /\ Underway \subseteq Underway'
             /\ \A g \in Underway' : g.op = "remove" =>
                  g \in Underway \/ (DeleteWipes(u) /\ g.by = u)
  <2> DEFINE n == [op |-> o, by |-> u]
  <2>1. n \in Requests /\ n.op = o /\ n.by = u
    BY DEF Requests
  <2>2. Begin(n)
    BY <1>2
  <2> HIDE DEF n
  <2>3. IsABag(doing') /\ Underway' = Underway \cup {n}
    BY <1>0, <2>2, Begun
  <2> QED BY <1>0, <1>2, <2>1, <2>3 DEF UnderwayTyped, Blocks
<1>3. CASE FollowChecks(u)
  BY <1>2, <1>3 DEF FollowChecks
<1>4. CASE SendChecks(u)
  BY <1>2, <1>4 DEF SendChecks
<1>5. CASE DeleteWipes(u)
  BY <1>2, <1>5 DEF DeleteWipes
<1>6. CASE \/ Unfollow(u) \/ SeesRequest(u) \/ AcceptRequester(u) \/ AcceptNote(u)
           \/ RejectNote(u) \/ DismissNote(u) \/ Unblock(u)
  BY <1>1, <1>6 DEF Unfollow, SeesRequest, AcceptRequester, AcceptNote, RejectNote, DismissNote,
     Unblock
<1> QED BY <1>3, <1>4, <1>5, <1>6 DEF RequestTaps

\* A block goes on to its next step.
StepTo(h, k) == [h EXCEPT !.step = k]

LEMMA BlockUnderway ==
    ASSUME UnderwayTyped, NEW h \in Underway, NEW k \in 2..4, h.op = "block", Then(h, StepTo(h, k))
    PROVE  /\ UnderwayTyped' /\ Blocks' \subseteq Blocks \cup {StepTo(h, k)}
           /\ (Blocks \ {h}) \cup {StepTo(h, k)} \subseteq Blocks'
           /\ StepTo(h, k).step = k /\ StepTo(h, k).by = h.by
           /\ h \in Blocks /\ h.by \in Pair
           /\ \A g : g.op = "remove" => (g \in Underway' <=> g \in Underway)
<1>0. Underway \subseteq Requests /\ IsABag(doing) /\ h \in Requests
  BY DEF UnderwayTyped
<1>1. h \in [op : {"block"}, by : Pair, step : 1..4]
  BY <1>0 DEF Requests
<1>2. /\ StepTo(h, k) \in Requests /\ StepTo(h, k).op = "block" /\ StepTo(h, k).step = k
      /\ StepTo(h, k).by = h.by
  BY <1>1 DEF Requests, StepTo
<1>4. /\ IsABag(doing') /\ Underway' \subseteq Underway \cup {StepTo(h, k)}
      /\ (Underway \ {h}) \cup {StepTo(h, k)} \subseteq Underway'
  BY <1>0, Continued
<1>5. UnderwayTyped'
  BY <1>0, <1>2, <1>4 DEF UnderwayTyped
<1>6. /\ Blocks' \subseteq Blocks \cup {StepTo(h, k)}
      /\ (Blocks \ {h}) \cup {StepTo(h, k)} \subseteq Blocks'
  BY <1>2, <1>4 DEF Blocks
<1>7. \A g : g.op = "remove" => (g \in Underway' <=> g \in Underway)
  BY <1>2, <1>4
<1>8. h \in Blocks /\ h.by \in Pair
  BY <1>1 DEF Blocks
<1> QED BY <1>2, <1>5, <1>6, <1>7, <1>8

\* It ends, or begins.
LEMMA BlockEnded ==
    ASSUME UnderwayTyped, NEW h \in Underway, h.op = "block", Done(h)
    PROVE  /\ UnderwayTyped' /\ Blocks' \subseteq Blocks /\ h \in Blocks /\ h.by \in Pair
           /\ Blocks \ {h} \subseteq Blocks'
           /\ \A g : g.op = "remove" => (g \in Underway' <=> g \in Underway)
<1>0. Underway \subseteq Requests /\ IsABag(doing) /\ h \in Requests
  BY DEF UnderwayTyped
<1>1. IsABag(doing') /\ Underway' \subseteq Underway /\ Underway \ {h} \subseteq Underway'
  BY <1>0, Ended
<1>2. h.by \in Pair
  BY <1>0 DEF Requests
<1> QED BY <1>0, <1>1, <1>2 DEF UnderwayTyped, Blocks

LEMMA BlockBegun ==
    ASSUME UnderwayTyped, NEW u \in Pair, Begin([op |-> "block", by |-> u, step |-> 1])
    PROVE  /\ UnderwayTyped' /\ Blocking({1})' /\ Blocks \subseteq Blocks'
           /\ \A b \in Blocks' : b \in Blocks \/ b.step = 1
           /\ \A g : g.op = "remove" => (g \in Underway' <=> g \in Underway)
<1> DEFINE n == [op |-> "block", by |-> u, step |-> 1]
<1>1. n \in Requests /\ n.op = "block" /\ n.step = 1
  BY DEF Requests
<1>2. Begin(n)
  OBVIOUS
<1> HIDE DEF n
<1>3. /\ Underway \subseteq Requests /\ IsABag(doing)
      /\ Underway' = Underway \cup {n} /\ IsABag(doing')
  BY <1>2, Begun DEF UnderwayTyped
<1>4. UnderwayTyped' /\ n \in Blocks' /\ Blocks' = Blocks \cup {n}
  BY <1>1, <1>3 DEF UnderwayTyped, Blocks
<1>5. \A g : g.op = "remove" => (g \in Underway' <=> g \in Underway)
  BY <1>1, <1>3
<1> QED BY <1>1, <1>4, <1>5 DEF Blocking

BlockWorks(h) ==
    \/ BlockConnection(h) \/ BlockNotes(h) \/ BlockOwnLists(h) \/ BlockOtherLists(h)
    \/ BlockFails(h)

LEMMA GraphSteps ==
    GraphNext <=> \/ \E h \in Underway : Elsewhere(h) \/ BlockWorks(h)
                  \/ \E u \in Pair : RequestTaps(u) \/ Block(u)
BY DEF GraphNext, Underway, Elsewhere, BlockWorks, RequestTaps

\* A block that has done a step.
LEMMA BlockStepped ==
    ASSUME UnderwayTyped, NEW h \in Underway, NEW k \in 2..4, h.op = "block", Then(h, StepTo(h, k))
    PROVE  /\ Blocking({k})'
           /\ \A b \in Blocks' : b \in Blocks \/ (b.step = k /\ b.by = h.by)
           /\ h \in Blocks /\ h.by \in Pair
           /\ \A steps : Blocking(steps)' => Blocking(steps) \/ k \in steps
           /\ \A steps : k \in steps => Blocking(steps)'
           /\ \A steps : Blocking(steps) => Blocking(steps)' \/ h.step \in steps
BY BlockUnderway DEF Blocking

LEMMA BlockSteps ==
    ASSUME NEW h
    PROVE  /\ BlockConnection(h) => h.op = "block" /\ h.step = 1 /\ Then(h, StepTo(h, 2))
           /\ BlockNotes(h) => h.op = "block" /\ h.step = 2 /\ Then(h, StepTo(h, 3))
           /\ BlockOwnLists(h) => h.op = "block" /\ h.step = 3 /\ Then(h, StepTo(h, 4))
BY DEF BlockConnection, BlockNotes, BlockOwnLists, StepTo

LEMMA BlockWorksUnderway ==
    ASSUME UnderwayTyped, NEW h \in Underway, BlockWorks(h)
    PROVE  UnderwayTyped' /\ \A g : g.op = "remove" => (g \in Underway' <=> g \in Underway)
<1>1. CASE BlockOtherLists(h) \/ BlockFails(h)
  BY <1>1, BlockEnded DEF BlockOtherLists, BlockFails
<1>2. CASE BlockConnection(h) \/ BlockNotes(h) \/ BlockOwnLists(h)
  <2>1. PICK k \in 2..4 : h.op = "block" /\ Then(h, StepTo(h, k))
    BY <1>2, BlockSteps
  <2> QED BY <2>1, BlockUnderway
<1> QED BY <1>1, <1>2 DEF BlockWorks

LEMMA RelationTypedStep ==
    ASSUME UnderwayTyped, RelationTyped, GraphNext
    PROVE  RelationTyped'
<1>1. CASE \E h \in Underway : Elsewhere(h)
  <2>1. PICK h \in Underway : Elsewhere(h)
    BY <1>1
  <2>2. h.by \in Pair /\ Other(h.by) \in Pair
    BY OthersAre DEF UnderwayTyped, Requests
  <2>3. CASE FollowWrites(h)
    <3>1. conn' \in Conns
      BY <2>2, <2>3, ConnsAre DEF FollowWrites
    <3> QED BY <2>3, <3>1 DEF RelationTyped, FollowWrites, Worsens
  <2>4. CASE SendStores(h)
    <3>1. msgs' \in BOOLEAN
      BY <2>4 DEF SendStores
    <3>2. taint' \in 0..3
      BY <2>4 DEF SendStores, RelationTyped, Worsens
    <3> QED BY <2>4, <3>1, <3>2 DEF SendStores, RelationTyped
  <2>5. CASE FollowNotifies(h)
    <3>1. taint' \in 0..3
      BY <2>5 DEF FollowNotifies, RelationTyped, Worsens
    <3> QED BY <2>2, <2>5, <3>1 DEF FollowNotifies, RelationTyped
  <2>6. CASE FollowLooks(h) \/ FollowFails(h) \/ DeleteUser(h)
    BY <2>6 DEF RelationTyped, FollowLooks, FollowFails, DeleteUser
  <2> QED BY <2>1, <2>3, <2>4, <2>5, <2>6 DEF Elsewhere
<1>2. CASE \E h \in Underway : BlockWorks(h)
  BY <1>2, ConnsAre DEF BlockWorks, RelationTyped, BlockConnection, BlockNotes, BlockOwnLists,
     BlockOtherLists, BlockFails, Worsens
<1>3. ASSUME NEW u \in Pair, RequestTaps(u) \/ Block(u) PROVE RelationTyped'
  <2>0. Other(u) \in Pair
    BY OthersAre
  <2>1. CASE AcceptRequester(u) \/ AcceptNote(u)
    <3>1. conn' \in Conns /\ lists' = Pair /\ note' = note \ {u} /\ taint' \in 0..3
      BY <2>0, <2>1, ConnsAre DEF AcceptRequester, AcceptNote, BecomeConnected, Worsens,
         RelationTyped
    <3> QED BY <2>1, <3>1 DEF RelationTyped, AcceptRequester, AcceptNote
  <2>2. CASE RejectNote(u)
    <3>1. conn' \in Conns
      BY <2>2, ConnsAre DEF RejectNote, RelationTyped
    <3> QED BY <2>2, <3>1 DEF RelationTyped, RejectNote
  <2>3. CASE Unfollow(u)
    BY <2>3, ConnsAre DEF RelationTyped, Unfollow, Cleared
  <2>4. CASE DeleteWipes(u)
    <3>1. conn' \in Conns /\ msgs' \in BOOLEAN
      BY <2>4, ConnsAre DEF DeleteWipes
    <3> QED BY <2>4, <3>1 DEF DeleteWipes, RelationTyped
  <2>5. CASE \/ FollowChecks(u) \/ SeesRequest(u) \/ DismissNote(u) \/ Block(u) \/ Unblock(u)
             \/ SendChecks(u)
    BY <2>5 DEF RelationTyped, FollowChecks, SeesRequest, DismissNote, Block, Unblock, SendChecks
  <2> QED BY <1>3, <2>1, <2>2, <2>3, <2>4, <2>5 DEF RequestTaps
<1> QED BY <1>1, <1>2, <1>3, GraphSteps

LEMMA GraphShapesStep == GraphShapes /\ [GraphNext]_graphVars => GraphShapes'
<1> SUFFICES ASSUME GraphShapes, [GraphNext]_graphVars PROVE GraphShapes'
  OBVIOUS
<1>1. CASE UNCHANGED graphVars
  BY <1>1 DEF graphVars, GraphShapes, UnderwayTyped, RelationTyped, Underway
<1>2. CASE GraphNext
  <2>1. UnderwayTyped /\ RelationTyped /\ RelationTyped'
    BY <1>2, RelationTypedStep DEF GraphShapes
  <2>2. ASSUME NEW h \in Underway, Elsewhere(h) PROVE GraphShapes'
    <3>1. gone' = gone
      BY <2>2 DEF Elsewhere, FollowLooks, FollowWrites, FollowNotifies, FollowFails, SendStores,
         DeleteUser
    <3>2. UnderwayTyped' /\ \A g \in Underway' : g.op = "remove" => g \in Underway
      BY <2>1, <2>2, ElsewhereUnderway
    <3> QED BY <2>1, <3>1, <3>2 DEF GraphShapes
  <2>3. ASSUME NEW h \in Underway, BlockWorks(h) PROVE GraphShapes'
    <3>1. gone' = gone
      BY <2>3 DEF BlockWorks, BlockConnection, BlockNotes, BlockOwnLists, BlockOtherLists,
         BlockFails
    <3>2. UnderwayTyped' /\ \A g \in Underway' : g.op = "remove" => g \in Underway
      BY <2>1, <2>3, BlockWorksUnderway
    <3> QED BY <2>1, <3>1, <3>2 DEF GraphShapes
  <2>4. ASSUME NEW u \in Pair, RequestTaps(u) PROVE GraphShapes'
    <3>1. gone' = gone \/ (DeleteWipes(u) /\ gone' = {u})
      BY <2>4 DEF RequestTaps, FollowChecks, Unfollow, SeesRequest, AcceptRequester, AcceptNote,
         RejectNote, DismissNote, Unblock, SendChecks, DeleteWipes
    <3>2. /\ UnderwayTyped'
          /\ \A g \in Underway' : g.op = "remove" =>
               g \in Underway \/ (DeleteWipes(u) /\ g.by = u)
      BY <2>1, <2>4, TapsUnderway
    <3>3. DeleteWipes(u) => gone' = {u} /\ gone = {}
      BY DEF DeleteWipes
    <3>4. \A g \in Underway' : g.op = "remove" => gone' = {g.by}
      BY <3>1, <3>2, <3>3 DEF GraphShapes
    <3> QED BY <2>1, <3>2, <3>4 DEF GraphShapes
  <2>5. ASSUME NEW u \in Pair, Block(u) PROVE GraphShapes'
    <3>1. gone' = gone
      BY <2>5 DEF Block
    <3>2. UnderwayTyped' /\ \A g : g.op = "remove" => (g \in Underway' <=> g \in Underway)
      BY <2>1, <2>5, BlockBegun DEF Block
    <3> QED BY <2>1, <3>1, <3>2 DEF GraphShapes
  <2> QED BY <1>2, <2>2, <2>3, <2>4, <2>5, GraphSteps
<1> QED BY <1>1, <1>2

-----------------------------------------------------------------------------
(* What the two users have of each other *)

LEMMA NotEnding == ~Ending => Blocks = {} /\ blocks = {} /\ gone = {}
BY DEF Ending, Blocks, Underway

\* A request that is there is of one of them.
LEMMA OneAsks ==
    ASSUME NEW u \in Pair, PendingBy(Other(u))
    PROVE  ~PendingBy(u) /\ ~Connected /\ conn # NoConn /\ conn.status = "pending"
BY OthersAre, ConnsAre DEF PendingBy, Connected

LEMMA AgreesStep == GraphShapes /\ Agrees /\ [GraphNext]_graphVars => Agrees'
<1> SUFFICES ASSUME GraphShapes, Agrees, [GraphNext]_graphVars, taint' = 0 PROVE Agrees'
  BY DEF Agrees
<1>0. /\ UnderwayTyped /\ RelationTyped /\ taint \in 0..3
      /\ lists \subseteq Pair /\ note \subseteq Pair
  BY DEF GraphShapes, RelationTyped
<1>1. ASSUME taint = 0, conn' = conn, lists' = lists, note' \subseteq note, Blocks' = Blocks,
             gone' = gone
      PROVE  Agrees'
  BY <1>1 DEF Agrees, Blocking, Connected, PendingBy
<1>2. CASE UNCHANGED graphVars
  BY <1>1, <1>2 DEF graphVars, Blocks, Underway
<1>3. ASSUME NEW h \in Underway, Elsewhere(h) PROVE Agrees'
  <2>0. Blocks' = Blocks /\ h.by \in Pair
    BY <1>0, <1>3, ElsewhereUnderway DEF UnderwayTyped, Requests
  <2>1. CASE FollowLooks(h) \/ FollowFails(h)
    BY <1>1, <2>0, <2>1 DEF FollowLooks, FollowFails
  <2>2. CASE FollowWrites(h)
    <3>1. taint = 0 /\ ~Ending /\ conn = h.read /\ conn' = Conn("pending", h.by)
          /\ lists' = lists /\ note' = note /\ gone' = gone
      BY <1>0, <2>2 DEF FollowWrites, Worsens
    <3>2. conn \in {NoConn} \cup {Conn("rejected", u) : u \in Pair}
      BY <1>0, <2>2, <3>1 DEF FollowWrites, UnderwayTyped, Requests
    <3>3. ~Connected /\ \A u : ~PendingBy(u)
      BY <3>2, ConnsAre DEF Connected, PendingBy
    <3>4. Blocks = {} /\ gone = {}
      BY <3>1, NotEnding
    <3>5. lists = {} /\ note = {}
      BY <3>1, <3>3, <3>4 DEF Agrees, Blocking
    <3>6. ~Connected'
      BY <3>1, ConnsAre DEF Connected
    <3> QED BY <2>0, <3>1, <3>4, <3>5, <3>6 DEF Agrees, Blocking
  <2>3. CASE FollowNotifies(h)
    <3>1. taint = 0 /\ ~Ending /\ PendingBy(h.by) /\ conn' = conn /\ lists' = lists
          /\ note' = note \cup {Other(h.by)} /\ gone' = gone
      BY <1>0, <2>3 DEF FollowNotifies, Worsens
    <3>2. Other(Other(h.by)) = h.by
      BY <2>0, OthersAre
    <3>3. Blocks = {}
      BY <3>1, NotEnding
    <3> QED BY <2>0, <3>1, <3>2, <3>3 DEF Agrees, Blocking, PendingBy, Connected
  <2>4. CASE SendStores(h)
    <3>1. taint = 0
      BY <1>0, <2>4 DEF SendStores, Worsens
    <3> QED BY <1>1, <2>0, <2>4, <3>1 DEF SendStores
  <2>5. CASE DeleteUser(h)
    <3>1. gone # {} /\ gone' = gone
      BY <2>0, <2>5 DEF DeleteUser, GraphShapes
    <3>2. taint = 0 /\ conn' = conn /\ lists' \subseteq lists /\ note' = note
      BY <2>5 DEF DeleteUser
    <3> QED BY <2>0, <3>1, <3>2 DEF Agrees, Blocking, PendingBy
  <2> QED BY <1>3, <2>1, <2>2, <2>3, <2>4, <2>5 DEF Elsewhere
<1>4. ASSUME NEW h \in Underway, BlockWorks(h) PROVE Agrees'
  <2>0. taint = 0 /\ ~BlockFails(h) /\ gone' = gone
    BY <1>0, <1>4 DEF BlockWorks, BlockConnection, BlockNotes, BlockOwnLists, BlockOtherLists,
       BlockFails, Worsens
  <2>1. CASE BlockConnection(h)
    <3>1. conn' = NoConn /\ lists' = lists /\ note' = note /\ ~Connected'
      BY <2>1, ConnsAre DEF BlockConnection, Connected
    <3>2. /\ Blocking({2})' /\ Blocking({2, 3, 4})'
          /\ Blocking({3, 4})' => Blocking({3, 4})
          /\ \A b \in Blocks' : b.step = 4 => b \in Blocks
      BY <1>0, <2>1, BlockSteps, BlockStepped
    <3>3. Blocking({3, 4}) => note = {}
      BY <2>0 DEF Agrees
    <3>4. \A b \in Blocks' : b.step = 4 => b.by \notin lists'
      BY <2>0, <3>1, <3>2 DEF Agrees
    <3> QED BY <3>1, <3>2, <3>3, <3>4 DEF Agrees
  <2>2. CASE BlockNotes(h)
    <3>1. note' = {} /\ conn' = conn /\ lists' = lists
      BY <2>2 DEF BlockNotes
    <3>2. /\ Blocking({2, 3, 4})' /\ h \in Blocks /\ h.step = 2
          /\ \A b \in Blocks' : b.step = 4 => b \in Blocks
      BY <1>0, <2>2, BlockSteps, BlockStepped
    <3>3. Blocking({2, 3, 4})
      BY <3>2 DEF Blocking
    <3>4. conn = NoConn
      BY <2>0, <3>3 DEF Agrees
    <3>5. ~Connected'
      BY <3>1, <3>4, ConnsAre DEF Connected
    <3>6. \A b \in Blocks' : b.step = 4 => b.by \notin lists'
      BY <2>0, <3>1, <3>2 DEF Agrees
    <3> QED BY <3>1, <3>2, <3>4, <3>5, <3>6 DEF Agrees
  <2>3. CASE BlockOwnLists(h)
    <3>1. note' = note /\ conn' = conn /\ lists' = lists \ {h.by}
      BY <2>3 DEF BlockOwnLists
    <3>2. /\ Blocking({2, 3, 4})' /\ h \in Blocks /\ h.step = 3
          /\ \A b \in Blocks' : b \in Blocks \/ b.by = h.by
      BY <1>0, <2>3, BlockSteps, BlockStepped
    <3>3. Blocking({2, 3, 4}) /\ Blocking({3, 4})
      BY <3>2 DEF Blocking
    <3>4. conn = NoConn /\ note = {}
      BY <2>0, <3>3 DEF Agrees
    <3>5. ~Connected'
      BY <3>1, <3>4, ConnsAre DEF Connected
    <3>6. \A b \in Blocks' : b.step = 4 => b.by \notin lists'
      BY <2>0, <3>1, <3>2 DEF Agrees
    <3> QED BY <3>1, <3>2, <3>4, <3>5, <3>6 DEF Agrees
  <2>4. CASE BlockOtherLists(h)
    <3>1. note' = note /\ conn' = conn /\ lists' = lists \ {Other(h.by)} /\ h.step = 4
      BY <2>4 DEF BlockOtherLists
    <3>2. h \in Blocks /\ Blocks' \subseteq Blocks /\ h.by \in Pair
      BY <1>0, <2>4, BlockEnded DEF BlockOtherLists
    <3>3. Blocking({2, 3, 4}) /\ Blocking({3, 4})
      BY <3>1, <3>2 DEF Blocking
    <3>4. conn = NoConn /\ note = {} /\ h.by \notin lists
      BY <2>0, <3>1, <3>2, <3>3 DEF Agrees
    <3>5. lists' = {}
      BY <1>0, <3>1, <3>2, <3>4, OthersAre
    <3>6. ~Connected'
      BY <3>1, <3>4, ConnsAre DEF Connected
    <3> QED BY <3>1, <3>4, <3>5, <3>6 DEF Agrees
  <2> QED BY <1>4, <2>0, <2>1, <2>2, <2>3, <2>4 DEF BlockWorks
<1>5. ASSUME NEW u \in Pair, RequestTaps(u) PROVE Agrees'
  <2>0. Blocks' = Blocks
    BY <1>0, <1>5, TapsUnderway
  <2>1. CASE FollowChecks(u) \/ SeesRequest(u) \/ DismissNote(u) \/ Unblock(u) \/ SendChecks(u)
    <3>1. taint = 0 /\ conn' = conn /\ lists' = lists /\ note' \subseteq note /\ gone' = gone
      BY <2>1 DEF FollowChecks, SeesRequest, DismissNote, Unblock, SendChecks
    <3> QED BY <1>1, <2>0, <3>1
  <2>2. CASE Unfollow(u)
    <3>1. conn' = NoConn /\ lists' = {} /\ note' = {} /\ ~Connected'
      BY <2>2, ConnsAre DEF Unfollow, Connected
    <3> QED BY <3>1 DEF Agrees
  <2>3. CASE AcceptRequester(u) \/ AcceptNote(u)
    <3>1. /\ taint = 0 /\ PendingBy(Other(u)) /\ conn' = Conn("accepted", Other(u))
          /\ lists' = Pair /\ note' = note \ {u}
      BY <1>0, <2>3 DEF AcceptRequester, AcceptNote, BecomeConnected, Worsens
    <3>2. conn # NoConn /\ ~PendingBy(u)
      BY <3>1, OneAsks
    <3>3. ~Blocking({2, 3, 4})
      BY <3>1, <3>2 DEF Agrees
    <3>4. ~Blocking({2})
      BY <3>3 DEF Blocking
    <3>5. note' = {}
      <4>1. \A v \in note : PendingBy(Other(v))
        BY <3>1, <3>4 DEF Agrees
      <4>2. Pair = {u, Other(u)} /\ Other(Other(u)) = u
        BY OthersAre
      <4>3. Other(u) \notin note
        BY <3>2, <4>1, <4>2
      <4> QED BY <1>0, <3>1, <4>2, <4>3
    <3>6. Connected'
      BY <3>1, ConnsAre DEF Connected
    <3>7. \A b \in Blocks' : b.step # 4
      BY <2>0, <3>3 DEF Blocking
    <3>8. ~Blocking({2, 3, 4})'
      BY <2>0, <3>3 DEF Blocking
    <3> QED BY <3>1, <3>5, <3>6, <3>7, <3>8 DEF Agrees
  <2>4. CASE RejectNote(u)
    <3>1. /\ taint = 0 /\ u \in note /\ note' = note \ {u} /\ lists' = lists /\ gone' = gone
          /\ conn' = IF conn = NoConn THEN conn ELSE [conn EXCEPT !.status = "rejected"]
      BY <2>4 DEF RejectNote
    <3>2. CASE conn = NoConn
      BY <1>1, <2>0, <3>1, <3>2
    <3>3. CASE conn # NoConn
      <4>1. ~Blocking({2, 3, 4})
        BY <3>1, <3>3 DEF Agrees
      <4>2. ~Blocking({2})
        BY <4>1 DEF Blocking
      <4>3. PendingBy(Other(u)) /\ \A v \in note : PendingBy(Other(v))
        BY <3>1, <4>2 DEF Agrees
      <4>4. ~PendingBy(u) /\ ~Connected
        BY <4>3, OneAsks
      <4>5. note' = {}
        <5>1. Pair = {u, Other(u)} /\ Other(Other(u)) = u
          BY OthersAre
        <5>2. Other(u) \notin note
          BY <4>3, <4>4, <5>1
        <5> QED BY <1>0, <3>1, <5>1, <5>2
      <4>6. ~Connected'
        BY <3>1, <3>3, ConnsAre DEF Connected, GraphShapes, RelationTyped
      <4>7. gone = {} => lists = {}
        BY <3>1, <4>1, <4>4 DEF Agrees
      <4>8. ~Blocking({2, 3, 4})' /\ \A b \in Blocks' : b.step # 4
        BY <2>0, <4>1 DEF Blocking
      <4> QED BY <3>1, <4>5, <4>6, <4>7, <4>8 DEF Agrees
    <3> QED BY <3>2, <3>3
  <2>5. CASE DeleteWipes(u)
    <3>1. taint = 0 /\ gone' # {} /\ conn' = NoConn /\ note' = {} /\ lists' \subseteq lists
      BY <2>5 DEF DeleteWipes
    <3>2. \A b \in Blocks' : b.step = 4 => b.by \notin lists'
      BY <2>0, <3>1 DEF Agrees
    <3> QED BY <3>1, <3>2 DEF Agrees
  <2> QED BY <1>5, <2>1, <2>2, <2>3, <2>4, <2>5 DEF RequestTaps
<1>6. ASSUME NEW u \in Pair, Block(u) PROVE Agrees'
  <2>1. \A b \in Blocks' : b \in Blocks \/ b.step = 1
    BY <1>0, <1>6, BlockBegun DEF Block
  <2>2. Blocks \subseteq Blocks'
    BY <1>0, <1>6, BlockBegun DEF Block
  <2>3. /\ taint = 0 /\ conn' = conn /\ lists' = lists /\ note' = note /\ gone' = gone
    BY <1>6 DEF Block
  <2>4. /\ Blocking({2, 3, 4})' <=> Blocking({2, 3, 4})
        /\ Blocking({3, 4})' <=> Blocking({3, 4})
        /\ Blocking({2})' <=> Blocking({2})
    BY <2>1, <2>2 DEF Blocking
  <2>5. \A b \in Blocks' : b.step = 4 => b.by \notin lists'
    BY <2>1, <2>3 DEF Agrees
  <2> QED BY <2>3, <2>4, <2>5 DEF Agrees, Connected, PendingBy
<1> QED BY <1>2, <1>3, <1>4, <1>5, <1>6, GraphSteps

\* Nothing but a block's own steps and an unfollow counts while one stands.
LEMMA BlockCutsStep == GraphShapes /\ BlockCuts /\ [GraphNext]_graphVars => BlockCuts'
<1> SUFFICES ASSUME GraphShapes, BlockCuts, [GraphNext]_graphVars, blocks' # {}, taint' < 2
             PROVE  BlockCuts'
  BY DEF BlockCuts
<1>0. UnderwayTyped /\ RelationTyped /\ taint \in 0..3
  BY DEF GraphShapes, RelationTyped
<1>1. ASSUME taint < 2, blocks # {}, conn' = conn, note' \subseteq note, Blocks' = Blocks
      PROVE  BlockCuts'
  BY <1>1 DEF BlockCuts, Blocking
<1>2. CASE UNCHANGED graphVars
  BY <1>1, <1>2 DEF graphVars, Blocks, Underway
<1>3. ASSUME NEW h \in Underway, Elsewhere(h) PROVE BlockCuts'
  <2>0. Blocks' = Blocks /\ blocks' = blocks
    BY <1>0, <1>3, ElsewhereUnderway DEF Elsewhere, FollowLooks, FollowFails, FollowWrites,
       FollowNotifies, SendStores, DeleteUser
  <2>1. CASE FollowWrites(h) \/ FollowNotifies(h) \/ SendStores(h)
    <3>1. ~Ending
      BY <1>0, <2>1 DEF FollowWrites, FollowNotifies, SendStores, Worsens
    <3> QED BY <2>0, <3>1, NotEnding
  <2>2. CASE FollowLooks(h) \/ FollowFails(h) \/ DeleteUser(h)
    BY <1>1, <2>0, <2>2 DEF FollowLooks, FollowFails, DeleteUser
  <2> QED BY <1>3, <2>1, <2>2 DEF Elsewhere
<1>4. ASSUME NEW h \in Underway, BlockWorks(h) PROVE BlockCuts'
  <2>0. taint < 2 /\ ~BlockFails(h) /\ blocks # {}
    BY <1>0, <1>4 DEF BlockWorks, BlockConnection, BlockNotes, BlockOwnLists, BlockOtherLists,
       BlockFails, Worsens
  <2>1. CASE BlockConnection(h)
    <3>1. Blocking({1, 2})'
      BY <1>0, <2>1, BlockSteps, BlockStepped
    <3>2. conn'.status \notin {"pending", "accepted"}
      BY <2>1, ConnsAre DEF BlockConnection
    <3> QED BY <3>1, <3>2 DEF BlockCuts
  <2>2. CASE BlockNotes(h)
    <3>1. Blocking({1}) => Blocking({1})'
      BY <1>0, <2>2, BlockSteps, BlockStepped
    <3>2. note' = {} /\ conn' = conn
      BY <2>2 DEF BlockNotes
    <3> QED BY <2>0, <3>1, <3>2 DEF BlockCuts
  <2>3. CASE BlockOwnLists(h)
    <3>1. (Blocking({1}) => Blocking({1})') /\ (Blocking({1, 2}) => Blocking({1, 2})')
      BY <1>0, <2>3, BlockSteps, BlockStepped
    <3>2. note' = note /\ conn' = conn
      BY <2>3 DEF BlockOwnLists
    <3> QED BY <2>0, <3>1, <3>2 DEF BlockCuts
  <2>4. CASE BlockOtherLists(h)
    <3>1. Blocks \ {h} \subseteq Blocks' /\ h.step = 4 /\ note' = note /\ conn' = conn
      BY <1>0, <2>4, BlockEnded DEF BlockOtherLists
    <3>2. (Blocking({1}) => Blocking({1})') /\ (Blocking({1, 2}) => Blocking({1, 2})')
      BY <3>1 DEF Blocking
    <3> QED BY <2>0, <3>1, <3>2 DEF BlockCuts
  <2> QED BY <1>4, <2>0, <2>1, <2>2, <2>3, <2>4 DEF BlockWorks
<1>5. ASSUME NEW u \in Pair, RequestTaps(u) PROVE BlockCuts'
  <2>0. Blocks' = Blocks
    BY <1>0, <1>5, TapsUnderway
  <2>1. CASE FollowChecks(u) \/ SeesRequest(u) \/ DismissNote(u) \/ Unblock(u) \/ SendChecks(u)
    <3>1. taint < 2 /\ blocks # {} /\ conn' = conn /\ note' \subseteq note
      BY <2>1 DEF FollowChecks, SeesRequest, DismissNote, Unblock, SendChecks
    <3> QED BY <1>1, <2>0, <3>1
  <2>2. CASE Unfollow(u)
    BY <2>2, ConnsAre DEF Unfollow, BlockCuts
  <2>3. CASE AcceptRequester(u) \/ AcceptNote(u)
    <3>1. /\ taint < 2 /\ PendingBy(Other(u)) /\ note' \subseteq note /\ blocks # {}
      BY <1>0, <2>3 DEF AcceptRequester, AcceptNote, BecomeConnected, Worsens
    <3>2. conn.status = "pending"
      BY <3>1, OneAsks
    <3>3. Blocking({1})' /\ (Blocking({1, 2})' \/ note' = {})
      BY <2>0, <3>1, <3>2 DEF BlockCuts, Blocking
    <3> QED BY <3>3 DEF BlockCuts
  <2>4. CASE RejectNote(u)
    <3>1. /\ taint < 2 /\ note' \subseteq note /\ blocks # {}
          /\ conn' = IF conn = NoConn THEN conn ELSE [conn EXCEPT !.status = "rejected"]
      BY <2>4 DEF RejectNote
    <3>2. conn'.status \notin {"pending", "accepted"}
      BY <1>0, <3>1, ConnsAre DEF RelationTyped
    <3> QED BY <2>0, <3>1, <3>2 DEF BlockCuts, Blocking
  <2>5. CASE DeleteWipes(u)
    BY <2>5 DEF DeleteWipes
  <2> QED BY <1>5, <2>1, <2>2, <2>3, <2>4, <2>5 DEF RequestTaps
<1>6. ASSUME NEW u \in Pair, Block(u) PROVE BlockCuts'
  <2>1. Blocking({1})'
    BY <1>0, <1>6, BlockBegun DEF Block
  <2>2. Blocking({1, 2})'
    BY <2>1 DEF Blocking
  <2> QED BY <2>1, <2>2 DEF BlockCuts
<1> QED BY <1>2, <1>3, <1>4, <1>5, <1>6, GraphSteps

LEMMA DeletionCutsStep == GraphShapes /\ DeletionCuts /\ [GraphNext]_graphVars => DeletionCuts'
<1> SUFFICES ASSUME GraphShapes, DeletionCuts, [GraphNext]_graphVars, gone' # {}, taint' < 3
             PROVE  DeletionCuts'
  BY DEF DeletionCuts
<1>0. UnderwayTyped /\ RelationTyped /\ taint \in 0..3
  BY DEF GraphShapes, RelationTyped
<1>1. ASSUME taint < 3, gone # {}, conn' = conn, msgs' = msgs, blocks' \subseteq blocks,
             note' \subseteq note, lists' \subseteq lists,
             \A g \in Underway : g.op = "remove" => g \in Underway'
      PROVE  DeletionCuts'
  BY <1>1 DEF DeletionCuts
<1>2. CASE UNCHANGED graphVars
  BY <1>1, <1>2 DEF graphVars, Underway
<1>3. ASSUME NEW h \in Underway, Elsewhere(h) PROVE DeletionCuts'
  <2>0. /\ gone # {} /\ gone' = gone
        /\ \A g \in Underway : g.op = "remove" => g \in Underway' \/ DeleteUser(h)
    BY <1>0, <1>3, ElsewhereUnderway DEF Elsewhere, FollowLooks, FollowFails, FollowWrites,
       FollowNotifies, SendStores, DeleteUser
  <2>1. ~FollowWrites(h) /\ ~FollowNotifies(h) /\ ~SendStores(h)
    BY <1>0, <2>0, NotEnding DEF FollowWrites, FollowNotifies, SendStores, Worsens
  <2>2. CASE FollowLooks(h) \/ FollowFails(h)
    <3>1. ~DeleteUser(h)
      BY <2>2 DEF FollowLooks, FollowFails, DeleteUser
    <3> QED BY <1>1, <2>0, <2>2, <3>1 DEF FollowLooks, FollowFails
  <2>3. CASE DeleteUser(h)
    <3>1. /\ h.op = "remove" /\ lists' = lists \ {h.by} /\ taint < 3
          /\ UNCHANGED <<conn, note, blocks, msgs>>
      BY <2>3 DEF DeleteUser
    <3>2. \A g \in Underway : g.op = "remove" => g.by = h.by
      BY <3>1 DEF GraphShapes
    <3>3. lists' = {}
      BY <2>0, <3>1, <3>2 DEF DeletionCuts
    <3> QED BY <2>0, <3>1, <3>3 DEF DeletionCuts
  <2> QED BY <1>3, <2>1, <2>2, <2>3 DEF Elsewhere
<1>4. ASSUME NEW h \in Underway, BlockWorks(h) PROVE DeletionCuts'
  <2>1. \A g \in Underway : g.op = "remove" => g \in Underway'
    BY <1>0, <1>4, BlockWorksUnderway
  <2>2. /\ taint < 3 /\ gone # {} /\ UNCHANGED <<msgs, blocks>>
        /\ note' \subseteq note \/ note' = {}
        /\ lists' \subseteq lists /\ (conn' = conn \/ conn' = NoConn)
    BY <1>0, <1>4 DEF BlockWorks, BlockConnection, BlockNotes, BlockOwnLists, BlockOtherLists,
       BlockFails, Worsens
  <2>3. conn' = conn
    BY <2>2 DEF DeletionCuts
  <2> QED BY <1>1, <2>1, <2>2, <2>3
<1>5. ASSUME NEW u \in Pair, RequestTaps(u) PROVE DeletionCuts'
  <2>0. /\ Underway \subseteq Underway'
    BY <1>0, <1>5, TapsUnderway
  <2>1. CASE FollowChecks(u) \/ SeesRequest(u) \/ DismissNote(u) \/ Unblock(u) \/ SendChecks(u)
    <3>1. /\ taint < 3 /\ gone # {} /\ conn' = conn /\ msgs' = msgs /\ blocks' \subseteq blocks
          /\ note' \subseteq note /\ lists' \subseteq lists
      BY <2>1 DEF FollowChecks, SeesRequest, DismissNote, Unblock, SendChecks
    <3> QED BY <1>1, <2>0, <3>1
  <2>2. CASE Unfollow(u)
    <3>1. /\ taint < 3 /\ gone # {} /\ conn' = NoConn /\ lists' = {} /\ note' = {}
          /\ msgs' = msgs /\ blocks' = blocks
      BY <1>0, <2>2 DEF Unfollow, Cleared
    <3> QED BY <3>1 DEF DeletionCuts
  <2>3. ~AcceptRequester(u) /\ ~AcceptNote(u) /\ ~RejectNote(u)
    BY DEF AcceptRequester, AcceptNote, RejectNote
  <2>4. CASE DeleteWipes(u)
    <3> DEFINE n == [op |-> "remove", by |-> u]
    <3>1. n \in Underway' /\ n.op = "remove" /\ n.by = u
      BY <1>0, <2>4, Begun DEF DeleteWipes, UnderwayTyped
    <3>2. /\ conn' = NoConn /\ msgs' = FALSE /\ blocks' = {} /\ note' = {}
          /\ lists' = lists \ {Other(u)}
      BY <2>4 DEF DeleteWipes
    <3>3. lists' \subseteq {u}
      BY <1>0, <3>2, OthersAre DEF RelationTyped
    <3> HIDE DEF n
    <3> QED BY <3>1, <3>2, <3>3 DEF DeletionCuts
  <2> QED BY <1>5, <2>1, <2>2, <2>3, <2>4 DEF RequestTaps
<1>6. ASSUME NEW u \in Pair, Block(u) PROVE DeletionCuts'
  BY <1>6 DEF Block
<1> QED BY <1>2, <1>3, <1>4, <1>5, <1>6, GraphSteps

GraphInv == GraphShapes /\ Agrees /\ BlockCuts /\ DeletionCuts

LEMMA GraphHolds == GraphSpec => []GraphInv
<1>1. GraphInit => GraphInv
  <2> SUFFICES ASSUME GraphInit PROVE GraphInv
    OBVIOUS
  <2>1. UnderwayTyped /\ Underway = {} /\ Blocks = {}
    BY NoneUnderway DEF GraphInit, UnderwayTyped, Underway, Blocks
  <2>2. RelationTyped /\ ~Connected
    <3>1. msgs = FALSE /\ taint = 0 /\ conn = NoConn
      BY DEF GraphInit
    <3>2. msgs \in BOOLEAN
      BY <3>1
    <3>3. taint \in 0..3 /\ conn \in Conns /\ ~Connected
      BY <3>1, ConnsAre DEF Connected
    <3> QED BY <3>2, <3>3 DEF GraphInit, RelationTyped
  <2>3. ~Blocking({2, 3, 4}) /\ ~Blocking({3, 4})
    BY <2>1 DEF Blocking
  <2>4. Agrees
    BY <2>1, <2>2, <2>3 DEF GraphInit, Agrees
  <2> QED BY <2>1, <2>2, <2>4 DEF GraphInit, GraphInv, GraphShapes, BlockCuts, DeletionCuts
<1>2. GraphInv /\ [GraphNext]_graphVars => GraphInv'
  BY GraphShapesStep, AgreesStep, BlockCutsStep, DeletionCutsStep DEF GraphInv
<1> QED BY <1>1, <1>2, PTL DEF GraphSpec

\* Connections, lists, notifications, blocks and the requests under way always have the
\* states followfunctions.js, safetyFunctions.js and deleteAccount give them.
THEOREM GraphTypeCorrect == GraphSpec => []GraphTypeOK
<1>1. GraphInv => GraphTypeOK
  BY DEF GraphInv, GraphShapes, UnderwayTyped, RelationTyped, GraphTypeOK, Underway, Requests, Conns
<1> QED BY <1>1, GraphHolds, PTL

LEMMA QuietIsQuiet == Quiet => Underway = {} /\ Blocks = {} /\ \A steps : ~Blocking(steps)
BY NoneUnderway DEF Quiet, Underway, Blocks, Blocking

\* With no request under way the lists say who is connected and the notifications which
\* request is pending, unless a follow wrote over something or an accept found nothing.
THEOREM GraphFollowStateAgrees == GraphSpec => []FollowStateAgrees
<1>1. GraphInv => FollowStateAgrees
  BY QuietIsQuiet DEF GraphInv, Agrees, FollowStateAgrees
<1> QED BY <1>1, GraphHolds, PTL

\* Once a block is through there is no connection, request or notification of one between
\* the two, unless a follow or an accept came across it or it failed.
THEOREM GraphBlockedHaveNothing == GraphSpec => []BlockedHaveNothing
<1>1. GraphInv => BlockedHaveNothing
  BY QuietIsQuiet DEF GraphInv, BlockCuts, BlockedHaveNothing, Connected
<1> QED BY <1>1, GraphHolds, PTL

\* Once an account is deleted nothing of it is left, unless a request wrote it after.
THEOREM GraphNothingLeft == GraphSpec => []NothingLeftOfDeleted
<1>1. GraphInv => NothingLeftOfDeleted
  BY QuietIsQuiet DEF GraphInv, DeletionCuts, NothingLeftOfDeleted
<1> QED BY <1>1, GraphHolds, PTL

-----------------------------------------------------------------------------
(* The parts together *)

LEMMA SocialKeepsGraph == Spec => GraphSpec
<1>1. Init => GraphInit
  BY DEF Init
<1>2. [Next]_vars => [GraphNext]_graphVars
  BY DEF Next, vars
<1> QED BY <1>1, <1>2, PTL DEF Spec, GraphSpec

LEMMA SocialKeepsButton == Spec => ButtonSpec
<1>1. Init => ButtonInit
  BY DEF Init
<1>2. [Next]_vars => [ButtonNext]_buttonVars
  BY DEF Next, vars
<1> QED BY <1>1, <1>2, PTL DEF Spec, ButtonSpec

LEMMA SocialKeepsBadges == Spec => BadgeSpec
<1>1. Init => BadgeInit
  BY DEF Init
<1>2. [Next]_vars => [BadgeNext]_badgeVars
  BY DEF Next, vars
<1> QED BY <1>1, <1>2, PTL DEF Spec, BadgeSpec

LEMMA SocialKeepsNotices == Spec => NoticeSpec
<1>1. Init => NoticeInit
  BY DEF Init
<1>2. [Next]_vars => [NoticeNext]_noticeVars
  BY DEF Next, vars
<1> QED BY <1>1, <1>2, PTL DEF Spec, NoticeSpec

LEMMA SocialKeepsPage == Spec => PageSpec
<1>1. Init => PageInit
  BY DEF Init
<1>2. [Next]_vars => [PageNext]_pageVars
  BY DEF Next, vars
<1> QED BY <1>1, <1>2, PTL DEF Spec, PageSpec

\* Whichever part runs, its state has its types and bounds (MC_Social).
THEOREM SocialTypesCorrect == Spec => []Types
<1>1. GraphTypeOK /\ ButtonTypeOK /\ BadgeTypeOK /\ NoticeTypeOK /\ PageTypeOK => Types
  BY DEF Types
<1> QED BY <1>1, SocialKeepsGraph, SocialKeepsButton, SocialKeepsBadges, SocialKeepsNotices, SocialKeepsPage,
           GraphTypeCorrect, ButtonTypeCorrect, BadgeTypeCorrect, NoticeTypeCorrect, PageTypeCorrect, PTL

=============================================================================
