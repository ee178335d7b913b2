----------------------------- MODULE RatchetProofs -----------------------------
(***************************************************************************)
(* Theorems about Ratchet, for every number of messages, turns and         *)
(* deliveries and every limit of skipped keys, about KeyedMutex, for any   *)
(* keys and calls, and about Repair, for any messages, requests, re-sends  *)
(* and faults.                                                             *)
(***************************************************************************)
EXTENDS Ratchet, KeyedMutex, Repair, FiniteSetTheorems, SequenceTheorems, TLAPS

-----------------------------------------------------------------------------
(* Ratchet *)

Roots == Seq(SUBSET Nat)
ChainKeys == [root : Roots, n : Nat]
Kept == [dh : Nat, n : Nat, mk : ChainKeys]
EndStates == [dhs : Nat, dhr : Nat, rk : Roots, cks : ChainKeys, ckr : ChainKeys,
         ns : Nat, nr : Nat, pn : Nat, skipped : Seq(Kept)]

\* Kept keys are of messages passed over, one of each.
Sound(q, dh, n) ==
    /\ \A i, j \in 1..Len(q) : q[i].dh = q[j].dh /\ q[i].n = q[j].n => i = j
    /\ \A i \in 1..Len(q) : q[i].dh < dh \/ (q[i].dh = dh /\ q[i].n < n)

LEMMA RatchetBounds ==
    MAX_SKIP \in Nat /\ MAX_SKIPPED_KEYS \in Nat /\ MaxTexts \in Nat /\ MAX_SKIPPED_KEYS > 0
BY RatchetAssumption DEF RatchetAssumption

LEMMA ChainKeysAre ==
    /\ NoKey \in Roots /\ Len(NoKey) = 0 /\ NoChain \in ChainKeys /\ NoChain.root = NoKey
    /\ \A root, n : Ck(root, n).root = root /\ Ck(root, n).n = n
    /\ \A root \in Roots : \A n \in Nat : Ck(root, n) \in ChainKeys
    /\ \A c \in ChainKeys : c = Ck(c.root, c.n)
    /\ \A a, b \in Nat : Dh(a, b) \in SUBSET Nat
    /\ \A root \in Roots : \A d \in SUBSET Nat :
         /\ Append(root, d) \in Roots /\ Len(Append(root, d)) = Len(root) + 1
         /\ Len(root) \in Nat
BY DEF NoKey, Roots, NoChain, Ck, ChainKeys, Dh

LastOf(all, M) == IF Len(all) > M THEN SubSeq(all, Len(all) - M + 1, Len(all)) ELSE all

LEMMA LastKept ==
    ASSUME NEW S, NEW all \in Seq(S), NEW M \in Nat
    PROVE  /\ LastOf(all, M) \in Seq(S) /\ Len(LastOf(all, M)) <= M
           /\ \E d \in Nat :
                /\ Len(LastOf(all, M)) = Len(all) - d
                /\ d = 0 \/ Len(LastOf(all, M)) = M
                /\ \A j \in 1..Len(LastOf(all, M)) :
                     LastOf(all, M)[j] = all[j + d] /\ j + d \in 1..Len(all)
<1>1. CASE Len(all) > M
  <2> DEFINE t == SubSeq(all, Len(all) - M + 1, Len(all))
             n == Len(all)
  <2>1. n \in Nat /\ n > M /\ n - M + 1 \in Int /\ \A i \in 1..n : all[i] \in S
    BY <1>1
  <2>2. \A i \in (n - M + 1)..n : all[i] \in S
    BY <2>1
  <2>3. /\ t \in Seq(S) /\ Len(t) = IF n - M + 1 <= n THEN n - (n - M + 1) + 1 ELSE 0
        /\ \A i \in 1..(n - (n - M + 1) + 1) : t[i] = all[(n - M + 1) + i - 1]
    BY <2>1, <2>2, SubSeqProperties
  <2>4. LastOf(all, M) = t
    BY <1>1 DEF LastOf
  <2> HIDE DEF t, n
  <2>5. Len(t) = M /\ n - M \in Nat /\ M = n - (n - M)
    BY <2>1, <2>3
  <2>6. ASSUME NEW i \in 1..M PROVE t[i] = all[i + (n - M)] /\ i + (n - M) \in 1..n
    <3>1. i \in 1..(n - (n - M + 1) + 1) /\ (n - M + 1) + i - 1 = i + (n - M)
      BY <2>1
    <3> QED BY <2>1, <2>3, <3>1
  <2>7. /\ Len(t) = n - (n - M)
        /\ \A j \in 1..Len(t) : t[j] = all[j + (n - M)] /\ j + (n - M) \in 1..n
    BY <2>5, <2>6
  <2>8. Len(t) <= M
    BY <2>5
  <2> QED BY <2>3, <2>4, <2>5, <2>7, <2>8 DEF n
<1>2. CASE ~(Len(all) > M)
  <2>1. LastOf(all, M) = all /\ Len(all) \in Nat
    BY <1>2 DEF LastOf
  <2>2. Len(all) <= M /\ Len(all) = Len(all) - 0 /\ \A j \in 1..Len(all) : j + 0 = j
    BY <1>2, <2>1
  <2>3. \A j \in 1..Len(all) : all[j] = all[j + 0] /\ j + 0 \in 1..Len(all)
    BY <2>2
  <2> QED BY <2>1, <2>2, <2>3
<1> QED BY <1>1, <1>2

\* keys are those of the messages of turn dh from n0 on, in order.
Consecutive(keys, dh, n0) ==
    \A i \in 1..Len(keys) : keys[i].dh = dh /\ keys[i].n = n0 + i - 1

\* What is left of q once keys are put behind it: old keys and new ones, sound if q was.
Extends(last, q, dh, n0, keys) ==
    /\ last \in Seq(Kept)
    /\ \A j \in 1..Len(last) :
         \/ \E i \in 1..Len(q) : last[j] = q[i]
         \/ last[j].dh = dh /\ last[j].n \in n0..(n0 + Len(keys) - 1)
    /\ Sound(q, dh, n0) => Sound(last, dh, n0 + Len(keys))

\* Keys n0, n0 + 1, ... of a chain put behind those kept, and the first of all dropped.
LEMMA KeysAppended ==
    ASSUME NEW q \in Seq(Kept), NEW dh \in Nat, NEW n0 \in Nat, NEW keys \in Seq(Kept),
           Consecutive(keys, dh, n0), NEW M \in Nat
    PROVE  Extends(LastOf(q \o keys, M), q, dh, n0, keys)
<1> DEFINE all == q \o keys
           L == Len(q)
           n == Len(keys)
           last == LastOf(all, M)
<1>1. L \in Nat /\ n \in Nat /\ \A i \in 1..L : q[i] \in Kept
  OBVIOUS
<1>2. /\ all \in Seq(Kept) /\ Len(all) = L + n
      /\ \A i \in 1..(L + n) : all[i] = IF i <= L THEN q[i] ELSE keys[i - L]
  BY ConcatProperties
<1>3. last \in Seq(Kept) /\ Len(last) <= M
  BY <1>2, LastKept
<1>4. PICK d \in Nat : /\ Len(last) = Len(all) - d
                       /\ \A j \in 1..Len(last) : last[j] = all[j + d] /\ j + d \in 1..Len(all)
  BY <1>2, LastKept
<1>5. \A i \in 1..n : keys[i].dh = dh /\ keys[i].n = n0 + i - 1
  BY DEF Consecutive
<1>6. Sound(q, dh, n0) =>
        /\ \A i, j \in 1..L : q[i].dh = q[j].dh /\ q[i].n = q[j].n => i = j
        /\ \A i \in 1..L : q[i].dh < dh \/ (q[i].dh = dh /\ q[i].n < n0)
  BY DEF Sound
<1> HIDE DEF last, all, L, n
<1>7. \A i \in 1..L : i \in 1..(L + n) /\ all[i] = q[i]
  BY <1>1, <1>2
<1>8. ASSUME NEW i \in 1..(L + n), i \notin 1..L
      PROVE  /\ i - L \in 1..n /\ all[i].dh = dh /\ all[i].n = n0 + (i - L) - 1
             /\ all[i].n \in n0..(n0 + n - 1)
  <2>1. i - L \in 1..n /\ ~(i <= L)
    BY <1>1, <1>8
  <2>2. all[i] = keys[i - L]
    BY <1>2, <2>1
  <2>3. all[i].dh = dh /\ all[i].n = n0 + (i - L) - 1
    BY <1>5, <2>1, <2>2
  <2>4. n0 + (i - L) - 1 \in n0..(n0 + n - 1)
    BY <1>1, <2>1
  <2> QED BY <2>1, <2>3, <2>4
<1>9. ASSUME NEW j \in 1..Len(last)
      PROVE  \/ \E i \in 1..L : last[j] = q[i]
             \/ last[j].dh = dh /\ last[j].n \in n0..(n0 + n - 1)
  <2>1. last[j] = all[j + d] /\ j + d \in 1..(L + n)
    BY <1>2, <1>4
  <2>2. CASE j + d \in 1..L
    BY <1>7, <2>1, <2>2
  <2>3. CASE j + d \notin 1..L
    BY <1>8, <2>1, <2>3
  <2> QED BY <2>2, <2>3
<1>10. ASSUME Sound(q, dh, n0) PROVE Sound(last, dh, n0 + n)
  <2>0. /\ \A i, j \in 1..L : q[i].dh = q[j].dh /\ q[i].n = q[j].n => i = j
        /\ \A i \in 1..L : q[i].dh < dh \/ (q[i].dh = dh /\ q[i].n < n0)
    BY <1>6, <1>10
  <2>1. ASSUME NEW i \in 1..(L + n), NEW j \in 1..(L + n), all[i].dh = all[j].dh,
               all[i].n = all[j].n
        PROVE  i = j
    <3>1. CASE i \in 1..L /\ j \in 1..L
      BY <1>7, <2>0, <2>1, <3>1
    <3>2. ASSUME NEW k \in 1..L, NEW m \in 1..(L + n), m \notin 1..L
          PROVE  all[k].dh # all[m].dh \/ all[k].n # all[m].n
      <4>1. q[k] \in Kept /\ all[k] = q[k] /\ (q[k].dh < dh \/ q[k].n < n0)
        BY <1>1, <1>7, <2>0
      <4>2. all[m].dh = dh /\ all[m].n \in n0..(n0 + n - 1)
        BY <1>8, <3>2
      <4>3. q[k].dh \in Nat /\ q[k].n \in Nat
        BY <4>1 DEF Kept
      <4>4. q[k].dh # dh \/ q[k].n \notin n0..(n0 + n - 1)
        BY <4>1, <4>3
      <4> QED BY <4>1, <4>2, <4>4
    <3>3. CASE i \notin 1..L /\ j \notin 1..L
      <4>1. n0 + (i - L) - 1 = n0 + (j - L) - 1
        BY <1>8, <2>1, <3>3
      <4> QED BY <1>1, <4>1
    <3> QED BY <2>1, <3>1, <3>2, <3>3
  <2>2. ASSUME NEW i \in 1..Len(last), NEW j \in 1..Len(last), last[i].dh = last[j].dh,
               last[i].n = last[j].n
        PROVE  i = j
    <3>1. /\ last[i] = all[i + d] /\ i + d \in 1..(L + n)
          /\ last[j] = all[j + d] /\ j + d \in 1..(L + n)
      BY <1>2, <1>4
    <3>2. i + d = j + d
      BY <2>1, <2>2, <3>1
    <3> QED BY <3>2
  <2>3. ASSUME NEW i \in 1..Len(last)
        PROVE  last[i].dh < dh \/ (last[i].dh = dh /\ last[i].n < n0 + n)
    <3>1. ASSUME NEW k \in 1..L, last[i] = q[k]
          PROVE  last[i].dh < dh \/ (last[i].dh = dh /\ last[i].n < n0 + n)
      <4>1. q[k] \in Kept /\ (q[k].dh < dh \/ (q[k].dh = dh /\ q[k].n < n0))
        BY <1>1, <2>0
      <4>2. q[k].n \in Nat
        BY <4>1 DEF Kept
      <4>3. q[k].n < n0 => q[k].n < n0 + n
        BY <1>1, <4>2
      <4> QED BY <3>1, <4>1, <4>3
    <3>2. \A x \in n0..(n0 + n - 1) : x < n0 + n
      BY <1>1
    <3> QED BY <1>9, <3>1, <3>2
  <2> QED BY <2>2, <2>3 DEF Sound
<1>11. Extends(last, q, dh, n0, keys)
  BY <1>3, <1>9, <1>10 DEF Extends, L, n
<1> QED BY <1>11 DEF last, all

LEMMA ChainStepped ==
    ASSUME NEW c \in ChainKeys, NEW x \in Nat
    PROVE  /\ [c EXCEPT !.n = x] \in ChainKeys
           /\ [c EXCEPT !.n = x].root = c.root /\ [c EXCEPT !.n = x].n = x
BY DEF ChainKeys

\* skipMessageKeys keeps the keys of the chain up to `until`, and changes nothing else
\* but the end of the chain.
LEMMA SkippedKeeps ==
    ASSUME NEW s \in EndStates, NEW until \in Nat, NEW t, t = Skipped(s, until),
           Sound(s.skipped, s.dhr, s.nr)
    PROVE  /\ t \in EndStates
           /\ t.dhs = s.dhs /\ t.dhr = s.dhr /\ t.rk = s.rk /\ t.cks = s.cks /\ t.ns = s.ns
           /\ t.pn = s.pn /\ t.ckr.root = s.ckr.root
           /\ t.nr \in {s.nr, until} /\ t.nr >= s.nr
           /\ s.ckr # NoChain /\ until >= s.nr => t.nr = until
           /\ Sound(t.skipped, t.dhr, t.nr)
           /\ \A j \in 1..Len(t.skipped) :
                \/ \E i \in 1..Len(s.skipped) : t.skipped[j] = s.skipped[i]
                \/ t.skipped[j].dh = s.dhr /\ t.skipped[j].n >= s.nr /\ t.skipped[j].n < until
<1>0. /\ s.dhs \in Nat /\ s.dhr \in Nat /\ s.rk \in Roots /\ s.cks \in ChainKeys
      /\ s.ckr \in ChainKeys /\ s.ns \in Nat /\ s.nr \in Nat /\ s.pn \in Nat
      /\ s.skipped \in Seq(Kept) /\ s.ckr.root \in Roots /\ s.ckr.n \in Nat
  BY DEF EndStates, ChainKeys
<1>1. CASE s.ckr = NoChain \/ until <= s.nr
  <2>1. t = s
    BY <1>1 DEF Skipped
  <2>2. s.ckr # NoChain /\ until >= s.nr => s.nr = until
    BY <1>0, <1>1
  <2> QED BY <1>0, <2>1, <2>2
<1>2. CASE ~(s.ckr = NoChain \/ until <= s.nr)
  <2> DEFINE keys == [i \in 1..(until - s.nr) |->
                        [dh |-> s.dhr, n |-> s.nr + i - 1, mk |-> [s.ckr EXCEPT !.n = @ + i - 1]]]
             kept == LastOf(s.skipped \o keys, MAX_SKIPPED_KEYS)
             u == [s EXCEPT !.ckr.n = @ + (until - s.nr), !.nr = until, !.skipped = kept]
  <2>1. t = u
    BY <1>2, Zenon DEF Skipped, LastOf
  <2>2. until - s.nr \in Nat /\ until > s.nr
    BY <1>0, <1>2
  <2>3. ASSUME NEW i \in 1..(until - s.nr)
        PROVE  keys[i] \in Kept /\ keys[i].dh = s.dhr /\ keys[i].n = s.nr + i - 1
    <3>0. i \in Nat /\ i >= 1 /\ s.nr \in Nat /\ s.ckr.n \in Nat
      BY <1>0
    <3>1. s.nr + i - 1 \in Nat /\ s.ckr.n + i - 1 \in Nat
      BY <3>0
    <3> DEFINE c == [s.ckr EXCEPT !.n = @ + i - 1]
    <3>2. c \in ChainKeys
      BY <1>0, <3>1, ChainStepped
    <3> HIDE DEF c
    <3>3. keys[i] = [dh |-> s.dhr, n |-> s.nr + i - 1, mk |-> c]
      BY DEF c
    <3> QED BY <1>0, <3>1, <3>2, <3>3 DEF Kept
  <2>4. keys \in Seq(Kept) /\ Len(keys) = until - s.nr
    <3>1. \A i \in 1..(until - s.nr) : keys[i] \in Kept
      BY <2>3
    <3> HIDE DEF keys
    <3>2. [i \in 1..(until - s.nr) |-> keys[i]] \in Seq(Kept)
      BY <2>2, <3>1, IsASeq
    <3>3. keys = [i \in 1..(until - s.nr) |-> keys[i]]
      BY Zenon DEF keys
    <3>4. Len([i \in 1..(until - s.nr) |-> keys[i]]) = until - s.nr
      BY <2>2, <3>2
    <3> QED BY <3>2, <3>3, <3>4
  <2> HIDE DEF keys
  <2>14. \A i \in 1..Len(keys) : keys[i].dh = s.dhr /\ keys[i].n = s.nr + i - 1
    BY <2>3, <2>4
  <2>16. /\ s.skipped \in Seq(Kept) /\ s.dhr \in Nat /\ s.nr \in Nat
         /\ MAX_SKIPPED_KEYS \in Nat /\ keys \in Seq(Kept)
    BY <1>0, <2>4, RatchetBounds
  <2>17. Consecutive(keys, s.dhr, s.nr)
    BY <2>14 DEF Consecutive
  <2>18. Extends(kept, s.skipped, s.dhr, s.nr, keys)
    <3>1. Extends(LastOf(s.skipped \o keys, MAX_SKIPPED_KEYS), s.skipped, s.dhr, s.nr, keys)
      BY ONLY <2>16, <2>17, KeysAppended
    <3> QED BY <3>1, Zenon
  <2> HIDE DEF kept
  <2>5. /\ kept \in Seq(Kept)
        /\ \A j \in 1..Len(kept) :
             \/ \E i \in 1..Len(s.skipped) : kept[j] = s.skipped[i]
             \/ kept[j].dh = s.dhr /\ kept[j].n \in s.nr..(s.nr + Len(keys) - 1)
        /\ Sound(kept, s.dhr, s.nr + Len(keys))
    BY <2>18, Zenon DEF Extends
  <2>6. /\ u.dhs = s.dhs /\ u.dhr = s.dhr /\ u.rk = s.rk /\ u.cks = s.cks /\ u.ns = s.ns
        /\ u.pn = s.pn /\ u.nr = until /\ u.skipped = kept
        /\ u.ckr = [s.ckr EXCEPT !.n = @ + (until - s.nr)]
    BY DEF EndStates
  <2>7. s.ckr.n + (until - s.nr) \in Nat
    <3> DEFINE n == s.ckr.n
               more == until - s.nr
    <3>1. n \in Nat /\ more \in Nat
      BY <1>0, <2>2
    <3> HIDE DEF n, more
    <3>2. n + more \in Nat
      BY ONLY <3>1
    <3> QED BY <3>2 DEF n, more
  <2> DEFINE c == [s.ckr EXCEPT !.n = @ + (until - s.nr)]
  <2>15. c \in ChainKeys /\ c.root = s.ckr.root
    BY <1>0, <2>7, ChainStepped
  <2>8. u.ckr \in ChainKeys /\ u.ckr.root = s.ckr.root
    BY <2>6, <2>15
  <2> HIDE DEF c
  <2>9. u \in EndStates
    BY <1>0, <2>5, <2>6, <2>8 DEF EndStates
  <2> HIDE DEF u
  <2>10. s.nr + Len(keys) = until /\ \A n \in s.nr..(s.nr + Len(keys) - 1) : n >= s.nr /\ n < until
    BY <1>0, <2>2, <2>4
  <2>11. \A j \in 1..Len(u.skipped) :
           \/ \E i \in 1..Len(s.skipped) : u.skipped[j] = s.skipped[i]
           \/ u.skipped[j].dh = s.dhr /\ u.skipped[j].n >= s.nr /\ u.skipped[j].n < until
    BY <2>5, <2>6, <2>10
  <2>12. Sound(u.skipped, u.dhr, u.nr)
    BY <2>5, <2>6, <2>10
  <2>13. u.nr \in {s.nr, until} /\ u.nr >= s.nr /\ u.nr = until
    BY <1>0, <2>2, <2>6
  <2> QED BY <2>1, <2>6, <2>8, <2>9, <2>11, <2>12, <2>13
<1> QED BY <1>1, <1>2

\* The root a side steps to with the other's key, and the one it then sends on.
RecvRoot(s, dh) == Append(s.rk, Dh(s.dhs, dh))
SendRoot(s, dh, k) == Append(RecvRoot(s, dh), Dh(k, dh))

SteppedTo(s, dh, k, t) ==
    /\ t.dhs = k /\ t.dhr = dh /\ t.ns = 0 /\ t.nr = 0 /\ t.skipped = s.skipped
    /\ t.ckr.root = RecvRoot(s, dh) /\ t.ckr.n = 0 /\ t.rk = SendRoot(s, dh, k)
    /\ t.cks.root = t.rk /\ t.cks.n = 0 /\ t.pn = s.ns

\* dhRatchet
LEMMA SteppedIs ==
    ASSUME NEW s \in EndStates, NEW dh \in Nat, NEW k \in Nat, NEW t, t = Stepped(s, dh, k)
    PROVE  (t \in EndStates) /\ SteppedTo(s, dh, k, t)
<1>1. /\ s.dhs \in Nat /\ s.rk \in Roots /\ s.ns \in Nat /\ s.skipped \in Seq(Kept)
  BY DEF EndStates
<1> DEFINE rk1 == RecvRoot(s, dh)
           rk2 == SendRoot(s, dh, k)
<1>2. t = [s EXCEPT !.pn = s.ns, !.ns = 0, !.nr = 0, !.dhr = dh, !.ckr = Ck(rk1, 0), !.dhs = k,
                    !.rk = rk2, !.cks = Ck(rk2, 0)]
  BY DEF Stepped, RecvRoot, SendRoot
<1>3. rk1 \in Roots /\ rk2 \in Roots
  BY <1>1, ChainKeysAre DEF RecvRoot, SendRoot
<1>4. Ck(rk1, 0) \in ChainKeys /\ Ck(rk2, 0) \in ChainKeys
  BY <1>3, ChainKeysAre
<1> HIDE DEF rk1, rk2
<1>5. /\ t.pn = s.ns /\ t.ns = 0 /\ t.nr = 0 /\ t.dhr = dh /\ t.ckr = Ck(rk1, 0) /\ t.dhs = k
      /\ t.rk = rk2 /\ t.cks = Ck(rk2, 0) /\ t.skipped = s.skipped
  BY <1>2 DEF EndStates
<1>6. t \in EndStates
  <2>1. /\ t = [dhs |-> k, dhr |-> dh, rk |-> rk2, cks |-> Ck(rk2, 0), ckr |-> Ck(rk1, 0),
                ns |-> 0, nr |-> 0, pn |-> s.ns, skipped |-> s.skipped]
    BY <1>2 DEF EndStates
  <2> QED BY <1>1, <1>3, <1>4, <2>1 DEF EndStates
<1>7. t.ckr.root = rk1 /\ t.ckr.n = 0 /\ t.cks.root = rk2 /\ t.cks.n = 0
  BY <1>5, ChainKeysAre
<1> QED BY <1>5, <1>6, <1>7 DEF SteppedTo, rk1, rk2

IsText(m) == m.from \in Sides /\ m.dh \in Nat /\ m.pn \in Nat /\ m.n \in Nat /\ m.mk \in ChainKeys

Parity(p) == IF p = "alice" THEN 0 ELSE 1

\* s has stepped to the key pair r sends with, and r not yet to that of s.
Ahead(s, r) == s.rk = Append(r.rk, Dh(r.dhs, s.dhs)) /\ r.dhr < s.dhs

EndOk(p, s, made) ==
    /\ s \in EndStates
    /\ Len(s.rk) >= 1 /\ Len(s.rk) % 2 = Parity(p)
    /\ s.dhs <= made /\ s.dhr <= made
    /\ CanSend(s) => s.cks.root = s.rk /\ s.cks.n = s.ns
    /\ Sound(s.skipped, s.dhr, s.nr)

\* A text of s: of the chain it sends on, or of an earlier and shorter root.
TextOk(p, s, m) ==
    /\ IsText(m)
    /\ m.mk.n = m.n /\ Len(m.mk.root) >= 1 /\ Len(m.mk.root) % 2 = Parity(p)
    /\ \/ Len(m.mk.root) < Len(s.rk)
       \/ m.mk.root = s.rk /\ m.dh = s.dhs /\ m.n < s.ns

\* A text that s has opened: its key is not kept.
Spent(s, m) ==
    /\ PassedOver(s, m)
    /\ \A i \in 1..Len(s.skipped) : ~(s.skipped[i].dh = m.dh /\ s.skipped[i].n = m.n)

EndsOk == DOMAIN ends = Sides /\ fresh \in Nat /\ \A p \in Sides : EndOk(p, ends[p], fresh)
TurnOk == \E p \in Sides : Ahead(ends[p], ends[Peer(p)])
WireOk == \A m \in wire : TextOk(m.from, ends[m.from], m)
GotOk ==
    /\ DOMAIN got = Sides
    /\ \A p \in Sides : \A m \in got[p] : m \in wire /\ m.from = Peer(p) /\ Spent(ends[p], m)

RatchetIInv == EndsOk /\ TurnOk /\ WireOk /\ GotOk /\ NoKeyTwice /\ NoneOpensTwice

LEMMA ElementRemoved ==
    ASSUME NEW S, NEW s \in Seq(S), NEW i \in 1..Len(s)
    PROVE  /\ RemoveAt(s, i) \in Seq(S) /\ Len(RemoveAt(s, i)) = Len(s) - 1
           /\ \A j \in 1..(Len(s) - 1) : RemoveAt(s, i)[j] = s[IF j < i THEN j ELSE j + 1]
<1> DEFINE a == SubSeq(s, 1, i - 1)
           b == SubSeq(s, i + 1, Len(s))
<1>1. Len(s) \in Nat /\ i \in Nat /\ i >= 1 /\ i <= Len(s)
  OBVIOUS
<1>2. a \in Seq(S) /\ Len(a) = i - 1 /\ \A j \in 1..(i - 1) : a[j] = s[j]
  BY <1>1
<1>3. b \in Seq(S) /\ Len(b) = Len(s) - i /\ \A j \in 1..(Len(s) - i) : b[j] = s[j + i]
  BY <1>1
<1> HIDE DEF a, b
<1>4. a \o b \in Seq(S) /\ Len(a \o b) = Len(s) - 1
  <2>1. a \o b \in Seq(S) /\ Len(a \o b) = Len(a) + Len(b)
    BY <1>2, <1>3, ConcatProperties
  <2>2. (i - 1) + (Len(s) - i) = Len(s) - 1
    BY <1>1
  <2> QED BY <1>2, <1>3, <2>1, <2>2
<1>5. ASSUME NEW j \in 1..(Len(s) - 1)
      PROVE  (a \o b)[j] = s[IF j < i THEN j ELSE j + 1]
  <2>1. CASE j < i
    BY <1>1, <1>2, <1>3, <2>1
  <2>2. CASE ~(j < i)
    <3>1. (a \o b)[j] = b[j - (i - 1)]
      BY <1>1, <1>2, <1>3, <2>2
    <3>2. j - (i - 1) \in 1..(Len(s) - i)
      BY <1>1, <2>2
    <3>3. b[j - (i - 1)] = s[(j - (i - 1)) + i] /\ (j - (i - 1)) + i = j + 1
      BY <1>1, <1>3, <3>2
    <3> QED BY <2>2, <3>1, <3>3
  <2> QED BY <2>1, <2>2
<1> QED BY <1>4, <1>5 DEF RemoveAt, a, b

\* The i-th kept key taken out, which was of message (d, x).
LEMMA KeyRemoved ==
    ASSUME NEW q \in Seq(Kept), NEW i \in 1..Len(q), NEW dh, NEW n, Sound(q, dh, n),
           NEW r, r = RemoveAt(q, i)
    PROVE  /\ r \in Seq(Kept) /\ Sound(r, dh, n)
           /\ \A j \in 1..Len(r) :
                /\ \E h \in 1..Len(q) : r[j] = q[h]
                /\ ~(r[j].dh = q[i].dh /\ r[j].n = q[i].n)
<1> DEFINE At(j) == IF j < i THEN j ELSE j + 1
<1>1. /\ r \in Seq(Kept) /\ Len(r) = Len(q) - 1
      /\ \A j \in 1..(Len(q) - 1) : r[j] = q[At(j)]
  BY ElementRemoved
<1>2. Len(q) \in Nat /\ i \in Nat
  OBVIOUS
<1>3. \A j \in 1..(Len(q) - 1) : At(j) \in 1..Len(q) /\ At(j) # i
  BY <1>2
<1>4. \A j, h \in 1..(Len(q) - 1) : At(j) = At(h) => j = h
  BY <1>2
<1>5. /\ \A j, h \in 1..Len(q) : q[j].dh = q[h].dh /\ q[j].n = q[h].n => j = h
      /\ \A j \in 1..Len(q) : q[j].dh < dh \/ (q[j].dh = dh /\ q[j].n < n)
  BY DEF Sound
<1> HIDE DEF At
<1>6. \A j \in 1..Len(r) : At(j) \in 1..Len(q) /\ At(j) # i /\ r[j] = q[At(j)]
  BY <1>1, <1>3
<1>7. \A j, h \in 1..Len(r) : r[j].dh = r[h].dh /\ r[j].n = r[h].n => j = h
  BY <1>1, <1>4, <1>5, <1>6
<1>8. \A j \in 1..Len(r) : r[j].dh < dh \/ (r[j].dh = dh /\ r[j].n < n)
  BY <1>5, <1>6
<1>9. \A j \in 1..Len(r) : ~(r[j].dh = q[i].dh /\ r[j].n = q[i].n)
  BY <1>5, <1>6
<1> QED BY <1>1, <1>6, <1>7, <1>8, <1>9 DEF Sound
\* The keys kept in t are those kept in s and of messages s had yet to reach, without m's.
OnlyLeft(s, t, m) ==
    \A j \in 1..Len(t.skipped) :
        LET e == t.skipped[j] IN
        /\ ~(e.dh = m.dh /\ e.n = m.n)
        /\ \/ \E i \in 1..Len(s.skipped) : e = s.skipped[i]
           \/ e.dh = s.dhr /\ e.n >= s.nr
           \/ e.dh > s.dhr

\* ratchetDecrypt with a kept key: the key goes.
LEMMA OpenedKept ==
    ASSUME NEW s \in EndStates, NEW m, NEW k, NEW t, t = Decrypted(s, m, k), HasSkipped(s, m),
           Sound(s.skipped, s.dhr, s.nr)
    PROVE  /\ t \in EndStates
           /\ t.dhs = s.dhs /\ t.dhr = s.dhr /\ t.rk = s.rk /\ t.cks = s.cks /\ t.ns = s.ns
           /\ t.nr = s.nr /\ t.pn = s.pn /\ t.ckr = s.ckr
           /\ Sound(t.skipped, t.dhr, t.nr)
           /\ PassedOver(s, m)
           /\ OnlyLeft(s, t, m)
<1> DEFINE i == SkippedAt(s, m)
           q == s.skipped
           r == RemoveAt(q, i)
<1>1. q \in Seq(Kept) /\ DOMAIN q = 1..Len(q) /\ Sound(q, s.dhr, s.nr)
  BY DEF EndStates
<1>2. i \in 1..Len(q) /\ q[i].dh = m.dh /\ q[i].n = m.n
  BY <1>1, Zenon DEF HasSkipped, SkippedAt
<1>3. t = [s EXCEPT !.skipped = r]
  BY DEF Decrypted
<1> HIDE DEF i
<1>4. /\ r \in Seq(Kept) /\ Sound(r, s.dhr, s.nr)
      /\ \A j \in 1..Len(r) :
            /\ \E h \in 1..Len(q) : r[j] = q[h]
            /\ ~(r[j].dh = q[i].dh /\ r[j].n = q[i].n)
  <2> HIDE DEF q
  <2> QED BY <1>1, <1>2, KeyRemoved
<1> HIDE DEF r
<1>5. /\ t.dhs = s.dhs /\ t.dhr = s.dhr /\ t.rk = s.rk /\ t.cks = s.cks /\ t.ns = s.ns
      /\ t.nr = s.nr /\ t.pn = s.pn /\ t.ckr = s.ckr /\ t.skipped = r
  BY <1>3 DEF EndStates
<1>6. t \in EndStates
  BY <1>3, <1>4 DEF EndStates
<1>7. PassedOver(s, m)
  BY <1>1, <1>2 DEF PassedOver, Sound
<1>8. OnlyLeft(s, t, m)
  <2> HIDE DEF q
  <2>1. \A j \in 1..Len(r) : ~(r[j].dh = m.dh /\ r[j].n = m.n)
    BY <1>2, <1>4
  <2>2. \A j \in 1..Len(r) : \E h \in 1..Len(s.skipped) : r[j] = s.skipped[h]
    BY <1>4 DEF q
  <2> QED BY <1>5, <2>1, <2>2 DEF OnlyLeft
<1> QED BY <1>4, <1>5, <1>6, <1>7, <1>8

\* A chain's key and count moved past a message.
LEMMA ChainAdvanced ==
    ASSUME NEW u \in EndStates, NEW t, t = [u EXCEPT !.ckr.n = @ + 1, !.nr = @ + 1]
    PROVE  /\ t \in EndStates
           /\ t.dhs = u.dhs /\ t.dhr = u.dhr /\ t.rk = u.rk /\ t.cks = u.cks /\ t.ns = u.ns
           /\ t.nr = u.nr + 1 /\ t.skipped = u.skipped /\ t.pn = u.pn
           /\ t.ckr.root = u.ckr.root /\ t.ckr.n = u.ckr.n + 1
<1>1. u.ckr \in ChainKeys /\ u.nr \in Nat /\ u.ckr.n \in Nat
  BY DEF EndStates, ChainKeys
<1> DEFINE c == [u.ckr EXCEPT !.n = @ + 1]
<1>2. u.ckr.n + 1 \in Nat /\ u.nr + 1 \in Nat
  BY <1>1
<1>3. c \in ChainKeys /\ c.root = u.ckr.root /\ c.n = u.ckr.n + 1
  BY <1>1, <1>2, ChainStepped
<1>4. /\ t.dhs = u.dhs /\ t.dhr = u.dhr /\ t.rk = u.rk /\ t.cks = u.cks /\ t.ns = u.ns
      /\ t.nr = u.nr + 1 /\ t.skipped = u.skipped /\ t.ckr = c /\ t.pn = u.pn
      /\ t = [u EXCEPT !.ckr = c, !.nr = u.nr + 1]
  BY DEF EndStates
<1> HIDE DEF c
<1>5. t \in EndStates
  BY <1>2, <1>3, <1>4 DEF EndStates
<1> QED BY <1>3, <1>4, <1>5

LEMMA SoundGrows ==
    ASSUME NEW q \in Seq(Kept), NEW dh \in Nat, NEW n \in Nat, Sound(q, dh, n),
           NEW d \in Nat, NEW x \in Nat, dh < d \/ (dh = d /\ n <= x)
    PROVE  Sound(q, d, x)
<1>1. \A i \in 1..Len(q) : q[i] \in Kept
  OBVIOUS
<1>2. \A i \in 1..Len(q) : q[i].dh \in Nat /\ q[i].n \in Nat
  BY <1>1 DEF Kept
<1> QED BY <1>2 DEF Sound

\* ratchetDecrypt on the chain at hand.
LEMMA OpenedOnChain ==
    ASSUME NEW s \in EndStates, NEW m, IsText(m), NEW k \in Nat, NEW t, t = Decrypted(s, m, k),
           Outcome(s, m, k) = "ok", ~HasSkipped(s, m), ~NewChain(s, m),
           Len(m.mk.root) >= 1, Sound(s.skipped, s.dhr, s.nr)
    PROVE  /\ t \in EndStates
           /\ t.dhs = s.dhs /\ t.dhr = s.dhr /\ t.rk = s.rk /\ t.cks = s.cks /\ t.ns = s.ns
           /\ m.dh = s.dhr /\ m.n >= s.nr /\ t.nr = m.n + 1
           /\ Sound(t.skipped, t.dhr, t.nr)
           /\ OnlyLeft(s, t, m)
           /\ t.pn = s.pn /\ s.ckr.root = m.mk.root /\ s.ckr # NoChain
           /\ t.ckr.root = m.mk.root /\ t.ckr.n = m.mk.n + 1
           /\ t.skipped = Skipped(s, m.n).skipped
<1> DEFINE u == Skipped(s, m.n)
<1>0. m.n \in Nat /\ s.nr \in Nat /\ m.dh \in Nat /\ s.skipped \in Seq(Kept) /\ s.dhr \in Nat
  BY DEF IsText, EndStates
<1>1. m.dh = s.dhr /\ OnChain(s, m, k) = s
  BY DEF NewChain, OnChain
<1>2. ~(m.n < s.nr) /\ u.ckr = m.mk
  BY <1>1, Zenon DEF Outcome
<1>3. t = [u EXCEPT !.ckr.n = @ + 1, !.nr = @ + 1]
  BY <1>1 DEF Decrypted
<1> HIDE DEF u
<1>4. /\ u \in EndStates
      /\ u.dhs = s.dhs /\ u.dhr = s.dhr /\ u.rk = s.rk /\ u.cks = s.cks /\ u.ns = s.ns
      /\ u.pn = s.pn /\ u.ckr.root = s.ckr.root
      /\ s.ckr # NoChain /\ m.n >= s.nr => u.nr = m.n
      /\ Sound(u.skipped, u.dhr, u.nr)
      /\ \A j \in 1..Len(u.skipped) :
           \/ \E i \in 1..Len(s.skipped) : u.skipped[j] = s.skipped[i]
           \/ u.skipped[j].dh = s.dhr /\ u.skipped[j].n >= s.nr /\ u.skipped[j].n < m.n
  <2> DEFINE until == m.n
  <2>1. until \in Nat /\ u = Skipped(s, until)
    BY <1>0 DEF u
  <2> HIDE DEF until
  <2>2. /\ u \in EndStates
        /\ u.dhs = s.dhs /\ u.dhr = s.dhr /\ u.rk = s.rk /\ u.cks = s.cks /\ u.ns = s.ns
        /\ u.pn = s.pn /\ u.ckr.root = s.ckr.root
        /\ s.ckr # NoChain /\ until >= s.nr => u.nr = until
        /\ Sound(u.skipped, u.dhr, u.nr)
        /\ \A j \in 1..Len(u.skipped) :
             \/ \E i \in 1..Len(s.skipped) : u.skipped[j] = s.skipped[i]
             \/ u.skipped[j].dh = s.dhr /\ u.skipped[j].n >= s.nr /\ u.skipped[j].n < until
    BY <2>1, SkippedKeeps
  <2> QED BY <2>2 DEF until
<1>5. s.ckr # NoChain
  <2>1. s.ckr.root = m.mk.root
    BY <1>2, <1>4
  <2>2. NoChain.root = NoKey /\ Len(NoKey) = 0
    BY ChainKeysAre
  <2> QED BY <2>1, <2>2
<1>6. u.nr = m.n
  BY <1>0, <1>2, <1>4, <1>5
<1>7. /\ t \in EndStates
      /\ t.dhs = u.dhs /\ t.dhr = u.dhr /\ t.rk = u.rk /\ t.cks = u.cks /\ t.ns = u.ns
      /\ t.nr = u.nr + 1 /\ t.skipped = u.skipped /\ t.pn = u.pn
      /\ t.ckr.root = u.ckr.root /\ t.ckr.n = u.ckr.n + 1
  BY <1>3, <1>4, ChainAdvanced
<1>8. Sound(t.skipped, t.dhr, t.nr)
  <2>1. u.skipped \in Seq(Kept) /\ u.dhr \in Nat /\ u.nr \in Nat /\ t.nr \in Nat /\ u.nr <= t.nr
    BY <1>0, <1>4, <1>6, <1>7 DEF EndStates
  <2> QED BY <1>4, <1>7, <2>1, SoundGrows
<1>9. OnlyLeft(s, t, m)
  <2>1. ASSUME NEW i \in 1..Len(s.skipped)
        PROVE  ~(s.skipped[i].dh = m.dh /\ s.skipped[i].n = m.n)
    BY <1>0 DEF HasSkipped
  <2>2. ASSUME NEW j \in 1..Len(t.skipped)
        PROVE  /\ ~(t.skipped[j].dh = m.dh /\ t.skipped[j].n = m.n)
               /\ \/ \E i \in 1..Len(s.skipped) : t.skipped[j] = s.skipped[i]
                  \/ t.skipped[j].dh = s.dhr /\ t.skipped[j].n >= s.nr
    <3>1. \/ \E i \in 1..Len(s.skipped) : t.skipped[j] = s.skipped[i]
          \/ t.skipped[j].dh = s.dhr /\ t.skipped[j].n >= s.nr /\ t.skipped[j].n < m.n
      BY <1>4, <1>7
    <3>2. t.skipped[j].n < m.n => t.skipped[j].n # m.n
      BY <1>0
    <3>3. ~(t.skipped[j].dh = m.dh /\ t.skipped[j].n = m.n)
      BY <2>1, <3>1, <3>2
    <3> QED BY <3>1, <3>3
  <2> QED BY <2>2 DEF OnlyLeft
<1>10. m.n >= s.nr /\ t.nr = m.n + 1
  BY <1>0, <1>2, <1>6, <1>7
<1>11. /\ t.pn = s.pn /\ s.ckr.root = m.mk.root
       /\ t.ckr.root = m.mk.root /\ t.ckr.n = m.mk.n + 1
  BY <1>2, <1>4, <1>7
<1>12. t.skipped = Skipped(s, m.n).skipped
  BY <1>7 DEF u
<1> QED BY <1>1, <1>4, <1>5, <1>7, <1>8, <1>9, <1>10, <1>11, <1>12

LEMMA SkippedRoot ==
    ASSUME NEW s \in EndStates, NEW until, NEW t, t = Skipped(s, until)
    PROVE  t.ckr.root = s.ckr.root
<1>1. s.ckr \in ChainKeys
  BY DEF EndStates
<1> QED BY <1>1, SMTT(60) DEF Skipped, EndStates, ChainKeys

\* ratchetDecrypt on a chain not seen: it is the one the message was sent on.
LEMMA OpenedNewChain ==
    ASSUME NEW s \in EndStates, NEW m, IsText(m), NEW k \in Nat, NEW t, t = Decrypted(s, m, k),
           Outcome(s, m, k) = "ok", ~HasSkipped(s, m), NewChain(s, m),
           m.mk.root = Append(s.rk, Dh(s.dhs, m.dh)) => m.dh > s.dhr,
           Sound(s.skipped, s.dhr, s.nr)
    PROVE  /\ t \in EndStates
           /\ m.mk.root = Append(s.rk, Dh(s.dhs, m.dh)) /\ m.dh > s.dhr
           /\ t.dhs = k /\ t.dhr = m.dh /\ t.nr = m.n + 1 /\ t.ns = 0
           /\ t.rk = Append(m.mk.root, Dh(k, m.dh)) /\ t.cks.root = t.rk /\ t.cks.n = 0
           /\ Sound(t.skipped, t.dhr, t.nr)
           /\ OnlyLeft(s, t, m)
           /\ t.pn = s.ns /\ t.ckr.root = m.mk.root /\ t.ckr.n = m.mk.n + 1
           /\ t.skipped = Skipped(Stepped(Skipped(s, m.pn), m.dh, k), m.n).skipped
<1> DEFINE a == Skipped(s, m.pn)
           b == Stepped(a, m.dh, k)
           u == Skipped(b, m.n)
           rk1 == Append(s.rk, Dh(s.dhs, m.dh))
           n == m.n
           pn == m.pn
           dh == m.dh
<1>0. n \in Nat /\ pn \in Nat /\ s.nr \in Nat /\ dh \in Nat /\ s.skipped \in Seq(Kept)
      /\ s.dhr \in Nat /\ s.rk \in Roots /\ s.dhs \in Nat
  BY DEF IsText, EndStates
<1>1. OnChain(s, m, k) = b
  BY DEF OnChain
<1>2. u.ckr = m.mk
  BY <1>1, Zenon DEF Outcome
<1>3. t = [u EXCEPT !.ckr.n = @ + 1, !.nr = @ + 1]
  BY <1>1 DEF Decrypted
<1>4. a = Skipped(s, pn) /\ b = Stepped(a, dh, k) /\ u = Skipped(b, n)
  OBVIOUS
<1> HIDE DEF a, b, u, n, pn, dh
<1>5. /\ a \in EndStates
      /\ a.dhs = s.dhs /\ a.dhr = s.dhr /\ a.rk = s.rk /\ a.ns = s.ns
      /\ Sound(a.skipped, a.dhr, a.nr)
      /\ \A j \in 1..Len(a.skipped) :
           \/ \E i \in 1..Len(s.skipped) : a.skipped[j] = s.skipped[i]
           \/ a.skipped[j].dh = s.dhr /\ a.skipped[j].n >= s.nr /\ a.skipped[j].n < pn
  <2>1. s \in EndStates /\ pn \in Nat /\ a = Skipped(s, pn) /\ Sound(s.skipped, s.dhr, s.nr)
    BY <1>0, <1>4
  <2> QED BY ONLY <2>1, SkippedKeeps
<1>6. /\ b \in EndStates
      /\ b.dhs = k /\ b.dhr = dh /\ b.ns = 0 /\ b.nr = 0 /\ b.skipped = a.skipped
      /\ b.ckr.root = rk1 /\ b.rk = Append(rk1, Dh(k, dh)) /\ b.cks.root = b.rk /\ b.cks.n = 0
      /\ b.pn = s.ns
  <2>1. /\ b \in EndStates
        /\ b.dhs = k /\ b.dhr = dh /\ b.ns = 0 /\ b.nr = 0 /\ b.skipped = a.skipped
        /\ b.ckr.root = RecvRoot(a, dh) /\ b.rk = SendRoot(a, dh, k)
        /\ b.cks.root = b.rk /\ b.cks.n = 0 /\ b.pn = a.ns
    <3>1. a \in EndStates /\ dh \in Nat /\ b = Stepped(a, dh, k)
      BY <1>0, <1>4, <1>5
    <3>2. b \in EndStates /\ SteppedTo(a, dh, k, b)
      BY <3>1, SteppedIs
    <3> QED BY <3>2 DEF SteppedTo
  <2>2. rk1 = RecvRoot(a, dh) /\ SendRoot(a, dh, k) = Append(rk1, Dh(k, dh))
    BY <1>5 DEF dh, RecvRoot, SendRoot
  <2> QED BY <1>5, <2>1, <2>2
<1>7. rk1 \in Roots /\ Len(rk1) = Len(s.rk) + 1 /\ Len(s.rk) \in Nat
  BY <1>0, ChainKeysAre DEF dh
<1> HIDE DEF rk1
<1>8. b.ckr.root = rk1 /\ b.ckr # NoChain
  <2>1. b.ckr.root = rk1
    BY <1>6
  <2>2. NoChain.root = NoKey /\ Len(NoKey) = 0
    BY ChainKeysAre
  <2> QED BY <1>7, <2>1, <2>2
<1>9. u.ckr.root = rk1
  <2>1. u.ckr.root = b.ckr.root
    BY <1>0, <1>4, <1>6, SkippedRoot
  <2> QED BY <1>8, <2>1
<1>10. m.mk.root = rk1 /\ dh > s.dhr
  BY <1>2, <1>9 DEF rk1, dh
<1>11. Sound(b.skipped, b.dhr, b.nr)
  <2>1. a.skipped \in Seq(Kept) /\ a.dhr \in Nat /\ a.nr \in Nat /\ b.dhr \in Nat /\ b.nr \in Nat
        /\ a.dhr < b.dhr
    BY <1>0, <1>5, <1>6, <1>10 DEF EndStates
  <2> QED BY <1>5, <1>6, <2>1, SoundGrows
<1>12. /\ u \in EndStates
       /\ u.dhs = b.dhs /\ u.dhr = b.dhr /\ u.rk = b.rk /\ u.cks = b.cks /\ u.ns = b.ns /\ u.pn = b.pn
       /\ b.ckr # NoChain /\ n >= b.nr => u.nr = n
       /\ Sound(u.skipped, u.dhr, u.nr)
       /\ \A j \in 1..Len(u.skipped) :
            \/ \E i \in 1..Len(b.skipped) : u.skipped[j] = b.skipped[i]
            \/ u.skipped[j].dh = b.dhr /\ u.skipped[j].n >= b.nr /\ u.skipped[j].n < n
  <2>1. b \in EndStates /\ n \in Nat /\ u = Skipped(b, n) /\ Sound(b.skipped, b.dhr, b.nr)
    BY <1>0, <1>4, <1>6, <1>11
  <2> QED BY <2>1, SkippedKeeps
<1>13. u.nr = n
  BY <1>0, <1>6, <1>8, <1>12
<1>14. /\ t \in EndStates
       /\ t.dhs = u.dhs /\ t.dhr = u.dhr /\ t.rk = u.rk /\ t.cks = u.cks /\ t.ns = u.ns
       /\ t.nr = u.nr + 1 /\ t.skipped = u.skipped /\ t.pn = u.pn
       /\ t.ckr.root = u.ckr.root /\ t.ckr.n = u.ckr.n + 1
  BY <1>3, <1>12, ChainAdvanced
<1>15. Sound(t.skipped, t.dhr, t.nr)
  <2>1. u \in EndStates /\ t.nr = u.nr + 1
    BY <1>12, <1>14
  <2>2. u.skipped \in Seq(Kept) /\ u.dhr \in Nat /\ u.nr \in Nat
    BY ONLY <2>1 DEF EndStates
  <2>3. t.nr \in Nat /\ u.nr <= t.nr
    BY ONLY <2>1, <2>2
  <2>4. Sound(u.skipped, u.dhr, t.nr)
    BY <1>12, <2>2, <2>3, SoundGrows
  <2> QED BY <1>14, <2>4
<1>16. OnlyLeft(s, t, m)
  <2>1. ASSUME NEW i \in 1..Len(s.skipped)
        PROVE  ~(s.skipped[i].dh = m.dh /\ s.skipped[i].n = m.n)
    BY <1>0 DEF HasSkipped
  <2>2. ASSUME NEW j \in 1..Len(t.skipped)
        PROVE  /\ ~(t.skipped[j].dh = m.dh /\ t.skipped[j].n = m.n)
               /\ \/ \E i \in 1..Len(s.skipped) : t.skipped[j] = s.skipped[i]
                  \/ t.skipped[j].dh = s.dhr /\ t.skipped[j].n >= s.nr
                  \/ t.skipped[j].dh > s.dhr
    <3>1. \/ \E i \in 1..Len(s.skipped) : t.skipped[j] = s.skipped[i]
          \/ t.skipped[j].dh = s.dhr /\ t.skipped[j].n >= s.nr
          \/ t.skipped[j].dh = dh /\ t.skipped[j].n < n
      <4>1. \/ \E i \in 1..Len(b.skipped) : t.skipped[j] = b.skipped[i]
            \/ t.skipped[j].dh = dh /\ t.skipped[j].n < n
        BY <1>6, <1>12, <1>14
      <4>2. \A i \in 1..Len(b.skipped) :
              \/ \E h \in 1..Len(s.skipped) : b.skipped[i] = s.skipped[h]
              \/ b.skipped[i].dh = s.dhr /\ b.skipped[i].n >= s.nr
        BY <1>5, <1>6
      <4> QED BY <4>1, <4>2
    <3>2. t.skipped[j].n < n => t.skipped[j].n # n
      BY <1>0
    <3>3. dh > s.dhr /\ dh # s.dhr /\ dh = m.dh /\ n = m.n
      BY <1>0, <1>10 DEF dh, n
    <3>4. ~(t.skipped[j].dh = m.dh /\ t.skipped[j].n = m.n)
      BY <2>1, <3>1, <3>2, <3>3
    <3> QED BY <3>1, <3>3, <3>4
  <2> QED BY <2>2 DEF OnlyLeft
<1>17. t.nr = m.n + 1 /\ t.dhs = k /\ t.dhr = m.dh /\ t.ns = 0
       /\ t.rk = Append(m.mk.root, Dh(k, m.dh)) /\ t.cks.root = t.rk /\ t.cks.n = 0
  BY <1>6, <1>10, <1>12, <1>13, <1>14 DEF n, dh
<1>18. t.pn = s.ns /\ t.ckr.root = m.mk.root /\ t.ckr.n = m.mk.n + 1
  BY <1>2, <1>6, <1>12, <1>14
<1>19. t.skipped = Skipped(Stepped(Skipped(s, m.pn), m.dh, k), m.n).skipped
  BY <1>14 DEF u, b, a, n, pn, dh
<1> QED BY <1>10, <1>14, <1>15, <1>16, <1>17, <1>18, <1>19 DEF rk1, dh

LEMMA PeersAre ==
    /\ \A p \in Sides : Peer(p) \in Sides /\ Peer(p) # p /\ Peer(Peer(p)) = p
    /\ \A p, q \in Sides : q # p => q = Peer(p)
BY DEF Sides, Peer

\* ratchetEncrypt
LEMMA EncryptedIs ==
    ASSUME NEW s \in EndStates, NEW t, t = Encrypted(s)
    PROVE  /\ t \in EndStates
           /\ t.dhs = s.dhs /\ t.dhr = s.dhr /\ t.rk = s.rk /\ t.nr = s.nr
           /\ t.skipped = s.skipped /\ t.pn = s.pn /\ t.ckr = s.ckr
           /\ t.cks.root = s.cks.root /\ t.cks.n = s.cks.n + 1 /\ t.ns = s.ns + 1
<1>1. s.cks \in ChainKeys /\ s.ns \in Nat /\ s.cks.n \in Nat
  BY DEF EndStates, ChainKeys
<1> DEFINE c == [s.cks EXCEPT !.n = @ + 1]
<1>2. s.cks.n + 1 \in Nat /\ s.ns + 1 \in Nat
  BY <1>1
<1>3. c \in ChainKeys /\ c.root = s.cks.root /\ c.n = s.cks.n + 1
  BY <1>1, <1>2, ChainStepped
<1>4. /\ t.dhs = s.dhs /\ t.dhr = s.dhr /\ t.rk = s.rk /\ t.nr = s.nr
      /\ t.skipped = s.skipped /\ t.pn = s.pn /\ t.ckr = s.ckr /\ t.cks = c /\ t.ns = s.ns + 1
      /\ t = [s EXCEPT !.cks = c, !.ns = s.ns + 1]
  BY DEF Encrypted, EndStates
<1> HIDE DEF c
<1>5. t \in EndStates
  BY <1>2, <1>3, <1>4 DEF EndStates
<1> QED BY <1>3, <1>4, <1>5

\* The turns are taken one at a time: a text on the root that s would step to is on the
\* chain the other side sends on, and s has not stepped to it yet.
LEMMA TurnFact ==
    ASSUME NEW p \in Sides, NEW q \in Sides, NEW made, NEW s, NEW r, NEW m,
           EndOk(p, s, made), EndOk(q, r, made), Ahead(s, r) \/ Ahead(r, s),
           TextOk(q, r, m), m.mk.root = RecvRoot(s, m.dh)
    PROVE  Ahead(r, s) /\ m.mk.root = r.rk /\ m.dh = r.dhs /\ m.dh > s.dhr
<1>1. /\ s \in EndStates /\ r \in EndStates /\ IsText(m)
      /\ Len(m.mk.root) < Len(r.rk) \/ (m.mk.root = r.rk /\ m.dh = r.dhs)
  BY DEF EndOk, TextOk
<1>2. /\ s.rk \in Roots /\ r.rk \in Roots /\ s.dhs \in Nat /\ r.dhs \in Nat /\ m.dh \in Nat
      /\ s.dhr \in Nat /\ r.dhr \in Nat
  BY <1>1 DEF EndStates, IsText
<1>3. Len(s.rk) \in Nat /\ Len(r.rk) \in Nat
  BY <1>2, ChainKeysAre
<1>4. Len(m.mk.root) = Len(s.rk) + 1
  <2>1. Len(Append(s.rk, Dh(s.dhs, m.dh))) = Len(s.rk) + 1
    BY <1>2, ChainKeysAre
  <2> QED BY <2>1 DEF RecvRoot
<1>5. Ahead(s, r) => Len(s.rk) = Len(r.rk) + 1
  <2>1. Len(Append(r.rk, Dh(r.dhs, s.dhs))) = Len(r.rk) + 1
    BY <1>2, ChainKeysAre
  <2> QED BY <2>1 DEF Ahead
<1>6. Ahead(r, s) => Len(r.rk) = Len(s.rk) + 1
  <2>1. Len(Append(s.rk, Dh(s.dhs, r.dhs))) = Len(s.rk) + 1
    BY <1>2, ChainKeysAre
  <2> QED BY <2>1 DEF Ahead
<1>7. ~Ahead(s, r)
  <2>1. ~(Len(s.rk) = Len(r.rk) + 1)
    BY <1>1, <1>3, <1>4
  <2> QED BY <1>5, <2>1
<1>8. Ahead(r, s) /\ Len(r.rk) = Len(s.rk) + 1
  BY <1>6, <1>7
<1>9. m.mk.root = r.rk /\ m.dh = r.dhs
  BY <1>1, <1>3, <1>4, <1>8
<1>10. m.dh > s.dhr
  BY <1>2, <1>8, <1>9 DEF Ahead
<1> QED BY <1>8, <1>9, <1>10

LEMMA SpentStays ==
    ASSUME NEW s \in EndStates, NEW t \in EndStates, NEW m, NEW x, IsText(x), Spent(s, x),
           OnlyLeft(s, t, m), t.dhr > s.dhr \/ (t.dhr = s.dhr /\ t.nr >= s.nr)
    PROVE  Spent(t, x)
<1>1. /\ s.dhr \in Nat /\ t.dhr \in Nat /\ s.nr \in Nat /\ t.nr \in Nat /\ x.dh \in Nat
      /\ x.n \in Nat
  BY DEF EndStates, IsText
<1>2. x.dh < s.dhr \/ (x.dh = s.dhr /\ x.n < s.nr)
  BY DEF Spent, PassedOver
<1>3. PassedOver(t, x)
  BY <1>1, <1>2 DEF PassedOver
<1>4. ASSUME NEW j \in 1..Len(t.skipped) PROVE ~(t.skipped[j].dh = x.dh /\ t.skipped[j].n = x.n)
  <2>1. \/ \E i \in 1..Len(s.skipped) : t.skipped[j] = s.skipped[i]
        \/ t.skipped[j].dh = s.dhr /\ t.skipped[j].n >= s.nr
        \/ t.skipped[j].dh > s.dhr
    BY DEF OnlyLeft
  <2>2. CASE \E i \in 1..Len(s.skipped) : t.skipped[j] = s.skipped[i]
    BY <2>2 DEF Spent
  <2>3. CASE t.skipped[j].dh = s.dhr /\ t.skipped[j].n >= s.nr
    BY <1>1, <1>2, <2>3
  <2>4. CASE t.skipped[j].dh > s.dhr
    BY <1>1, <1>2, <2>4
  <2> QED BY <2>1, <2>2, <2>3, <2>4
<1> QED BY <1>3, <1>4 DEF Spent

LEMMA SpentNow ==
    ASSUME NEW s, NEW t, NEW m, OnlyLeft(s, t, m), PassedOver(t, m)
    PROVE  Spent(t, m)
BY DEF OnlyLeft, Spent

LEMMA TwoMore == \A n \in Nat : (n + 2) % 2 = n % 2
OBVIOUS

\* A side's state and all texts on either side of decryptMessage.
OpenedWell(p, s, r, m, t, made) ==
    /\ EndOk(p, t, made) /\ (Ahead(t, r) \/ Ahead(r, t))
    /\ \A x : TextOk(p, s, x) => TextOk(p, t, x)
    /\ Spent(t, m) /\ ~Spent(s, m)
    /\ \A x : IsText(x) /\ Spent(s, x) => Spent(t, x)

\* ratchetDecrypt when the roots stay.
LEMMA OpenedSame ==
    ASSUME NEW p \in Sides, NEW q \in Sides, NEW made \in Nat, NEW s, NEW r, NEW m, NEW t,
           EndOk(p, s, made), EndOk(q, r, made), Ahead(s, r) \/ Ahead(r, s),
           TextOk(q, r, m), t = Decrypted(s, m, made + 1), Outcome(s, m, made + 1) = "ok",
           HasSkipped(s, m) \/ ~NewChain(s, m)
    PROVE  OpenedWell(p, s, r, m, t, made)
<1> DEFINE k == made + 1
<1>1. /\ s \in EndStates /\ r \in EndStates /\ IsText(m) /\ Len(m.mk.root) >= 1 /\ k \in Nat
      /\ Sound(s.skipped, s.dhr, s.nr)
  BY DEF EndOk, TextOk
<1>2. s.nr \in Nat /\ s.dhr \in Nat /\ m.n \in Nat /\ m.dh \in Nat /\ s.skipped \in Seq(Kept)
  BY <1>1 DEF EndStates, IsText
<1>3. /\ t \in EndStates
      /\ t.dhs = s.dhs /\ t.dhr = s.dhr /\ t.rk = s.rk /\ t.cks = s.cks /\ t.ns = s.ns
      /\ t.nr >= s.nr
      /\ Sound(t.skipped, t.dhr, t.nr)
      /\ PassedOver(t, m) /\ ~Spent(s, m)
      /\ OnlyLeft(s, t, m)
  <2>1. CASE HasSkipped(s, m)
    <3>1. /\ t \in EndStates
          /\ t.dhs = s.dhs /\ t.dhr = s.dhr /\ t.rk = s.rk /\ t.cks = s.cks /\ t.ns = s.ns
          /\ t.nr = s.nr
          /\ Sound(t.skipped, t.dhr, t.nr) /\ PassedOver(s, m) /\ OnlyLeft(s, t, m)
      BY <1>1, <2>1, OpenedKept
    <3>2. PassedOver(t, m)
      BY <3>1 DEF PassedOver
    <3>3. ~Spent(s, m)
      BY <1>2, <2>1 DEF HasSkipped, Spent
    <3>4. t.nr >= s.nr
      BY <1>2, <3>1
    <3> QED BY <3>1, <3>2, <3>3, <3>4
  <2>2. CASE ~HasSkipped(s, m)
    <3> HIDE DEF k
    <3>0. t = Decrypted(s, m, k) /\ Outcome(s, m, k) = "ok" /\ ~NewChain(s, m)
      BY <2>2 DEF k
    <3>1. /\ t \in EndStates
          /\ t.dhs = s.dhs /\ t.dhr = s.dhr /\ t.rk = s.rk /\ t.cks = s.cks /\ t.ns = s.ns
          /\ m.dh = s.dhr /\ m.n >= s.nr /\ t.nr = m.n + 1
          /\ Sound(t.skipped, t.dhr, t.nr) /\ OnlyLeft(s, t, m)
      BY <1>1, <2>2, <3>0, OpenedOnChain
    <3>2. t.nr >= s.nr /\ m.n < t.nr /\ ~(m.n < s.nr) /\ ~(m.dh < s.dhr) /\ m.dh = t.dhr
      BY <1>2, <3>1
    <3>3. PassedOver(t, m) /\ ~PassedOver(s, m)
      BY <3>2 DEF PassedOver
    <3> QED BY <3>1, <3>2, <3>3 DEF Spent
  <2> QED BY <2>1, <2>2
<1>4. EndOk(p, t, made)
  BY <1>3 DEF EndOk, CanSend
<1>5. Ahead(t, r) \/ Ahead(r, t)
  BY <1>3 DEF Ahead
<1>6. \A x : TextOk(p, s, x) => TextOk(p, t, x)
  BY <1>3 DEF TextOk
<1>7. Spent(t, m)
  BY <1>3, SpentNow
<1>8. \A x : IsText(x) /\ Spent(s, x) => Spent(t, x)
  <2>1. t.dhr > s.dhr \/ (t.dhr = s.dhr /\ t.nr >= s.nr)
    BY <1>3
  <2> QED BY <1>1, <1>3, <2>1, SpentStays
<1> QED BY <1>3, <1>4, <1>5, <1>6, <1>7, <1>8 DEF OpenedWell

\* ratchetDecrypt when the side takes its turn.
LEMMA OpenedTurn ==
    ASSUME NEW p \in Sides, NEW q \in Sides, NEW made \in Nat, NEW s, NEW r, NEW m, NEW t,
           EndOk(p, s, made), EndOk(q, r, made), Ahead(s, r) \/ Ahead(r, s),
           TextOk(q, r, m), t = Decrypted(s, m, made + 1), Outcome(s, m, made + 1) = "ok",
           ~HasSkipped(s, m), NewChain(s, m)
    PROVE  OpenedWell(p, s, r, m, t, made + 1)
<1> DEFINE k == made + 1
<1>1. /\ s \in EndStates /\ r \in EndStates /\ IsText(m) /\ Len(m.mk.root) >= 1 /\ k \in Nat
      /\ Sound(s.skipped, s.dhr, s.nr) /\ r.dhr <= made /\ s.dhr <= made /\ r.dhs <= made
  BY DEF EndOk, TextOk
<1>2. /\ s.nr \in Nat /\ s.dhr \in Nat /\ m.n \in Nat /\ m.dh \in Nat /\ s.skipped \in Seq(Kept)
      /\ s.rk \in Roots /\ r.rk \in Roots /\ s.dhs \in Nat /\ r.dhs \in Nat /\ r.dhr \in Nat
  BY <1>1 DEF EndStates, IsText
<1>3. t = Decrypted(s, m, k) /\ Outcome(s, m, k) = "ok"
  OBVIOUS
<1>4. m.mk.root = RecvRoot(s, m.dh) =>
        Ahead(r, s) /\ m.mk.root = r.rk /\ m.dh = r.dhs /\ m.dh > s.dhr
  <2> HIDE DEF k
  <2> QED BY TurnFact
<1> HIDE DEF k
<1>5. /\ t \in EndStates
      /\ m.mk.root = RecvRoot(s, m.dh) /\ m.dh > s.dhr
      /\ t.dhs = k /\ t.dhr = m.dh /\ t.nr = m.n + 1 /\ t.ns = 0
      /\ t.rk = Append(m.mk.root, Dh(k, m.dh)) /\ t.cks.root = t.rk /\ t.cks.n = 0
      /\ Sound(t.skipped, t.dhr, t.nr)
      /\ OnlyLeft(s, t, m)
  <2>1. m.mk.root = Append(s.rk, Dh(s.dhs, m.dh)) => m.dh > s.dhr
    BY <1>4 DEF RecvRoot
  <2>2. /\ t \in EndStates
        /\ m.mk.root = Append(s.rk, Dh(s.dhs, m.dh)) /\ m.dh > s.dhr
        /\ t.dhs = k /\ t.dhr = m.dh /\ t.nr = m.n + 1 /\ t.ns = 0
        /\ t.rk = Append(m.mk.root, Dh(k, m.dh)) /\ t.cks.root = t.rk /\ t.cks.n = 0
        /\ Sound(t.skipped, t.dhr, t.nr)
        /\ OnlyLeft(s, t, m)
    BY <1>1, <1>3, <2>1, OpenedNewChain
  <2> QED BY <2>2 DEF RecvRoot
<1>6. Ahead(r, s) /\ m.mk.root = r.rk /\ m.dh = r.dhs
  BY <1>4, <1>5
<1>7. /\ Len(s.rk) \in Nat /\ Len(r.rk) = Len(s.rk) + 1 /\ Len(t.rk) = Len(r.rk) + 1
      /\ t.rk = Append(r.rk, Dh(r.dhs, k))
  <2>1. Len(Append(s.rk, Dh(s.dhs, r.dhs))) = Len(s.rk) + 1 /\ Len(s.rk) \in Nat
    BY <1>2, ChainKeysAre
  <2>2. Len(Append(r.rk, Dh(r.dhs, k))) = Len(r.rk) + 1
    BY <1>1, <1>2, ChainKeysAre
  <2>3. r.rk = Append(s.rk, Dh(s.dhs, r.dhs))
    BY <1>6 DEF Ahead
  <2>4. Dh(k, m.dh) = Dh(r.dhs, k)
    BY <1>6 DEF Dh
  <2>5. t.rk = Append(r.rk, Dh(r.dhs, k))
    BY <1>5, <1>6, <2>4
  <2> QED BY <2>1, <2>2, <2>3, <2>5
<1>8. r.dhr < k /\ t.dhs <= k /\ t.dhr <= k
  BY <1>1, <1>2, <1>5, <1>6 DEF k
<1>9. Ahead(t, r)
  BY <1>5, <1>7, <1>8 DEF Ahead
<1>10. EndOk(p, t, k)
  <2>1. Len(t.rk) = Len(s.rk) + 2 /\ Len(t.rk) >= 1
    BY <1>7
  <2>2. Len(t.rk) % 2 = Parity(p)
    <3>1. Len(s.rk) % 2 = Parity(p)
      BY Zenon DEF EndOk
    <3>2. (Len(s.rk) + 2) % 2 = Len(s.rk) % 2
      BY <1>7, TwoMore
    <3> QED BY <2>1, <3>1, <3>2
  <2>3. t.cks.root = t.rk /\ t.cks.n = t.ns
    BY <1>5
  <2> QED BY <1>5, <1>8, <2>1, <2>2, <2>3 DEF EndOk
<1>11. ASSUME NEW x, TextOk(p, s, x) PROVE TextOk(p, t, x)
  <2>1. IsText(x) /\ (Len(x.mk.root) < Len(s.rk) \/ Len(x.mk.root) = Len(s.rk))
    BY <1>11 DEF TextOk
  <2>2. x.mk.root \in Roots
    BY <2>1 DEF IsText, ChainKeys
  <2>3. Len(x.mk.root) \in Nat
    BY <2>2, ChainKeysAre
  <2>4. Len(x.mk.root) < Len(t.rk)
    BY <1>7, <2>1, <2>3
  <2> QED BY <1>11, <2>4 DEF TextOk
<1>12. Spent(t, m) /\ ~Spent(s, m)
  <2>1. m.n < t.nr /\ ~(m.dh < s.dhr) /\ m.dh # s.dhr
    BY <1>2, <1>5
  <2>2. PassedOver(t, m) /\ ~PassedOver(s, m)
    BY <1>5, <2>1 DEF PassedOver
  <2> QED BY <1>5, <2>2, SpentNow DEF Spent
<1>13. \A x : IsText(x) /\ Spent(s, x) => Spent(t, x)
  <2>1. t.dhr > s.dhr \/ (t.dhr = s.dhr /\ t.nr >= s.nr)
    BY <1>5
  <2> QED BY <1>1, <1>5, <2>1, SpentStays
<1>14. OpenedWell(p, s, r, m, t, k)
  BY <1>9, <1>10, <1>11, <1>12, <1>13 DEF OpenedWell
<1> QED BY <1>14 DEF k

LEMMA ParitiesAre ==
    /\ Parity("alice") = 2 % 2 /\ Parity("bob") = 1 % 2
    /\ \A p, q \in Sides : Parity(p) = Parity(q) => p = q
<1>1. Parity("alice") = 0 /\ Parity("bob") = 1
  BY Zenon DEF Parity
<1>2. 2 % 2 = 0 /\ 1 % 2 = 1 /\ 0 # 1
  OBVIOUS
<1>3. \A p \in Sides : p = "alice" \/ p = "bob"
  BY DEF Sides
<1>4. Parity("alice") # Parity("bob")
  BY <1>1, <1>2
<1>5. \A p, q \in Sides : Parity(p) = Parity(q) => p = q
  BY <1>3, <1>4, Zenon
<1> QED BY <1>1, <1>2, <1>5

LEMMA RatchetInitInv == RatchetInit => RatchetIInv
<1> SUFFICES ASSUME RatchetInit PROVE RatchetIInv
  OBVIOUS
<1> DEFINE root1 == <<Dh(1, 2)>>
           root2 == Append(root1, Dh(3, 1))
<1>1. root1 \in Roots /\ Len(root1) = 1
  BY DEF Dh, Roots
<1>2. root2 \in Roots /\ Len(root2) = 2
  <2> HIDE DEF root1
  <2>1. root2 \in Roots /\ Len(root2) = Len(root1) + 1
    <3>1. 3 \in Nat /\ 1 \in Nat
      OBVIOUS
    <3>2. Dh(3, 1) \in SUBSET Nat
      BY <3>1, ChainKeysAre
    <3> QED BY <1>1, <3>2, ChainKeysAre
  <2> QED BY <1>1, <2>1
<1>3. SharedKey = root1 /\ Append(SharedKey, Dh(3, SignedPreKey)) = root2
  BY DEF SharedKey, SignedPreKey
<1>4. Append(SharedKey, Dh(SignedPreKey, 3)) = root2
  BY <1>3 DEF Dh
<1> HIDE DEF root1, root2
<1>5. Ck(root2, 0) \in ChainKeys /\ NoChain \in ChainKeys /\ << >> \in Seq(Kept)
  BY <1>2, ChainKeysAre
<1>6. AliceInit \in EndStates /\ BobInit \in EndStates
  BY <1>1, <1>2, <1>3, <1>5 DEF AliceInit, BobInit, EndStates, SignedPreKey
<1>7. /\ AliceInit.rk = root2 /\ AliceInit.dhs = 3 /\ AliceInit.dhr = 1
      /\ AliceInit.cks = Ck(root2, 0) /\ AliceInit.ns = 0 /\ AliceInit.skipped = << >>
  BY <1>3 DEF AliceInit, SignedPreKey
<1>8. /\ BobInit.rk = root1 /\ BobInit.dhs = 1 /\ BobInit.dhr = 0 /\ BobInit.cks = NoChain
      /\ BobInit.skipped = << >>
  BY <1>3 DEF BobInit, SignedPreKey
<1>9. \A d, n : Sound(<< >>, d, n)
  BY DEF Sound
<1>10. EndOk("alice", AliceInit, 3)
  <2>1. AliceInit.cks.root = AliceInit.rk /\ AliceInit.cks.n = AliceInit.ns
    BY <1>7, ChainKeysAre
  <2>2. Len(AliceInit.rk) = 2 /\ Len(AliceInit.rk) >= 1
    BY <1>2, <1>7
  <2>3. Len(AliceInit.rk) % 2 = Parity("alice")
    BY <2>2, ParitiesAre
  <2>4. AliceInit.dhs <= 3 /\ AliceInit.dhr <= 3
    BY <1>7
  <2>5. Sound(AliceInit.skipped, AliceInit.dhr, AliceInit.nr)
    BY <1>7, <1>9
  <2> QED BY <1>6, <2>1, <2>2, <2>3, <2>4, <2>5, Zenon DEF EndOk
<1>11. EndOk("bob", BobInit, 3)
  <2>0. Len(BobInit.rk) = 1
    BY <1>1, <1>8
  <2>1. Len(BobInit.rk) >= 1 /\ Len(BobInit.rk) % 2 = Parity("bob")
    BY <2>0, ParitiesAre
  <2>2. ~CanSend(BobInit)
    BY <1>8 DEF CanSend
  <2> QED BY <1>6, <1>8, <1>9, <2>1, <2>2 DEF EndOk
<1>12. Ahead(AliceInit, BobInit)
  <2>1. root2 = Append(root1, Dh(1, 3))
    BY <1>3, <1>4 DEF SignedPreKey
  <2> QED BY <1>7, <1>8, <2>1 DEF Ahead
<1>13. /\ DOMAIN ends = Sides /\ ends["alice"] = AliceInit /\ ends["bob"] = BobInit
       /\ Sides = {"alice", "bob"} /\ Peer("alice") = "bob"
  BY DEF RatchetInit, Sides, Peer
<1>14. wire = {} /\ got = [p \in Sides |-> {}] /\ fresh = 3 /\ again = FALSE
  BY DEF RatchetInit
<1>15. EndsOk
  BY <1>10, <1>11, <1>13, <1>14 DEF EndsOk
<1>16. TurnOk
  BY <1>12, <1>13 DEF TurnOk
<1>17. WireOk /\ GotOk
  BY <1>14 DEF WireOk, GotOk
<1>18. NoKeyTwice /\ NoneOpensTwice
  BY <1>14 DEF NoKeyTwice, NoneOpensTwice
<1> QED BY <1>15, <1>16, <1>17, <1>18 DEF RatchetIInv

\* A step of p's to the state t, from that of the other side.
LEMMA EndsAfter ==
    ASSUME NEW p \in Sides, NEW t, DOMAIN ends = Sides, ends' = [ends EXCEPT ![p] = t]
    PROVE  /\ DOMAIN ends' = Sides /\ ends'[p] = t
           /\ \A q \in Sides : q # p => ends'[q] = ends[q]
OBVIOUS

LEMMA TurnAfter ==
    ASSUME NEW p \in Sides, TurnOk
    PROVE  Ahead(ends[p], ends[Peer(p)]) \/ Ahead(ends[Peer(p)], ends[p])
BY PeersAre DEF TurnOk

LEMMA SendKeeps ==
    ASSUME RatchetIInv, NEW p \in Sides, SendsText(p)
    PROVE  RatchetIInv'
<1> DEFINE s == ends[p]
           t == Encrypted(s)
           q == Peer(p)
           m == [id |-> Cardinality(wire) + 1, from |-> p, dh |-> s.dhs, pn |-> s.pn,
                 n |-> s.ns, mk |-> s.cks]
<1>0. EndsOk /\ TurnOk /\ WireOk /\ GotOk /\ NoKeyTwice /\ NoneOpensTwice
  BY DEF RatchetIInv
<1>1. /\ CanSend(s) /\ wire' = wire \cup {m} /\ ends' = [ends EXCEPT ![p] = t]
      /\ got' = got /\ fresh' = fresh /\ again' = again
  BY DEF SendsText
<1>2. EndOk(p, s, fresh) /\ s \in EndStates /\ s.cks.root = s.rk /\ s.cks.n = s.ns
  BY <1>0, <1>1 DEF EndsOk, EndOk
<1>3. q \in Sides /\ q # p /\ \A x \in Sides : x # p => x = q
  BY PeersAre
<1>4. m.from = p /\ m.dh = s.dhs /\ m.pn = s.pn /\ m.n = s.ns /\ m.mk = s.cks
  OBVIOUS
<1>5. t = Encrypted(s)
  OBVIOUS
<1>6. DOMAIN ends = Sides
  BY <1>0 DEF EndsOk
<1> HIDE DEF m, t
<1>7. DOMAIN ends' = Sides /\ ends'[p] = t /\ \A x \in Sides : x # p => ends'[x] = ends[x]
  BY <1>1, <1>6, EndsAfter
<1> HIDE DEF s
<1>8. /\ t \in EndStates
      /\ t.dhs = s.dhs /\ t.dhr = s.dhr /\ t.rk = s.rk /\ t.nr = s.nr /\ t.skipped = s.skipped
      /\ t.cks.root = s.cks.root /\ t.cks.n = s.cks.n + 1 /\ t.ns = s.ns + 1
  BY <1>2, <1>5, EncryptedIs
<1>9. /\ s.ns \in Nat /\ s.dhs \in Nat /\ s.pn \in Nat /\ s.rk \in Roots /\ s.cks \in ChainKeys
      /\ Len(s.rk) \in Nat
  <2>1. s.ns \in Nat /\ s.dhs \in Nat /\ s.pn \in Nat /\ s.rk \in Roots /\ s.cks \in ChainKeys
    BY <1>2 DEF EndStates
  <2> QED BY <2>1, ChainKeysAre
<1>10. EndOk(p, t, fresh)
  <2>1. t.cks.root = t.rk /\ t.cks.n = t.ns
    BY <1>2, <1>8
  <2> QED BY <1>2, <1>8, <2>1 DEF EndOk
<1>11. EndsOk'
  <2>1. ASSUME NEW x \in Sides PROVE EndOk(x, ends'[x], fresh)
    <3>1. CASE x = p
      BY <1>7, <1>10, <3>1
    <3>2. CASE x # p
      BY <1>0, <1>7, <3>2 DEF EndsOk
    <3> QED BY <3>1, <3>2
  <2> QED BY <1>0, <1>1, <1>7, <2>1 DEF EndsOk
<1>12. TurnOk'
  <2>1. Ahead(s, ends[q]) \/ Ahead(ends[q], s)
    BY <1>0, TurnAfter DEF s
  <2>2. Ahead(t, ends[q]) \/ Ahead(ends[q], t)
    BY <1>8, <2>1 DEF Ahead
  <2>3. ends'[q] = ends[q] /\ ends'[p] = t /\ Peer(q) = p
    BY <1>3, <1>7, PeersAre
  <2>4. \E x \in Sides : Ahead(ends'[x], ends'[Peer(x)])
    BY <1>3, <2>2, <2>3
  <2> QED BY <2>4 DEF TurnOk
<1>13. \A x \in wire : x.from \in Sides /\ TextOk(x.from, ends[x.from], x)
  BY <1>0 DEF WireOk, TextOk, IsText
<1>14. ASSUME NEW x, TextOk(p, s, x) PROVE TextOk(p, t, x)
  <2>1. IsText(x) /\ (x.mk.root = s.rk => Len(x.mk.root) < Len(s.rk) \/ x.n < s.ns)
    BY <1>14 DEF TextOk
  <2>2. x.n \in Nat
    BY <2>1 DEF IsText
  <2>3. x.n < s.ns => x.n < t.ns
    BY <1>8, <1>9, <2>2
  <2> QED BY <1>8, <1>14, <2>3 DEF TextOk
<1>15. TextOk(p, t, m)
  <2>1. IsText(m)
    BY <1>4, <1>9 DEF IsText
  <2>2. m.n < t.ns
    BY <1>4, <1>8, <1>9
  <2>3. Len(s.rk) >= 1 /\ Len(s.rk) % 2 = Parity(p)
    BY <1>2 DEF EndOk
  <2>4. m.mk.n = m.n /\ m.mk.root = s.rk /\ m.dh = t.dhs /\ t.rk = s.rk
    BY <1>2, <1>4, <1>8
  <2>5. Len(m.mk.root) >= 1 /\ Len(m.mk.root) % 2 = Parity(p)
    BY <2>3, <2>4
  <2> QED BY <2>1, <2>2, <2>4, <2>5 DEF TextOk
<1>16. WireOk'
  <2>1. ASSUME NEW x \in wire' PROVE TextOk(x.from, ends'[x.from], x)
    <3>1. CASE x = m
      BY <1>4, <1>7, <1>15, <3>1
    <3>2. CASE x \in wire /\ x.from = p
      BY <1>7, <1>13, <1>14, <3>2 DEF s
    <3>3. CASE x \in wire /\ x.from # p
      BY <1>7, <1>13, <3>3
    <3> QED BY <1>1, <3>1, <3>2, <3>3
  <2> QED BY <2>1 DEF WireOk
<1>17. GotOk'
  <2>1. \A x : Spent(s, x) => Spent(t, x)
    BY <1>8 DEF Spent, PassedOver
  <2>2. ASSUME NEW o \in Sides, NEW x \in got[o]
        PROVE  x \in wire' /\ x.from = Peer(o) /\ Spent(ends'[o], x)
    <3>1. x \in wire /\ x.from = Peer(o) /\ Spent(ends[o], x)
      BY <1>0 DEF GotOk
    <3>2. Spent(ends'[o], x)
      BY <1>7, <2>1, <3>1 DEF s
    <3> QED BY <1>1, <3>1, <3>2
  <2> QED BY <1>0, <1>1, <2>2 DEF GotOk
<1>18. ASSUME NEW x \in wire, x.mk = m.mk PROVE FALSE
  <2>1. x.mk.root = s.rk /\ x.mk.n = s.ns /\ x.from \in Sides /\ TextOk(x.from, ends[x.from], x)
    BY <1>2, <1>4, <1>13, <1>18
  <2>2. Len(x.mk.root) % 2 = Parity(x.from)
    BY <2>1, Zenon DEF TextOk
  <2>3. Len(s.rk) % 2 = Parity(p)
    BY <1>2, Zenon DEF EndOk
  <2>4. x.from = p
    BY <2>1, <2>2, <2>3, ParitiesAre
  <2>5. x.mk.n = x.n /\ (Len(x.mk.root) < Len(s.rk) \/ x.n < s.ns)
    BY <2>1, <2>4 DEF TextOk, s
  <2> QED BY <1>9, <2>1, <2>5
<1>19. NoKeyTwice'
  BY <1>0, <1>1, <1>18 DEF NoKeyTwice
<1>20. NoneOpensTwice'
  BY <1>0, <1>1 DEF NoneOpensTwice
<1> QED BY <1>11, <1>12, <1>16, <1>17, <1>19, <1>20 DEF RatchetIInv

LEMMA OpenKeeps ==
    ASSUME RatchetIInv, NEW p \in Sides, NEW m \in wire, Opens(p, m)
    PROVE  RatchetIInv'
<1> DEFINE s == ends[p]
           q == Peer(p)
           r == ends[q]
           t == Decrypted(s, m, fresh + 1)
           new == NewChain(s, m) /\ ~HasSkipped(s, m)
           made == IF new THEN fresh + 1 ELSE fresh
<1>0. EndsOk /\ TurnOk /\ WireOk /\ GotOk /\ NoKeyTwice /\ NoneOpensTwice
  BY DEF RatchetIInv
<1>1. /\ m.from # p /\ Outcome(s, m, fresh + 1) = "ok"
      /\ wire' = wire /\ ends' = [ends EXCEPT ![p] = t]
      /\ got' = [got EXCEPT ![p] = @ \cup {m}]
      /\ fresh' = made /\ again' = (again \/ m \in got[p])
  BY DEF Opens
<1>2. t = Decrypted(s, m, fresh + 1)
  OBVIOUS
<1>3. \A x \in wire : x.from \in Sides /\ TextOk(x.from, ends[x.from], x) /\ IsText(x)
  BY <1>0 DEF WireOk, TextOk, IsText
<1>4. q \in Sides /\ q # p /\ m.from = q /\ Peer(q) = p /\ \A x \in Sides : x # p => x = q
  BY <1>1, <1>3, PeersAre
<1>5. /\ DOMAIN ends = Sides /\ fresh \in Nat /\ EndOk(p, s, fresh) /\ EndOk(q, r, fresh)
  BY <1>0, <1>4 DEF EndsOk
<1>6. TextOk(q, r, m) /\ (Ahead(s, r) \/ Ahead(r, s))
  BY <1>0, <1>3, <1>4, TurnAfter
<1> HIDE DEF t
<1>7. DOMAIN ends' = Sides /\ ends'[p] = t /\ \A x \in Sides : x # p => ends'[x] = ends[x]
  BY <1>1, <1>5, EndsAfter
<1> HIDE DEF s, r, q
<1>8. made \in Nat /\ fresh <= made
  BY <1>5
<1>9. OpenedWell(p, s, r, m, t, made)
  <2>1. CASE new
    <3>1. ~HasSkipped(s, m) /\ NewChain(s, m) /\ made = fresh + 1
      BY <2>1
    <3> QED BY <1>1, <1>2, <1>4, <1>5, <1>6, <3>1, OpenedTurn
  <2>2. CASE ~new
    <3>1. (HasSkipped(s, m) \/ ~NewChain(s, m)) /\ made = fresh
      BY <2>2
    <3> QED BY <1>1, <1>2, <1>4, <1>5, <1>6, <3>1, OpenedSame
  <2> QED BY <2>1, <2>2
<1> HIDE DEF made, new
<1>10. /\ EndOk(p, t, made) /\ (Ahead(t, r) \/ Ahead(r, t))
       /\ \A x : TextOk(p, s, x) => TextOk(p, t, x)
       /\ Spent(t, m) /\ ~Spent(s, m)
       /\ \A x : IsText(x) /\ Spent(s, x) => Spent(t, x)
  BY <1>9 DEF OpenedWell
<1>11. EndOk(q, r, made)
  <2>1. r \in EndStates /\ r.dhs <= fresh /\ r.dhr <= fresh
    BY <1>5 DEF EndOk
  <2>2. r.dhs \in Nat /\ r.dhr \in Nat
    BY <2>1 DEF EndStates
  <2>3. r.dhs <= made /\ r.dhr <= made
    BY <1>5, <1>8, <2>1, <2>2
  <2> QED BY <1>5, <2>3 DEF EndOk
<1>12. ends'[q] = r
  BY <1>4, <1>7 DEF r
<1>13. EndsOk'
  <2>1. ASSUME NEW x \in Sides PROVE EndOk(x, ends'[x], made)
    BY <1>4, <1>7, <1>10, <1>11, <1>12
  <2> QED BY <1>1, <1>7, <1>8, <2>1 DEF EndsOk
<1>14. TurnOk'
  <2>1. \E x \in Sides : Ahead(ends'[x], ends'[Peer(x)])
    BY <1>4, <1>7, <1>10, <1>12 DEF q
  <2> QED BY <2>1 DEF TurnOk
<1>15. WireOk'
  <2>1. ASSUME NEW x \in wire PROVE TextOk(x.from, ends'[x.from], x)
    <3>1. CASE x.from = p
      BY <1>3, <1>7, <1>10, <3>1 DEF s
    <3>2. CASE x.from # p
      BY <1>3, <1>7, <3>2
    <3> QED BY <3>1, <3>2
  <2> QED BY <1>1, <2>1 DEF WireOk
<1>16. /\ DOMAIN got = Sides
       /\ \A o \in Sides : \A x \in got[o] : x \in wire /\ x.from = Peer(o) /\ Spent(ends[o], x)
  BY <1>0 DEF GotOk
<1>17. GotOk'
  <2>1. DOMAIN got' = Sides /\ got'[p] = got[p] \cup {m}
        /\ \A o \in Sides : o # p => got'[o] = got[o]
    BY <1>1, <1>16
  <2>2. ASSUME NEW o \in Sides, NEW x \in got'[o]
        PROVE  x \in wire /\ x.from = Peer(o) /\ Spent(ends'[o], x)
    <3>1. CASE o = p /\ x = m
      BY <1>4, <1>7, <1>10, <3>1 DEF q
    <3>2. CASE o = p /\ x \in got[p]
      <4>1. x \in wire /\ x.from = Peer(p) /\ Spent(s, x) /\ IsText(x)
        BY <1>3, <1>16, <3>2 DEF s
      <4> QED BY <1>7, <1>10, <3>2, <4>1
    <3>3. CASE o # p
      BY <1>7, <1>16, <2>1, <3>3
    <3> QED BY <2>1, <3>1, <3>2, <3>3
  <2> QED BY <1>1, <2>1, <2>2 DEF GotOk
<1>18. m \notin got[p]
  BY <1>10, <1>16 DEF s
<1>19. NoneOpensTwice'
  BY <1>0, <1>1, <1>18, Zenon DEF NoneOpensTwice
<1>20. NoKeyTwice'
  BY <1>0, <1>1 DEF NoKeyTwice
<1> QED BY <1>13, <1>14, <1>15, <1>17, <1>19, <1>20 DEF RatchetIInv

LEMMA RatchetIInvStep == RatchetIInv /\ [RatchetNext]_ratchetVars => RatchetIInv'
<1> SUFFICES ASSUME RatchetIInv, [RatchetNext]_ratchetVars PROVE RatchetIInv'
  OBVIOUS
<1>1. CASE RatchetNext
  BY <1>1, SendKeeps, OpenKeeps DEF RatchetNext
<1>2. CASE UNCHANGED ratchetVars
  BY <1>2 DEF ratchetVars, RatchetIInv, EndsOk, TurnOk, WireOk, GotOk, NoKeyTwice,
              NoneOpensTwice, Spent, PassedOver
<1> QED BY <1>1, <1>2

\* Between the two phones, whatever is delivered, late, again or never, and however often
\* the turn changes, no two messages are encrypted with one key (ratchetEncrypt and
\* dhRatchet).
THEOREM RatchetNoKeyTwice == RatchetSpec => []NoKeyTwice
<1>1. RatchetIInv => NoKeyTwice
  BY DEF RatchetIInv
<1> QED BY <1>1, RatchetInitInv, RatchetIInvStep, PTL DEF RatchetSpec

\* No message is decrypted twice: a kept key goes with its message, the chain moves past
\* one it has read, and an old chain is never stepped to again (ratchetDecrypt).
THEOREM RatchetNoneOpensTwice == RatchetSpec => []NoneOpensTwice
<1>1. RatchetIInv => NoneOpensTwice
  BY DEF RatchetIInv
<1> QED BY <1>1, RatchetInitInv, RatchetIInvStep, PTL DEF RatchetSpec
-----------------------------------------------------------------------------
(* That every text opens *)

\* A message of q with the x-th key of the chain of its key pair d is on the way.
Sent(texts, q, d, x) == \E m \in texts : m.from = q /\ m.dh = d /\ m.n = x

\* The texts from q, in state r, to the other side, in state s.
Chained(m, r, s) ==
    /\ m.mk.root # r.rk => m.dh < r.dhs
    /\ m.mk.root = r.rk => m.pn = r.pn
    /\ m.mk.root # r.rk /\ Ahead(r, s) => m.dh <= s.dhr /\ (m.dh = s.dhr => m.n < r.pn)
    /\ m.dh = s.dhr => s.ckr.root = m.mk.root /\ s.ckr.n = s.nr

\* What s receives on is what r sends on, and all r has sent on it is on the way.
Follows(texts, q, r, s) ==
    /\ Ahead(s, r) => s.dhr = r.dhs
    /\ s.dhr = r.dhs => s.nr <= r.ns
    /\ CanSend(r) /\ s.dhr = r.dhs => s.ckr.root = r.rk /\ s.ckr.n = s.nr
    /\ \A x \in Nat : x < r.ns => Sent(texts, q, r.dhs, x)
    /\ Ahead(r, s) => \A x \in Nat : x < r.pn => Sent(texts, q, s.dhr, x)

\* The keys kept are those of the texts passed over, in the order they were sent.
Sorted(q) == \A i, j \in 1..Len(q) : i < j => Before(q[i], q[j])
OfText(e, m) == e.dh = m.dh /\ e.n = m.n /\ e.mk = m.mk
Unread(texts, read, p, m) == m \in texts /\ m.from = Peer(p) /\ m \notin read

\* Those of W sent after x.
Newer(W, x) == {y \in W : Before(x, y)}

KeptOk(texts, read, gone, p, s) ==
    /\ Sorted(s.skipped)
    /\ \A i \in 1..Len(s.skipped) : \E m \in texts : Unread(texts, read, p, m) /\ OfText(s.skipped[i], m)
    /\ \A m \in texts : Unread(texts, read, p, m) /\ PassedOver(s, m) /\ m \notin gone
         => \E i \in 1..Len(s.skipped) : OfText(s.skipped[i], m)

TextsDiffer == \A m, x \in wire : m.from = x.from /\ m.dh = x.dh /\ m.n = x.n => m = x

TextsIInv ==
    /\ IsFiniteSet(wire) /\ TextsDiffer
    /\ \A m \in wire : Chained(m, ends[m.from], ends[Peer(m.from)])
    /\ \A q \in Sides : Follows(wire, q, ends[q], ends[Peer(q)])
    /\ \A p \in Sides : KeptOk(wire, got[p], lost, p, ends[p])

LEMMA AtLeast ==
    ASSUME NEW W, IsFiniteSet(W), NEW a \in Nat, NEW b \in Nat, a <= b,
           NEW f \in [a..b -> W], \A i, j \in a..b : f[i] = f[j] => i = j
    PROVE  Cardinality(W) \in Nat /\ b - a + 1 <= Cardinality(W)
<1>1. IsFiniteSet(a..b) /\ Cardinality(a..b) = b - a + 1
  <2>1. a \in Int /\ b \in Int /\ ~(a > b)
    OBVIOUS
  <2> QED BY <2>1, FS_Interval
<1>2. Cardinality(W) \in Nat
  BY FS_CardinalityType
<1>3. ~(Cardinality(W) < Cardinality(a..b))
  BY <1>1, FS_PigeonHole
<1> QED BY <1>1, <1>2, <1>3

\* More than MAX_SKIP messages of one chain, before m and not passed over.
LEMMA FarWhen ==
    ASSUME IsFiniteSet(wire), NEW p, NEW m, NEW d \in Nat, NEW n1 \in Nat, NEW n2 \in Nat,
           n2 > n1 + MAX_SKIP,
           \A x \in Nat : x < n2 => Sent(wire, m.from, d, x),
           \A y : y.dh = d /\ y.n \in Nat /\ y.n >= n1 /\ y.n < n2
                    => Before(y, m) /\ ~PassedOver(ends[p], y)
    PROVE  FarAhead(p, m)
<1> DEFINE Of(x) == {y \in wire : /\ y.dh = x.dh /\ y.from = m.from
                                  /\ Before(y, m) /\ ~PassedOver(ends[p], y)}
           b == n2 - 1
<1>0. MAX_SKIP \in Nat /\ b \in Nat /\ n1 <= b
  BY RatchetBounds
<1>1. PICK x \in wire : x.dh = d
  <2>1. Sent(wire, m.from, d, n1)
    BY <1>0
  <2> QED BY <2>1 DEF Sent
<1> DEFINE W == Of(x)
           f == [i \in n1..b |-> CHOOSE y \in W : y.n = i]
<1>2. ASSUME NEW i \in n1..b PROVE \E y \in W : y.n = i
  <2>1. i \in Nat /\ i < n2 /\ i >= n1
    BY <1>0
  <2>2. PICK y \in wire : y.from = m.from /\ y.dh = d /\ y.n = i
    BY <2>1 DEF Sent
  <2>3. Before(y, m) /\ ~PassedOver(ends[p], y)
    BY <2>1, <2>2
  <2> QED BY <1>1, <2>2, <2>3
<1>3. IsFiniteSet(W)
  BY FS_Subset
<1> HIDE DEF W
<1>4. \A i \in n1..b : f[i] \in W /\ f[i].n = i
  BY <1>2, Zenon
<1>5. f \in [n1..b -> W] /\ \A i, j \in n1..b : f[i] = f[j] => i = j
  <2>1. f \in [n1..b -> W]
    BY <1>4
  <2> HIDE DEF f
  <2>2. \A i, j \in n1..b : f[i] = f[j] => i = j
    BY <1>4
  <2> QED BY <2>1, <2>2
<1> HIDE DEF f
<1>6. Cardinality(W) \in Nat /\ b - n1 + 1 <= Cardinality(W)
  <2> HIDE DEF b
  <2> QED BY <1>0, <1>3, <1>5, AtLeast
<1>7. Cardinality(W) > MAX_SKIP
  BY <1>0, <1>6
<1> QED BY <1>1, <1>7 DEF W, FarAhead

LEMMA SkippedTo ==
    ASSUME NEW s \in EndStates, NEW until \in Nat, NEW t, t = Skipped(s, until), until >= s.nr,
           s.ckr # NoChain
    PROVE  t.ckr = Ck(s.ckr.root, s.ckr.n + (until - s.nr))
<1>0. s.ckr \in ChainKeys /\ s.nr \in Nat /\ s.ckr.n \in Nat /\ s.ckr = Ck(s.ckr.root, s.ckr.n)
  <2>1. s.ckr \in ChainKeys /\ s.nr \in Nat
    BY DEF EndStates
  <2> QED BY <2>1, ChainKeysAre DEF ChainKeys
<1>1. CASE until <= s.nr
  <2>1. t = s
    BY <1>1 DEF Skipped
  <2>2. s.ckr.n + (until - s.nr) = s.ckr.n
    BY <1>0, <1>1
  <2> QED BY <1>0, <2>1, <2>2
<1>2. CASE ~(until <= s.nr)
  <2> DEFINE c == [s.ckr EXCEPT !.n = @ + (until - s.nr)]
             keys == [i \in 1..(until - s.nr) |->
                        [dh |-> s.dhr, n |-> s.nr + i - 1, mk |-> [s.ckr EXCEPT !.n = @ + i - 1]]]
             kept == LastOf(s.skipped \o keys, MAX_SKIPPED_KEYS)
  <2>1. t = [s EXCEPT !.ckr.n = @ + (until - s.nr), !.nr = until, !.skipped = kept]
    BY <1>2, Zenon DEF Skipped, LastOf
  <2> HIDE DEF kept
  <2>2. t.ckr = c
    BY <2>1 DEF EndStates
  <2>3. s.ckr.n + (until - s.nr) \in Nat
    BY <1>0, <1>2
  <2>4. c \in ChainKeys /\ c.root = s.ckr.root /\ c.n = s.ckr.n + (until - s.nr)
    BY <1>0, <2>3, ChainStepped
  <2> HIDE DEF c
  <2>5. c = Ck(c.root, c.n)
    BY <2>4, ChainKeysAre
  <2> QED BY <2>2, <2>4, <2>5
<1> QED BY <1>1, <1>2

\* A kept key opens its text.
LEMMA KeptOpens ==
    ASSUME NEW s \in EndStates, NEW m, NEW k, Sound(s.skipped, s.dhr, s.nr),
           NEW i \in 1..Len(s.skipped), OfText(s.skipped[i], m)
    PROVE  Outcome(s, m, k) = "ok"
<1>1. s.skipped \in Seq(Kept) /\ DOMAIN s.skipped = 1..Len(s.skipped)
  BY DEF EndStates
<1>2. s.skipped[i].dh = m.dh /\ s.skipped[i].n = m.n /\ s.skipped[i].mk = m.mk
  BY DEF OfText
<1>3. HasSkipped(s, m)
  BY <1>1, <1>2 DEF HasSkipped
<1> DEFINE j == SkippedAt(s, m)
<1>4. j \in 1..Len(s.skipped) /\ s.skipped[j].dh = m.dh /\ s.skipped[j].n = m.n
  BY <1>1, <1>2, Zenon DEF SkippedAt
<1> HIDE DEF j
<1>5. i = j
  BY <1>2, <1>4 DEF Sound
<1>6. s.skipped[SkippedAt(s, m)].mk = m.mk
  BY <1>2, <1>5 DEF j
<1> QED BY <1>3, <1>6 DEF Outcome

LEMMA EveryTextOpensNow == RatchetIInv /\ TextsIInv => EveryTextOpens
<1> SUFFICES ASSUME RatchetIInv, TextsIInv, NEW p \in Sides, NEW m \in wire,
                    m.from # p, m \notin got[p], m \notin lost, ~FarAhead(p, m)
             PROVE  Outcome(ends[p], m, fresh + 1) = "ok"
  BY DEF EveryTextOpens
<1> DEFINE s == ends[p]
           q == Peer(p)
           r == ends[q]
           k == fresh + 1
           n == m.n
           pn == m.pn
<1>0. EndsOk /\ TurnOk /\ WireOk
  BY DEF RatchetIInv
<1>1. m.from \in Sides /\ TextOk(m.from, ends[m.from], m) /\ IsText(m)
  BY <1>0 DEF WireOk, TextOk, IsText
<1>2. m.from = q /\ Peer(q) = p /\ q \in Sides
  BY <1>1, PeersAre
<1>3. /\ IsFiniteSet(wire) /\ Chained(m, r, s) /\ Follows(wire, q, r, s) /\ KeptOk(wire, got[p], lost, p, s)
  BY <1>2 DEF TextsIInv
<1>4. TextOk(q, r, m) /\ (Ahead(s, r) \/ Ahead(r, s)) /\ k \in Nat
  BY <1>0, <1>1, <1>2, TurnAfter DEF EndsOk
<1>5. EndOk(p, s, fresh) /\ EndOk(q, r, fresh)
  BY <1>0, <1>2 DEF EndsOk
<1> HIDE DEF k
<1>6. /\ s \in EndStates /\ r \in EndStates /\ Sound(s.skipped, s.dhr, s.nr)
      /\ Len(m.mk.root) >= 1 /\ m.mk.n = m.n
      /\ Len(m.mk.root) < Len(r.rk) \/ (m.mk.root = r.rk /\ m.dh = r.dhs /\ m.n < r.ns)
  BY <1>4, <1>5 DEF EndOk, TextOk
<1>7. /\ s.nr \in Nat /\ s.dhr \in Nat /\ r.ns \in Nat /\ r.pn \in Nat /\ m.dh \in Nat
      /\ n \in Nat /\ pn \in Nat /\ s.skipped \in Seq(Kept) /\ r.dhs \in Nat /\ s.rk \in Roots
      /\ r.rk \in Roots /\ s.dhs \in Nat /\ m.mk \in ChainKeys
  BY <1>1, <1>6 DEF EndStates, IsText
<1>8. Unread(wire, got[p], p, m)
  BY <1>2 DEF Unread
<1>9. NoChain.root = NoKey /\ Len(NoKey) = 0 /\ m.mk = Ck(m.mk.root, m.mk.n)
  BY <1>7, ChainKeysAre
<1>10. CASE PassedOver(s, m)
  <2>1. PICK i \in 1..Len(s.skipped) : OfText(s.skipped[i], m)
    BY <1>3, <1>8, <1>10 DEF KeptOk
  <2> HIDE DEF s
  <2>2. Outcome(s, m, k) = "ok"
    BY <1>6, <2>1, KeptOpens
  <2> QED BY <2>2 DEF s, k
<1>11. CASE ~PassedOver(s, m)
  <2>1. ~HasSkipped(s, m)
    <3>1. DOMAIN s.skipped = 1..Len(s.skipped)
      BY <1>7
    <3> QED BY <1>6, <1>11, <3>1 DEF HasSkipped, Sound, PassedOver
  <2>2. CASE m.dh = s.dhr
    <3>1. n >= s.nr /\ ~NewChain(s, m) /\ ~(m.n < s.nr)
      BY <1>7, <1>11, <2>2 DEF PassedOver, NewChain
    <3>2. s.ckr.root = m.mk.root /\ s.ckr.n = s.nr
      BY <1>3, <2>2 DEF Chained
    <3>3. s.ckr # NoChain
      BY <1>6, <1>9, <3>2
    <3>4. \A x \in Nat : x < n => Sent(wire, q, m.dh, x)
      <4>1. CASE m.mk.root = r.rk
        <5>1. m.dh = r.dhs /\ n < r.ns
          BY <1>6, <4>1, <1>7, ChainKeysAre
        <5>2. \A x \in Nat : x < n => x < r.ns
          BY <1>7, <5>1
        <5> QED BY <1>3, <5>1, <5>2 DEF Follows
      <4>2. CASE m.mk.root # r.rk
        <5>1. m.dh < r.dhs
          BY <1>3, <4>2 DEF Chained
        <5>2. s.dhr # r.dhs
          BY <1>7, <2>2, <5>1
        <5>3. Ahead(r, s)
          BY <1>3, <1>4, <5>2 DEF Follows
        <5>4. n < r.pn
          BY <1>3, <2>2, <4>2, <5>3 DEF Chained
        <5>5. \A x \in Nat : x < n => x < r.pn
          BY <1>7, <5>4
        <5> QED BY <1>3, <2>2, <5>3, <5>5 DEF Follows
      <4> QED BY <4>1, <4>2
    <3>5. ~TooFar(s, n)
      <4>1. ASSUME n > s.nr + MAX_SKIP PROVE FALSE
        <5>1. \A y : y.dh = m.dh /\ y.n \in Nat /\ y.n >= s.nr /\ y.n < n
                       => Before(y, m) /\ ~PassedOver(ends[p], y)
          BY <1>7, <2>2 DEF Before, PassedOver
        <5>2. \A x \in Nat : x < n => Sent(wire, m.from, m.dh, x)
          BY <1>2, <3>4
        <5> DEFINE nr == s.nr
                   d == m.dh
        <5>3. nr \in Nat /\ d \in Nat /\ n > nr + MAX_SKIP
          BY <1>7, <4>1
        <5>4. \A y : y.dh = d /\ y.n \in Nat /\ y.n >= nr /\ y.n < n
                       => Before(y, m) /\ ~PassedOver(ends[p], y)
          BY <5>1
        <5> HIDE DEF nr, n, s, d
        <5>5. FarAhead(p, m)
          BY <1>3, <1>7, <5>2, <5>3, <5>4, FarWhen DEF d
        <5> QED BY <5>5
      <4> QED BY <4>1 DEF TooFar
    <3> DEFINE u == Skipped(s, n)
    <3>6. u.ckr = m.mk
      <4>1. u = Skipped(s, n) /\ s \in EndStates /\ n >= s.nr /\ s.ckr # NoChain /\ n \in Nat
        BY <1>6, <1>7, <3>1, <3>3
      <4> HIDE DEF u, n, s
      <4>2. u.ckr = Ck(s.ckr.root, s.ckr.n + (n - s.nr))
        BY <4>1, SkippedTo
      <4>3. s.ckr.n + (n - s.nr) = n
        BY <1>7, <3>2
      <4> QED BY <1>6, <1>9, <3>2, <4>2, <4>3 DEF n
    <3>7. OnChain(s, m, k) = s
      BY <3>1 DEF OnChain
    <3>8. Outcome(s, m, k) = "ok"
      BY <2>1, <3>1, <3>5, <3>6, <3>7 DEF Outcome
    <3> QED BY <3>8 DEF k
  <2>3. CASE m.dh # s.dhr
    <3>1. m.dh > s.dhr /\ NewChain(s, m)
      BY <1>7, <1>11, <2>3 DEF PassedOver, NewChain
    <3>2. m.mk.root = r.rk
      <4>1. ASSUME m.mk.root # r.rk PROVE FALSE
        <5>1. m.dh < r.dhs /\ (Ahead(r, s) => m.dh <= s.dhr)
          BY <1>3, <4>1 DEF Chained
        <5>2. Ahead(s, r) => s.dhr = r.dhs
          BY <1>3 DEF Follows
        <5> QED BY <1>4, <1>7, <3>1, <5>1, <5>2
      <4> QED BY <4>1
    <3>3. m.dh = r.dhs /\ m.n < r.ns /\ m.pn = r.pn
      <4>1. m.dh = r.dhs /\ m.n < r.ns
        BY <1>6, <1>7, <3>2, ChainKeysAre
      <4> QED BY <1>3, <3>2, <4>1 DEF Chained
    <3>4. Ahead(r, s)
      <4>1. s.dhr # r.dhs
        BY <2>3, <3>3
      <4> QED BY <1>3, <1>4, <4>1 DEF Follows
    <3>5. ~TooFar(s, pn)
      <4>1. ASSUME pn > s.nr + MAX_SKIP PROVE FALSE
        <5>1. \A y : y.dh = s.dhr /\ y.n \in Nat /\ y.n >= s.nr /\ y.n < pn
                       => Before(y, m) /\ ~PassedOver(ends[p], y)
          BY <1>7, <3>1 DEF Before, PassedOver
        <5>2. \A x \in Nat : x < pn => Sent(wire, m.from, s.dhr, x)
          BY <1>2, <1>3, <3>3, <3>4 DEF Follows
        <5> DEFINE nr == s.nr
                   d == s.dhr
        <5>3. nr \in Nat /\ d \in Nat /\ pn > nr + MAX_SKIP
          BY <1>7, <4>1
        <5>4. \A y : y.dh = d /\ y.n \in Nat /\ y.n >= nr /\ y.n < pn
                       => Before(y, m) /\ ~PassedOver(ends[p], y)
          BY <5>1
        <5>5. \A x \in Nat : x < pn => Sent(wire, m.from, d, x)
          BY <5>2
        <5> HIDE DEF nr, pn, s, d
        <5>6. FarAhead(p, m)
          BY <1>3, <1>7, <5>3, <5>4, <5>5, FarWhen
        <5> QED BY <5>6
      <4> QED BY <4>1 DEF TooFar
    <3> DEFINE a == Skipped(s, pn)
               b == Stepped(a, m.dh, k)
               u == Skipped(b, n)
               dh == m.dh
    <3>6. a = Skipped(s, pn) /\ b = Stepped(a, dh, k) /\ u = Skipped(b, n) /\ dh \in Nat
      BY <1>7
    <3>7. OnChain(s, m, k) = b
      BY <3>1 DEF OnChain
    <3>8. m.mk.root = RecvRoot(s, m.dh)
      BY <3>2, <3>3, <3>4 DEF Ahead, RecvRoot
    <3> HIDE DEF a, b, u, dh
    <3>9. a \in EndStates /\ a.rk = s.rk /\ a.dhs = s.dhs
      <4> HIDE DEF pn, s
      <4> QED BY <1>6, <1>7, <3>6, SkippedKeeps
    <3>10. b \in EndStates /\ SteppedTo(a, dh, k, b)
      BY <1>4, <3>6, <3>9, SteppedIs
    <3>11. b.ckr.root = m.mk.root /\ b.ckr.n = 0 /\ b.nr = 0
      BY <3>8, <3>9, <3>10 DEF SteppedTo, RecvRoot, dh
    <3>12. ~TooFar(b, n)
      <4>1. ASSUME n > 0 + MAX_SKIP PROVE FALSE
        <5>1. \A y : y.dh = m.dh /\ y.n \in Nat /\ y.n >= 0 /\ y.n < n
                       => Before(y, m) /\ ~PassedOver(ends[p], y)
          BY <1>7, <3>1 DEF Before, PassedOver
        <5>2. \A x \in Nat : x < n => Sent(wire, m.from, m.dh, x)
          <6>1. \A x \in Nat : x < n => x < r.ns
            BY <1>7, <3>3
          <6> QED BY <1>2, <1>3, <3>3, <6>1 DEF Follows
        <5>3. \A y : y.dh = dh /\ y.n \in Nat /\ y.n >= 0 /\ y.n < n
                       => Before(y, m) /\ ~PassedOver(ends[p], y)
          BY <5>1 DEF dh
        <5>4. \A x \in Nat : x < n => Sent(wire, m.from, dh, x)
          BY <5>2 DEF dh
        <5>5. 0 \in Nat
          OBVIOUS
        <5> HIDE DEF n
        <5>6. FarAhead(p, m)
          BY <1>3, <1>7, <3>6, <4>1, <5>3, <5>4, <5>5, FarWhen
        <5> QED BY <5>6
      <4> QED BY <3>11, <4>1 DEF TooFar
    <3>13. u.ckr = m.mk
      <4>1. b.ckr # NoChain /\ n >= b.nr
        BY <1>6, <1>7, <1>9, <3>11
      <4>2. u.ckr = Ck(b.ckr.root, b.ckr.n + (n - b.nr))
        <5> HIDE DEF n
        <5> QED BY <1>7, <3>6, <3>10, <4>1, SkippedTo
      <4>3. b.ckr.n + (n - b.nr) = n
        BY <1>7, <3>11
      <4> QED BY <1>6, <1>9, <3>11, <4>2, <4>3 DEF n
    <3>14. Skipped(OnChain(s, m, k), m.n).ckr = m.mk /\ ~TooFar(OnChain(s, m, k), m.n)
           /\ ~TooFar(s, m.pn)
      BY <3>5, <3>6, <3>7, <3>12, <3>13
    <3> HIDE DEF s
    <3>15. Outcome(s, m, k) = "ok"
      BY <2>1, <3>1, <3>14, Zenon DEF Outcome
    <3> QED BY <3>15 DEF s, k
  <2> QED BY <2>2, <2>3
<1> QED BY <1>10, <1>11

LEMMA BeforeOrders ==
    /\ \A e, f \in Kept : Before(e, f) => e.dh # f.dh \/ e.n # f.n
    /\ \A e, f, x, y : OfText(e, x) /\ OfText(f, y) /\ Before(e, f) => Before(x, y)
<1>1. \A e \in Kept : e.dh \in Nat /\ e.n \in Nat
  BY DEF Kept
<1>2. \A e, f \in Kept : Before(e, f) => e.dh # f.dh \/ e.n # f.n
  BY <1>1 DEF Before
<1>3. \A e, f, x, y : OfText(e, x) /\ OfText(f, y) /\ Before(e, f) => Before(x, y)
  BY DEF Before, OfText
<1> QED BY <1>2, <1>3

\* The first of the kept keys dropped: each text of one has M newer texts waiting.
LEMMA LastOfTexts ==
    ASSUME NEW all \in Seq(Kept), NEW M \in Nat, M > 0, NEW W, IsFiniteSet(W), Sorted(all),
           \A i \in 1..Len(all) : \E y \in W : OfText(all[i], y),
           NEW L, L = LastOf(all, M)
    PROVE  /\ Sorted(L)
           /\ \A j \in 1..Len(L) : \E y \in W : OfText(L[j], y)
           /\ \A x \in W : \A i \in 1..Len(all) : OfText(all[i], x) =>
                \/ \E j \in 1..Len(L) : OfText(L[j], x)
                \/ Cardinality(Newer(W, x)) >= M
<1> DEFINE n == Len(all)
<1>1. L \in Seq(Kept) /\ Len(L) \in Nat /\ n \in Nat
  <2>1. L \in Seq(Kept)
    BY LastKept
  <2> QED BY <2>1
<1>2. PICK d \in Nat : /\ Len(L) = n - d /\ (d = 0 \/ Len(L) = M)
                       /\ \A j \in 1..Len(L) : L[j] = all[j + d] /\ j + d \in 1..n
  BY LastKept
<1>3. \A i, j \in 1..n : i < j => Before(all[i], all[j])
  BY DEF Sorted
<1>4. \A i \in 1..n : all[i] \in Kept /\ \E y \in W : OfText(all[i], y)
  OBVIOUS
<1> HIDE DEF n
<1>5. Sorted(L)
  <2>1. ASSUME NEW i \in 1..Len(L), NEW j \in 1..Len(L), i < j PROVE Before(L[i], L[j])
    <3>1. i + d < j + d /\ i + d \in 1..n /\ j + d \in 1..n
      BY <1>2, <2>1
    <3> QED BY <1>2, <1>3, <3>1
  <2> QED BY <2>1 DEF Sorted
<1>6. \A j \in 1..Len(L) : \E y \in W : OfText(L[j], y)
  BY <1>2, <1>4
<1>7. ASSUME NEW x \in W, NEW i \in 1..n, OfText(all[i], x)
      PROVE  \/ \E j \in 1..Len(L) : OfText(L[j], x)
             \/ Cardinality(Newer(W, x)) >= M
  <2>1. CASE i > d
    <3>1. i - d \in 1..Len(L) /\ (i - d) + d = i
      BY <1>1, <1>2, <2>1
    <3>2. L[i - d] = all[i]
      BY <1>2, <3>1
    <3> QED BY <1>7, <3>1, <3>2
  <2>2. CASE ~(i > d)
    <3>1. Len(L) = M /\ d + 1 \in Nat /\ d + 1 <= n /\ n - (d + 1) + 1 = M
      BY <1>1, <1>2, <2>2
    <3> DEFINE a == d + 1
               New == Newer(W, x)
               f == [j \in a..n |-> CHOOSE y \in W : OfText(all[j], y)]
    <3>2. \A j \in a..n : j \in 1..n /\ i < j
      BY <1>1, <2>2
    <3>3. \A j \in a..n : f[j] \in W /\ OfText(all[j], f[j])
      BY <1>4, <3>2, Zenon
    <3>4. f = [j \in a..n |-> f[j]]
      OBVIOUS
    <3> HIDE DEF f
    <3>5. \A j \in a..n : f[j] \in New
      BY <1>3, <1>7, <3>2, <3>3, BeforeOrders DEF Newer
    <3>6. ASSUME NEW j \in a..n, NEW h \in a..n, f[j] = f[h] PROVE j = h
      <4>1. all[j].dh = all[h].dh /\ all[j].n = all[h].n
        BY <3>3, <3>6 DEF OfText
      <4>2. j \in 1..n /\ h \in 1..n /\ all[j] \in Kept /\ all[h] \in Kept
        BY <1>4, <3>2
      <4>3. ~(j < h)
        BY <1>3, <4>1, <4>2, BeforeOrders
      <4>4. ~(h < j)
        BY <1>3, <4>1, <4>2, BeforeOrders
      <4> QED BY <4>2, <4>3, <4>4
    <3>7. IsFiniteSet(New)
      BY FS_Subset DEF Newer
    <3> HIDE DEF New
    <3>8. f \in [a..n -> New]
      BY <3>4, <3>5
    <3>9. a \in Nat /\ a <= n /\ n - a + 1 = M
      BY <3>1
    <3> HIDE DEF a
    <3>10. Cardinality(New) \in Nat /\ n - a + 1 <= Cardinality(New)
      BY <1>1, <3>6, <3>7, <3>8, <3>9, AtLeast
    <3>11. Cardinality(New) >= M
      BY <3>9, <3>10
    <3> QED BY <3>11 DEF New
  <2> QED BY <2>1, <2>2
<1> QED BY <1>5, <1>6, <1>7 DEF n

LEMMA TwoParts ==
    ASSUME NEW S, NEW q \in Seq(S), NEW r \in Seq(S)
    PROVE  /\ q \o r \in Seq(S) /\ Len(q \o r) = Len(q) + Len(r)
           /\ \A i \in 1..(Len(q) + Len(r)) :
                (q \o r)[i] = IF i <= Len(q) THEN q[i] ELSE r[i - Len(q)]
BY ConcatProperties

\* What skipMessageKeys drops was of texts with enough newer ones waiting.
LEMMA SkippedTexts ==
    ASSUME NEW s \in EndStates, NEW until \in Nat, NEW t, t = Skipped(s, until),
           Sound(s.skipped, s.dhr, s.nr), Sorted(s.skipped), NEW W, IsFiniteSet(W),
           \A i \in 1..Len(s.skipped) : \E y \in W : OfText(s.skipped[i], y),
           s.ckr # NoChain /\ until > s.nr => s.ckr.n = s.nr,
           s.ckr # NoChain => \A n \in Nat : n >= s.nr /\ n < until =>
               \E y \in W : y.dh = s.dhr /\ y.n = n /\ y.mk = Ck(s.ckr.root, n)
    PROVE  /\ Sorted(t.skipped)
           /\ \A j \in 1..Len(t.skipped) : \E y \in W : OfText(t.skipped[j], y)
           /\ \A x \in W :
                \/ \E i \in 1..Len(s.skipped) : OfText(s.skipped[i], x)
                \/ /\ s.ckr # NoChain /\ x.dh = s.dhr /\ x.n \in Nat /\ x.n >= s.nr
                   /\ x.n < until /\ x.mk = Ck(s.ckr.root, x.n)
                => \/ \E j \in 1..Len(t.skipped) : OfText(t.skipped[j], x)
                   \/ Cardinality(Newer(W, x)) >= MAX_SKIPPED_KEYS
<1>0. /\ s.dhr \in Nat /\ s.ckr \in ChainKeys /\ s.nr \in Nat /\ s.skipped \in Seq(Kept)
      /\ s.ckr.root \in Roots /\ s.ckr.n \in Nat
  BY DEF EndStates, ChainKeys
<1>1. CASE s.ckr = NoChain \/ until <= s.nr
  <2>1. t = s
    BY <1>1 DEF Skipped
  <2>2. \A x \in W : ~(s.ckr # NoChain /\ x.n \in Nat /\ x.n >= s.nr /\ x.n < until)
    BY <1>0, <1>1
  <2> QED BY <2>1, <2>2
<1>2. CASE ~(s.ckr = NoChain \/ until <= s.nr)
  <2> DEFINE root == s.ckr.root
             nr == s.nr
             dh == s.dhr
             q == s.skipped
             N == until - s.nr
             keys == [i \in 1..N |->
                        [dh |-> s.dhr, n |-> s.nr + i - 1, mk |-> [s.ckr EXCEPT !.n = @ + i - 1]]]
             all == q \o keys
             L == LastOf(all, MAX_SKIPPED_KEYS)
  <2>1. t.skipped = L
    <3>1. t = [s EXCEPT !.ckr.n = @ + (until - s.nr), !.nr = until, !.skipped = L]
      BY <1>2, Zenon DEF Skipped, LastOf
    <3> HIDE DEF L
    <3> QED BY <3>1 DEF EndStates
  <2>2. N \in Nat /\ nr + N = until /\ nr \in Nat /\ dh \in Nat /\ until > nr
    BY <1>0, <1>2
  <2>3. s.ckr.n = s.nr /\ s.ckr = Ck(root, nr)
    BY <1>0, <1>2, ChainKeysAre
  <2>4. ASSUME NEW i \in 1..N
        PROVE  /\ keys[i] \in Kept /\ keys[i].dh = dh /\ keys[i].n = nr + i - 1
               /\ keys[i].mk = Ck(root, nr + i - 1)
    <3>0. i \in Nat /\ i >= 1 /\ s.nr \in Nat
      BY <1>0
    <3>1. s.nr + i - 1 \in Nat /\ s.ckr.n + i - 1 = s.nr + i - 1
      BY <2>3, <3>0
    <3> DEFINE c == [s.ckr EXCEPT !.n = @ + i - 1]
    <3>2. c \in ChainKeys /\ c.root = root /\ c.n = nr + i - 1
      BY <1>0, <3>1, ChainStepped
    <3> HIDE DEF c
    <3>3. keys[i] = [dh |-> s.dhr, n |-> s.nr + i - 1, mk |-> c]
      BY DEF c
    <3>4. c = Ck(c.root, c.n)
      BY <3>2, ChainKeysAre
    <3>5. keys[i].dh = dh /\ keys[i].n = nr + i - 1 /\ keys[i].mk = c
      BY <3>3
    <3>6. keys[i] \in Kept
      BY <1>0, <3>1, <3>2, <3>3 DEF Kept
    <3>7. c = Ck(root, nr + i - 1)
      BY <3>2, <3>4
    <3> HIDE DEF keys
    <3> QED BY <3>5, <3>6, <3>7
  <2>5. keys \in Seq(Kept) /\ Len(keys) = N
    <3>1. \A i \in 1..N : keys[i] \in Kept
      BY <2>4
    <3>2. keys = [i \in 1..N |-> keys[i]]
      BY Zenon DEF keys
    <3> HIDE DEF keys, N
    <3>3. [i \in 1..N |-> keys[i]] \in Seq(Kept)
      BY <2>2, <3>1, IsASeq
    <3>4. Len([i \in 1..N |-> keys[i]]) = N
      BY <2>2, <3>3
    <3> QED BY <3>2, <3>3, <3>4
  <2> HIDE DEF keys
  <2>6. Len(q) \in Nat /\ q \in Seq(Kept)
    BY <1>0
  <2>7. /\ all \in Seq(Kept) /\ Len(all) = Len(q) + N
        /\ \A i \in 1..(Len(q) + N) : all[i] = IF i <= Len(q) THEN q[i] ELSE keys[i - Len(q)]
    <3> HIDE DEF q, N
    <3>1. /\ all \in Seq(Kept) /\ Len(all) = Len(q) + Len(keys)
          /\ \A i \in 1..(Len(q) + Len(keys)) :
               all[i] = IF i <= Len(q) THEN q[i] ELSE keys[i - Len(q)]
      BY ONLY <2>5, <2>6, TwoParts
    <3> HIDE DEF all
    <3> QED BY <2>5, <3>1
  <2>8. \A i, j \in 1..Len(q) : i < j => Before(q[i], q[j])
    BY DEF Sorted
  <2>9. \A i \in 1..Len(q) : q[i].dh < dh \/ (q[i].dh = dh /\ q[i].n < nr)
    BY DEF Sound
  <2>10. \A i \in 1..Len(q) : q[i] \in Kept /\ \E y \in W : OfText(q[i], y)
    BY <2>6
  <2>11. \A n \in Nat : n >= nr /\ n < until =>
           \E y \in W : y.dh = dh /\ y.n = n /\ y.mk = Ck(root, n)
    BY <1>2
  <2> HIDE DEF all, q, N, dh, nr, root
  <2>12. ASSUME NEW i \in 1..Len(all), i \notin 1..Len(q)
         PROVE  /\ i - Len(q) \in 1..N /\ all[i] = keys[i - Len(q)]
                /\ all[i].dh = dh /\ all[i].n = nr + (i - Len(q)) - 1
                /\ all[i].mk = Ck(root, nr + (i - Len(q)) - 1)
    <3>1. i - Len(q) \in 1..N /\ ~(i <= Len(q)) /\ i \in 1..(Len(q) + N)
      BY <2>2, <2>6, <2>7, <2>12
    <3>2. all[i] = keys[i - Len(q)]
      BY <2>7, <3>1
    <3> QED BY <2>4, <3>1, <3>2
  <2>13. \A i \in 1..Len(q) : i \in 1..Len(all) /\ all[i] = q[i]
    BY <2>2, <2>6, <2>7
  <2>14. ASSUME NEW i \in 1..Len(all), NEW j \in 1..Len(all), i < j
         PROVE  Before(all[i], all[j])
    <3>1. CASE j \in 1..Len(q)
      <4>1. i \in 1..Len(q)
        BY <2>6, <2>14, <3>1
      <4> QED BY <2>8, <2>13, <2>14, <3>1, <4>1
    <3>2. CASE i \in 1..Len(q) /\ j \notin 1..Len(q)
      <4>1. all[j].dh = dh /\ all[j].n = nr + (j - Len(q)) - 1 /\ j - Len(q) \in 1..N
        BY <2>12, <3>2
      <4>2. all[i].dh < dh \/ (all[i].dh = dh /\ all[i].n < nr)
        BY <2>9, <2>13, <3>2
      <4>3. nr <= all[j].n /\ all[j].n \in Nat
        BY <2>2, <4>1
      <4>4. all[i].n \in Nat
        BY <2>10, <2>13, <3>2 DEF Kept
      <4>5. all[i].n < nr => all[i].n < all[j].n
        BY <2>2, <4>3, <4>4
      <4> QED BY <4>1, <4>2, <4>5 DEF Before
    <3>3. CASE i \notin 1..Len(q) /\ j \notin 1..Len(q)
      <4>1. /\ all[i].dh = dh /\ all[i].n = nr + (i - Len(q)) - 1 /\ i - Len(q) \in 1..N
            /\ all[j].dh = dh /\ all[j].n = nr + (j - Len(q)) - 1 /\ j - Len(q) \in 1..N
        BY <2>12, <3>3
      <4>2. nr + (i - Len(q)) - 1 < nr + (j - Len(q)) - 1
        BY <2>2, <2>6, <2>14
      <4>3. all[i].n < all[j].n /\ all[i].dh = all[j].dh
        BY <4>1, <4>2
      <4> QED BY <4>3 DEF Before
    <3>4. i \notin 1..Len(q) => j \notin 1..Len(q)
      BY <2>6, <2>14
    <3> QED BY <3>1, <3>2, <3>3, <3>4
  <2>15. ASSUME NEW i \in 1..Len(all) PROVE \E y \in W : OfText(all[i], y)
    <3>1. CASE i \in 1..Len(q)
      BY <2>10, <2>13, <3>1
    <3>2. CASE i \notin 1..Len(q)
      <4> DEFINE n == nr + (i - Len(q)) - 1
      <4>1. all[i].dh = dh /\ all[i].n = n /\ all[i].mk = Ck(root, n) /\ i - Len(q) \in 1..N
        BY <2>12, <3>2
      <4>2. n \in Nat /\ n >= nr /\ n < until
        BY <2>2, <4>1
      <4> HIDE DEF n
      <4>3. PICK y \in W : y.dh = dh /\ y.n = n /\ y.mk = Ck(root, n)
        BY <2>11, <4>2
      <4> QED BY <4>1, <4>3 DEF OfText
    <3> QED BY <3>1, <3>2
  <2>16. Sorted(all)
    BY <2>14 DEF Sorted
  <2>17. /\ Sorted(L)
         /\ \A j \in 1..Len(L) : \E y \in W : OfText(L[j], y)
         /\ \A x \in W : \A i \in 1..Len(all) : OfText(all[i], x) =>
                \/ \E j \in 1..Len(L) : OfText(L[j], x)
                \/ Cardinality(Newer(W, x)) >= MAX_SKIPPED_KEYS
    BY <2>7, <2>15, <2>16, LastOfTexts, RatchetBounds
  <2> HIDE DEF L
  <2>18. ASSUME NEW x \in W, x.dh = dh, x.n \in Nat, x.n >= nr, x.n < until,
                x.mk = Ck(root, x.n)
         PROVE  \E i \in 1..Len(all) : OfText(all[i], x)
    <3> DEFINE i == Len(q) + (x.n - nr) + 1
    <3>1. i \in 1..Len(all) /\ i \notin 1..Len(q) /\ nr + (i - Len(q)) - 1 = x.n
      <4>1. x.n \in Nat /\ nr \in Nat /\ N \in Nat /\ x.n >= nr /\ x.n < nr + N
        BY <2>2, <2>18
      <4>2. Len(q) \in Nat /\ Len(all) = Len(q) + N
        BY <2>6, <2>7
      <4> QED BY ONLY <4>1, <4>2
    <3> HIDE DEF i
    <3>2. all[i].dh = dh /\ all[i].n = x.n /\ all[i].mk = Ck(root, x.n)
      BY <2>12, <3>1
    <3> QED BY <2>18, <3>1, <3>2 DEF OfText
  <2>19. \A x \in W : (\E i \in 1..Len(q) : OfText(q[i], x))
                        => \E i \in 1..Len(all) : OfText(all[i], x)
    BY <2>13
  <2>20. \A x \in W :
            \/ \E i \in 1..Len(q) : OfText(q[i], x)
            \/ /\ x.dh = dh /\ x.n \in Nat /\ x.n >= nr /\ x.n < until /\ x.mk = Ck(root, x.n)
            => \/ \E j \in 1..Len(L) : OfText(L[j], x)
               \/ Cardinality(Newer(W, x)) >= MAX_SKIPPED_KEYS
    BY <2>17, <2>18, <2>19
  <2> QED BY <2>1, <2>17, <2>20 DEF q, dh, nr, root
<1> QED BY <1>1, <1>2

\* The texts of the other keys keep theirs.
LEMMA RemovedTexts ==
    ASSUME NEW q \in Seq(Kept), NEW i \in 1..Len(q), Sorted(q), NEW r, r = RemoveAt(q, i)
    PROVE  /\ Sorted(r)
           /\ \A h \in 1..Len(q) : h # i => \E j \in 1..Len(r) : r[j] = q[h]
<1> DEFINE At(j) == IF j < i THEN j ELSE j + 1
<1>1. /\ r \in Seq(Kept) /\ Len(r) = Len(q) - 1
      /\ \A j \in 1..(Len(q) - 1) : r[j] = q[At(j)]
  BY ElementRemoved
<1>2. Len(q) \in Nat /\ i \in Nat
  OBVIOUS
<1>3. \A j, h \in 1..(Len(q) - 1) : j < h => At(j) < At(h)
  BY <1>2
<1>4. \A j \in 1..(Len(q) - 1) : At(j) \in 1..Len(q)
  BY <1>2
<1>5. ASSUME NEW h \in 1..Len(q), h # i PROVE \E j \in 1..(Len(q) - 1) : At(j) = h
  <2>1. CASE h < i
    <3>1. h \in 1..(Len(q) - 1) /\ At(h) = h
      BY <1>2, <2>1
    <3> QED BY <3>1
  <2>2. CASE ~(h < i)
    <3>1. h - 1 \in 1..(Len(q) - 1) /\ At(h - 1) = h
      BY <1>2, <1>5, <2>2
    <3> QED BY <3>1
  <2> QED BY <2>1, <2>2
<1> HIDE DEF At
<1>6. ASSUME NEW j \in 1..Len(r), NEW h \in 1..Len(r), j < h PROVE Before(r[j], r[h])
  <2>1. At(j) \in 1..Len(q) /\ At(h) \in 1..Len(q) /\ At(j) < At(h)
    BY <1>1, <1>3, <1>4, <1>6
  <2>2. r[j] = q[At(j)] /\ r[h] = q[At(h)]
    BY <1>1
  <2> QED BY <2>1, <2>2 DEF Sorted
<1>7. \A h \in 1..Len(q) : h # i => \E j \in 1..Len(r) : r[j] = q[h]
  BY <1>1, <1>5
<1> QED BY <1>6, <1>7 DEF Sorted

\* One side is ahead, not both.
LEMMA NotBoth ==
    ASSUME NEW s \in EndStates, NEW r \in EndStates, Ahead(s, r)
    PROVE  ~Ahead(r, s)
<1>1. s.rk \in Roots /\ r.rk \in Roots /\ s.dhs \in Nat /\ r.dhs \in Nat
  BY DEF EndStates
<1>2. Len(s.rk) \in Nat /\ Len(r.rk) \in Nat
  BY <1>1, ChainKeysAre
<1>3. Len(s.rk) = Len(r.rk) + 1
  <2>1. Len(Append(r.rk, Dh(r.dhs, s.dhs))) = Len(r.rk) + 1
    BY <1>1, ChainKeysAre
  <2> QED BY <2>1 DEF Ahead
<1>4. Ahead(r, s) => Len(r.rk) = Len(s.rk) + 1
  <2>1. Len(Append(s.rk, Dh(s.dhs, r.dhs))) = Len(s.rk) + 1
    BY <1>1, ChainKeysAre
  <2> QED BY <2>1 DEF Ahead
<1>5. ~(Len(r.rk) = Len(s.rk) + 1)
  BY <1>2, <1>3
<1> QED BY <1>4, <1>5

LEMMA TextsInit == RatchetInit => TextsIInv
<1> SUFFICES ASSUME RatchetInit PROVE TextsIInv
  OBVIOUS
<1>1. /\ ends["alice"] = AliceInit /\ ends["bob"] = BobInit
      /\ Sides = {"alice", "bob"} /\ Peer("alice") = "bob" /\ Peer("bob") = "alice"
      /\ wire = {}
  BY DEF RatchetInit, Sides, Peer
<1>2. EndsOk
  BY RatchetInitInv DEF RatchetIInv
<1>3. AliceInit \in EndStates /\ BobInit \in EndStates
  BY <1>1, <1>2 DEF EndsOk, EndOk
<1>4. /\ AliceInit.dhs = 3 /\ AliceInit.dhr = 1 /\ AliceInit.ns = 0 /\ AliceInit.nr = 0
      /\ AliceInit.pn = 0 /\ AliceInit.skipped = << >>
      /\ BobInit.dhs = 1 /\ BobInit.dhr = 0 /\ BobInit.ns = 0 /\ BobInit.nr = 0
      /\ BobInit.pn = 0 /\ BobInit.skipped = << >> /\ BobInit.cks = NoChain
  BY DEF AliceInit, BobInit, SignedPreKey
<1>5. \A x \in Nat : ~(x < 0)
  OBVIOUS
<1>6. Follows(wire, "bob", BobInit, AliceInit)
  <2>1. AliceInit.nr <= BobInit.ns /\ ~CanSend(BobInit) /\ AliceInit.dhr = BobInit.dhs
    BY <1>4 DEF CanSend
  <2>2. \A x \in Nat : ~(x < BobInit.ns) /\ ~(x < BobInit.pn)
    BY <1>4, <1>5
  <2> QED BY <2>1, <2>2 DEF Follows
<1>7. Follows(wire, "alice", AliceInit, BobInit)
  <2>1. TurnOk
    BY RatchetInitInv DEF RatchetIInv
  <2>2. Ahead(AliceInit, BobInit) \/ Ahead(BobInit, AliceInit)
    BY <1>1, <2>1 DEF TurnOk
  <2>3. ~Ahead(BobInit, AliceInit)
    <3>1. ~(AliceInit.dhr < BobInit.dhs)
      BY <1>4
    <3> QED BY <3>1 DEF Ahead
  <2>4. BobInit.dhr # AliceInit.dhs
    BY <1>4
  <2>5. \A x \in Nat : ~(x < AliceInit.ns) /\ ~(x < AliceInit.pn)
    BY <1>4, <1>5
  <2> QED BY <2>3, <2>4, <2>5 DEF Follows
<1>8. \A q \in Sides : Follows(wire, q, ends[q], ends[Peer(q)])
  BY <1>1, <1>6, <1>7
<1>9. \A p \in Sides : ends[p].skipped = << >>
  BY <1>1, <1>4
<1>10. \A p \in Sides : KeptOk(wire, got[p], lost, p, ends[p])
  BY <1>1, <1>9 DEF KeptOk, Sorted
<1>11. IsFiniteSet(wire)
  BY <1>1, FS_EmptySet
<1> QED BY <1>1, <1>8, <1>10, <1>11 DEF TextsIInv, TextsDiffer

\* What the texts of one side and the state of the other have to do with each other.
LEMMA TextsAre ==
    ASSUME RatchetIInv, TextsIInv, NEW q \in Sides, NEW r, NEW s, r = ends[q],
           s = ends[Peer(q)]
    PROVE  /\ r \in EndStates /\ s \in EndStates /\ (Ahead(s, r) \/ Ahead(r, s))
           /\ EndOk(q, r, fresh) /\ EndOk(Peer(q), s, fresh)
           /\ Follows(wire, q, r, s)
           /\ s.dhr <= r.dhs
           /\ \A m \in wire : m.from = q =>
                /\ IsText(m) /\ m.mk = Ck(m.mk.root, m.n) /\ m.mk.n = m.n
                /\ m.mk.root # NoKey /\ m.mk.root \in Roots
                /\ Chained(m, r, s) /\ m.dh <= r.dhs
                /\ (m.dh = r.dhs <=> m.mk.root = r.rk)
                /\ m.dh = r.dhs => m.n < r.ns
                /\ Len(m.mk.root) <= Len(r.rk)
<1>0. Peer(q) \in Sides /\ Peer(Peer(q)) = q
  BY PeersAre
<1>1. EndOk(q, r, fresh) /\ EndOk(Peer(q), s, fresh)
  BY <1>0 DEF RatchetIInv, EndsOk
<1>2. r \in EndStates /\ s \in EndStates
  BY <1>1 DEF EndOk
<1>3. Ahead(s, r) \/ Ahead(r, s)
  BY TurnAfter DEF RatchetIInv
<1>4. Follows(wire, q, r, s)
  BY DEF TextsIInv
<1>5. r.dhs \in Nat /\ s.dhr \in Nat /\ r.rk \in Roots
  BY <1>2 DEF EndStates
<1>6. s.dhr <= r.dhs
  <2>1. Ahead(s, r) => s.dhr = r.dhs
    BY <1>4 DEF Follows
  <2>2. Ahead(r, s) => s.dhr < r.dhs
    BY DEF Ahead
  <2> QED BY <1>3, <1>5, <2>1, <2>2
<1>7. ASSUME NEW m \in wire, m.from = q
      PROVE  /\ IsText(m) /\ m.mk = Ck(m.mk.root, m.n) /\ m.mk.n = m.n
             /\ m.mk.root # NoKey /\ m.mk.root \in Roots
             /\ Chained(m, r, s) /\ m.dh <= r.dhs
             /\ (m.dh = r.dhs <=> m.mk.root = r.rk)
             /\ m.dh = r.dhs => m.n < r.ns
             /\ Len(m.mk.root) <= Len(r.rk)
  <2>1. TextOk(q, r, m) /\ Chained(m, r, s)
    BY <1>7 DEF RatchetIInv, WireOk, TextsIInv
  <2>2. /\ IsText(m) /\ m.mk.n = m.n /\ Len(m.mk.root) >= 1
        /\ Len(m.mk.root) < Len(r.rk) \/ (m.mk.root = r.rk /\ m.dh = r.dhs /\ m.n < r.ns)
    BY <2>1 DEF TextOk
  <2>3. m.mk \in ChainKeys /\ m.dh \in Nat
    BY <2>2 DEF IsText
  <2>4. m.mk = Ck(m.mk.root, m.n) /\ m.mk.root \in Roots
    BY <2>2, <2>3, ChainKeysAre DEF ChainKeys
  <2>5. m.mk.root # NoKey
    BY <2>2, ChainKeysAre
  <2>6. m.mk.root # r.rk => m.dh < r.dhs
    BY <2>1 DEF Chained
  <2>7. Len(m.mk.root) \in Nat /\ Len(r.rk) \in Nat
    BY <1>5, <2>4, ChainKeysAre
  <2>8. m.mk.root = r.rk => m.dh = r.dhs /\ m.n < r.ns
    BY <2>2, <2>7
  <2>9. m.dh <= r.dhs /\ (m.dh = r.dhs <=> m.mk.root = r.rk) /\ (m.dh = r.dhs => m.n < r.ns)
    BY <1>5, <2>3, <2>6, <2>8
  <2>10. Len(m.mk.root) <= Len(r.rk)
    BY <2>2, <2>7
  <2> QED BY <2>1, <2>2, <2>4, <2>5, <2>9, <2>10
<1> QED BY <1>1, <1>2, <1>3, <1>4, <1>6, <1>7

LEMMA TextsAfter ==
    ASSUME NEW p \in Sides, NEW q, q = Peer(p), NEW t, NEW r, ends'[p] = t, ends'[q] = r,
           IsFiniteSet(wire'), TextsDiffer',
           \A x \in wire' : /\ x.from \in Sides
                            /\ x.from = p => Chained(x, t, r)
                            /\ x.from = q => Chained(x, r, t),
           Follows(wire', p, t, r), Follows(wire', q, r, t),
           KeptOk(wire', got'[p], lost', p, t), KeptOk(wire', got'[q], lost', q, r)
    PROVE  TextsIInv'
<1>1. q \in Sides /\ Peer(q) = p /\ \A x \in Sides : x = p \/ x = q
  BY PeersAre
<1>2. \A x \in wire' : Chained(x, ends'[x.from], ends'[Peer(x.from)])
  BY <1>1
<1>3. \A x \in Sides : Follows(wire', x, ends'[x], ends'[Peer(x)])
  BY <1>1
<1>4. \A x \in Sides : KeptOk(wire', got'[x], lost', x, ends'[x])
  BY <1>1
<1> QED BY <1>2, <1>3, <1>4 DEF TextsIInv

LEMMA SendKeepsTexts ==
    ASSUME RatchetIInv, TextsIInv, NEW p \in Sides, SendsText(p)
    PROVE  TextsIInv'
<1> DEFINE s == ends[p]
           t == Encrypted(s)
           q == Peer(p)
           r == ends[q]
           m == [id |-> Cardinality(wire) + 1, from |-> p, dh |-> s.dhs, pn |-> s.pn,
                 n |-> s.ns, mk |-> s.cks]
<1>1. /\ CanSend(s) /\ wire' = wire \cup {m} /\ ends' = [ends EXCEPT ![p] = t]
      /\ got' = got /\ lost' = lost
  BY DEF SendsText
<1>2. q \in Sides /\ Peer(q) = p /\ q # p /\ r = ends[q] /\ s = ends[p] /\ q = Peer(p)
      /\ \A x \in Sides : x = p \/ x = q
  BY PeersAre
<1>3. m.from = p /\ m.dh = s.dhs /\ m.pn = s.pn /\ m.n = s.ns /\ m.mk = s.cks
  OBVIOUS
<1>4. DOMAIN ends = Sides /\ \A x \in wire : x.from \in Sides
  BY DEF RatchetIInv, EndsOk, WireOk, TextOk, IsText
<1>5. t = Encrypted(s)
  OBVIOUS
<1> HIDE DEF m, t
<1>6. ends'[p] = t /\ ends'[q] = r
  BY <1>1, <1>2, <1>4, EndsAfter
<1> HIDE DEF s, r, q
<1>7. /\ s \in EndStates /\ r \in EndStates /\ (Ahead(r, s) \/ Ahead(s, r))
      /\ EndOk(p, s, fresh)
      /\ Follows(wire, p, s, r)
      /\ r.dhr <= s.dhs
      /\ \A x \in wire : x.from = p =>
           /\ Chained(x, s, r) /\ x.dh <= s.dhs /\ (x.dh = s.dhs => x.n < s.ns)
  BY <1>2, TextsAre
<1>8. Follows(wire, q, r, s) /\ \A x \in wire : x.from = q => Chained(x, r, s)
  BY <1>2, TextsAre
<1>9. /\ IsFiniteSet(wire) /\ TextsDiffer
      /\ KeptOk(wire, got[p], lost, p, s) /\ KeptOk(wire, got[q], lost, q, r)
  BY <1>2 DEF TextsIInv
<1>10. /\ t \in EndStates
       /\ t.dhs = s.dhs /\ t.dhr = s.dhr /\ t.rk = s.rk /\ t.nr = s.nr
       /\ t.skipped = s.skipped /\ t.pn = s.pn /\ t.ckr = s.ckr
       /\ t.cks.root = s.cks.root /\ t.cks.n = s.cks.n + 1 /\ t.ns = s.ns + 1
  BY <1>5, <1>7, EncryptedIs
<1>11. s.cks.root = s.rk /\ s.cks.n = s.ns /\ s.ns \in Nat /\ s.dhs \in Nat /\ r.nr \in Nat
       /\ r.dhr \in Nat
  BY <1>1, <1>7 DEF EndOk, EndStates
<1>12. (Ahead(t, r) <=> Ahead(s, r)) /\ (Ahead(r, t) <=> Ahead(r, s))
  BY <1>10 DEF Ahead
<1>13. IsFiniteSet(wire')
  BY <1>1, <1>9, FS_AddElement
<1>14. TextsDiffer'
  <2>1. \A x \in wire : x.from = p /\ x.dh = m.dh => x.n # m.n
    <3>1. ~(s.ns < s.ns)
      BY <1>11
    <3> QED BY <1>3, <1>7, <3>1
  <2>2. \A x, y \in wire : x.from = y.from /\ x.dh = y.dh /\ x.n = y.n => x = y
    BY <1>9 DEF TextsDiffer
  <2>3. \A x, y \in wire \cup {m} : x.from = y.from /\ x.dh = y.dh /\ x.n = y.n => x = y
    BY <1>3, <2>1, <2>2
  <2> QED BY <1>1, <2>3 DEF TextsDiffer
<1>15. Chained(m, t, r)
  <2>1. m.mk.root = t.rk /\ m.pn = t.pn /\ m.dh = s.dhs
    BY <1>3, <1>10, <1>11
  <2>2. m.dh = r.dhr => r.ckr.root = m.mk.root /\ r.ckr.n = r.nr
    BY <1>1, <1>3, <1>7, <1>11 DEF Follows
  <2> QED BY <2>1, <2>2 DEF Chained
<1>16. \A x \in wire : x.from = p => Chained(x, t, r)
  BY <1>7, <1>10, <1>12 DEF Chained
<1>17. \A x \in wire : x.from = q => Chained(x, r, t)
  BY <1>8, <1>10, <1>12 DEF Chained
<1>18. ASSUME NEW x \in wire'
       PROVE  x.from \in Sides /\ (x.from = p => Chained(x, t, r))
              /\ (x.from = q => Chained(x, r, t))
  BY <1>1, <1>2, <1>3, <1>4, <1>15, <1>16, <1>17
<1>19. \A d, x : Sent(wire, p, d, x) => Sent(wire', p, d, x)
  BY <1>1 DEF Sent
<1>20. \A d, x : Sent(wire, q, d, x) => Sent(wire', q, d, x)
  BY <1>1 DEF Sent
<1>21. Follows(wire', p, t, r)
  <2>1. \A x \in Nat : x < t.ns => Sent(wire', p, t.dhs, x)
    <3>1. Sent(wire', p, s.dhs, s.ns)
      BY <1>1, <1>3 DEF Sent
    <3>2. \A x \in Nat : x < s.ns => Sent(wire', p, s.dhs, x)
      BY <1>7, <1>19 DEF Follows
    <3>3. \A x \in Nat : x < s.ns + 1 => x < s.ns \/ x = s.ns
      BY <1>11
    <3> QED BY <1>10, <3>1, <3>2, <3>3
  <2>2. r.nr <= s.ns => r.nr <= t.ns
    BY <1>10, <1>11
  <2>3. CanSend(s)
    BY <1>1
  <2> QED BY <1>7, <1>10, <1>12, <1>19, <2>1, <2>2, <2>3 DEF Follows
<1>22. Follows(wire', q, r, t)
  BY <1>8, <1>10, <1>12, <1>20 DEF Follows
<1>23. KeptOk(wire', got'[p], lost', p, t)
  <2>1. \A x : Unread(wire', got'[p], p, x) <=> Unread(wire, got[p], p, x)
    BY <1>1, <1>2, <1>3 DEF Unread
  <2>2. \A x : PassedOver(t, x) <=> PassedOver(s, x)
    BY <1>10 DEF PassedOver
  <2>3. \A x : Unread(wire, got[p], p, x) => x \in wire /\ x \in wire'
    BY <1>1 DEF Unread
  <2> QED BY <1>1, <1>9, <1>10, <2>1, <2>2, <2>3 DEF KeptOk
<1>24. KeptOk(wire', got'[q], lost', q, r)
  <2>1. ~PassedOver(r, m)
    <3>1. r.dhr = s.dhs => r.nr <= s.ns
      BY <1>7 DEF Follows
    <3>2. ~(s.dhs < r.dhr) /\ ~(s.dhs = r.dhr /\ s.ns < r.nr)
      BY <1>7, <1>11, <3>1
    <3> QED BY <1>3, <3>2 DEF PassedOver
  <2>2. \A x : Unread(wire', got'[q], q, x) => x = m \/ Unread(wire, got[q], q, x)
    BY <1>1 DEF Unread
  <2>3. \A x : Unread(wire, got[q], q, x) => Unread(wire', got'[q], q, x) /\ x \in wire
                                              /\ x \in wire'
    BY <1>1 DEF Unread
  <2> QED BY <1>1, <1>9, <2>1, <2>2, <2>3 DEF KeptOk
<1> QED BY <1>2, <1>6, <1>13, <1>14, <1>18, <1>21, <1>22, <1>23, <1>24, TextsAfter

\* The texts waiting for p once it is in state t, and what is kept of them.
AllKept(W, t) ==
    /\ Sorted(t.skipped)
    /\ \A j \in 1..Len(t.skipped) : \E y \in W : OfText(t.skipped[j], y)
    /\ \A x \in W : \/ x \in lost
                    \/ \E j \in 1..Len(t.skipped) : OfText(t.skipped[j], x)
                    \/ Cardinality(Newer(W, x)) >= MAX_SKIPPED_KEYS

\* p, in state s, opens m of the other side, in state r, and is in state t.
Opening(p, s, r, m, t, W) ==
    /\ s = ends[p] /\ r = ends[Peer(p)] /\ t = Decrypted(s, m, fresh + 1)
    /\ Outcome(s, m, fresh + 1) = "ok" /\ m \in wire /\ m.from = Peer(p)
    /\ W = Waiting(p, t, got[p] \cup {m})

LEMMA OpeningFacts ==
    ASSUME RatchetIInv, TextsIInv, NEW p \in Sides, NEW q, q = Peer(p), NEW k, k = fresh + 1,
           NEW s, NEW r, NEW m, NEW t, NEW W, Opening(p, s, r, m, t, W)
    PROVE  /\ s \in EndStates /\ r \in EndStates /\ Sound(s.skipped, s.dhr, s.nr) /\ k \in Nat
           /\ Follows(wire, q, r, s) /\ Follows(wire, p, s, r)
           /\ KeptOk(wire, got[p], lost, p, s)
           /\ IsFiniteSet(W)
           /\ \A x : x \in W <=> Unread(wire, got[p], p, x) /\ x # m /\ PassedOver(t, x)
           /\ \A x \in got[p] : PassedOver(s, x)
           /\ \A x \in wire : x.from = q /\ x.dh = m.dh /\ x.n = m.n => x = m
           /\ m \in wire /\ m.from = q /\ q \in Sides /\ Peer(q) = p
           /\ t = Decrypted(s, m, k) /\ Outcome(s, m, k) = "ok" /\ s = ends[p] /\ r = ends[q]
<1>1. /\ s = ends[p] /\ r = ends[q] /\ W = Waiting(p, t, got[p] \cup {m}) /\ m \in wire
      /\ m.from = q /\ q \in Sides /\ Peer(q) = p /\ q # p
  BY PeersAre DEF Opening
<1>2. /\ EndOk(p, s, fresh) /\ fresh \in Nat /\ r \in EndStates
  BY <1>1 DEF RatchetIInv, EndsOk, EndOk
<1>3. s \in EndStates /\ Sound(s.skipped, s.dhr, s.nr) /\ fresh + 1 \in Nat
  BY <1>2 DEF EndOk
<1>4. Follows(wire, q, r, s) /\ Follows(wire, p, s, r) /\ KeptOk(wire, got[p], lost, p, s)
      /\ IsFiniteSet(wire) /\ TextsDiffer
  BY <1>1 DEF TextsIInv
<1>5. \A x \in wire : x.from # p <=> x.from = q
  BY <1>1, PeersAre DEF RatchetIInv, WireOk, TextOk, IsText
<1>6. \A x : x \in W <=> Unread(wire, got[p], p, x) /\ x # m /\ PassedOver(t, x)
  BY <1>1, <1>5 DEF Waiting, Unread
<1>7. IsFiniteSet(W)
  <2>1. W \subseteq wire
    BY <1>6 DEF Unread
  <2> QED BY <1>4, <2>1, FS_Subset
<1>8. \A x \in got[p] : PassedOver(s, x)
  BY <1>1 DEF RatchetIInv, GotOk, Spent
<1>9. \A x \in wire : x.from = q /\ x.dh = m.dh /\ x.n = m.n => x = m
  BY <1>1, <1>4 DEF TextsDiffer
<1>10. t = Decrypted(s, m, k) /\ Outcome(s, m, k) = "ok"
  BY DEF Opening
<1> QED BY <1>1, <1>2, <1>3, <1>4, <1>6, <1>7, <1>8, <1>9, <1>10

LEMMA SettledKept ==
    ASSUME RatchetIInv, TextsIInv, NEW p \in Sides, NEW q, q = Peer(p),
           NEW k, k = fresh + 1, NEW s, NEW r, NEW m, NEW t, NEW W, Opening(p, s, r, m, t, W), HasSkipped(s, m)
    PROVE  AllKept(W, t)
<1> DEFINE i == SkippedAt(s, m)
           e == s.skipped
           f == RemoveAt(e, i)
<1>1. /\ s \in EndStates /\ Sound(s.skipped, s.dhr, s.nr)
      /\ KeptOk(wire, got[p], lost, p, s)
      /\ \A x : x \in W <=> Unread(wire, got[p], p, x) /\ x # m /\ PassedOver(t, x)
      /\ \A x \in wire : x.from = q /\ x.dh = m.dh /\ x.n = m.n => x = m
      /\ t = Decrypted(s, m, k)
  BY OpeningFacts
<1>2. t.dhr = s.dhr /\ t.nr = s.nr /\ OnlyLeft(s, t, m)
  BY <1>1, OpenedKept
<1>3. e \in Seq(Kept) /\ DOMAIN e = 1..Len(e)
  BY <1>1 DEF EndStates
<1>4. i \in 1..Len(e) /\ e[i].dh = m.dh /\ e[i].n = m.n
  BY <1>3, Zenon DEF HasSkipped, SkippedAt
<1>5. t.skipped = f
  <2>1. t = [s EXCEPT !.skipped = f]
    BY <1>1 DEF Decrypted
  <2> HIDE DEF f
  <2> QED BY <1>1, <2>1 DEF EndStates
<1>6. Sorted(e)
  BY <1>1 DEF KeptOk
<1>7. /\ Sorted(f)
      /\ \A h \in 1..Len(e) : h # i => \E j \in 1..Len(f) : f[j] = e[h]
  <2>1. f = RemoveAt(e, i) /\ e \in Seq(Kept) /\ i \in 1..Len(e) /\ Sorted(e)
    BY <1>3, <1>4, <1>6
  <2> HIDE DEF e, i, f
  <2> QED BY ONLY <2>1, RemovedTexts
<1>8. \A j \in 1..Len(f) : \E h \in 1..Len(e) : f[j] = e[h]
  <2>1. f = RemoveAt(e, i) /\ e \in Seq(Kept) /\ i \in 1..Len(e) /\ Sound(e, s.dhr, s.nr)
    BY <1>1, <1>3, <1>4
  <2> HIDE DEF e, i, f
  <2> QED BY ONLY <2>1, KeyRemoved
<1>9. \A x : PassedOver(t, x) <=> PassedOver(s, x)
  BY <1>2 DEF PassedOver
<1>10. ASSUME NEW j \in 1..Len(f) PROVE \E y \in W : OfText(f[j], y)
  <2>1. PICK h \in 1..Len(e) : f[j] = e[h]
    BY <1>8
  <2>2. PICK y \in wire : Unread(wire, got[p], p, y) /\ OfText(e[h], y)
    BY <1>1 DEF KeptOk
  <2>3. ~(f[j].dh = m.dh /\ f[j].n = m.n)
    BY <1>2, <1>5 DEF OnlyLeft
  <2>4. y # m
    BY <2>1, <2>2, <2>3 DEF OfText
  <2>5. PassedOver(s, y)
    BY <1>1, <2>2 DEF Sound, OfText, PassedOver
  <2> QED BY <1>1, <1>9, <2>1, <2>2, <2>4, <2>5
<1>11. ASSUME NEW x \in W, x \notin lost PROVE \E j \in 1..Len(f) : OfText(f[j], x)
  <2>1. Unread(wire, got[p], p, x) /\ x # m /\ PassedOver(s, x) /\ x \in wire /\ x.from = q
    BY <1>1, <1>9 DEF Unread
  <2>2. PICK h \in 1..Len(e) : OfText(e[h], x)
    BY <1>1, <1>11, <2>1 DEF KeptOk
  <2>3. h # i
    BY <1>1, <1>4, <2>1, <2>2 DEF OfText
  <2> QED BY <1>7, <2>2, <2>3
<1> QED BY <1>5, <1>7, <1>10, <1>11 DEF AllKept

LEMMA SettledOnChain ==
    ASSUME RatchetIInv, TextsIInv, NEW p \in Sides, NEW q, q = Peer(p),
           NEW k, k = fresh + 1, NEW s, NEW r, NEW m, NEW t, NEW W, Opening(p, s, r, m, t, W), ~HasSkipped(s, m), ~NewChain(s, m)
    PROVE  AllKept(W, t)
<1> DEFINE e == s.skipped
           n == m.n
           u == Skipped(s, n)
<1>1. /\ s \in EndStates /\ Sound(s.skipped, s.dhr, s.nr) /\ k \in Nat
      /\ Follows(wire, q, r, s)
      /\ KeptOk(wire, got[p], lost, p, s)
      /\ IsFiniteSet(W)
      /\ \A x : x \in W <=> Unread(wire, got[p], p, x) /\ x # m /\ PassedOver(t, x)
      /\ \A x \in got[p] : PassedOver(s, x)
      /\ \A x \in wire : x.from = q /\ x.dh = m.dh /\ x.n = m.n => x = m
      /\ m \in wire /\ m.from = q /\ q \in Sides /\ Peer(q) = p
      /\ t = Decrypted(s, m, k) /\ Outcome(s, m, k) = "ok" /\ s = ends[p] /\ r = ends[q]
  BY OpeningFacts
<1>2. /\ (Ahead(s, r) \/ Ahead(r, s)) /\ r \in EndStates /\ s.dhr <= r.dhs
      /\ \A x \in wire : x.from = q =>
                /\ IsText(x) /\ x.mk = Ck(x.mk.root, x.n) /\ x.mk.n = x.n
                /\ x.mk.root # NoKey
                /\ Chained(x, r, s) /\ x.dh <= r.dhs
                /\ (x.dh = r.dhs <=> x.mk.root = r.rk)
                /\ x.dh = r.dhs => x.n < r.ns
  BY <1>1, TextsAre
<1>3. IsText(m) /\ Len(m.mk.root) >= 1
  BY <1>1 DEF RatchetIInv, WireOk, TextOk
<1>4. /\ t.dhr = s.dhr /\ m.dh = s.dhr /\ m.n >= s.nr /\ t.nr = m.n + 1
      /\ OnlyLeft(s, t, m) /\ s.ckr.root = m.mk.root /\ s.ckr # NoChain
      /\ t.skipped = Skipped(s, m.n).skipped
  BY <1>1, <1>3, OpenedOnChain
<1>5. n \in Nat /\ s.nr \in Nat /\ s.dhr \in Nat /\ e \in Seq(Kept)
      /\ \A x \in wire : x.from = q => x.n \in Nat /\ x.dh \in Nat
  BY <1>1, <1>2, <1>3 DEF EndStates, IsText
<1>6. s.ckr.n = s.nr
  BY <1>1, <1>2, <1>4 DEF Chained
<1>7. \A x \in Nat : x < n => Sent(wire, q, s.dhr, x)
  <2>1. CASE m.dh = r.dhs
    <3>1. m.n < r.ns /\ r.ns \in Nat
      BY <1>1, <1>2, <2>1 DEF EndStates
    <3>2. \A x \in Nat : x < n => x < r.ns
      BY <1>5, <3>1
    <3> QED BY <1>1, <1>4, <2>1, <3>2 DEF Follows
  <2>2. CASE m.dh # r.dhs
    <3>1. m.mk.root # r.rk /\ Chained(m, r, s)
      BY <1>1, <1>2, <2>2
    <3>2. Ahead(r, s)
      BY <1>1, <1>2, <1>4, <2>2 DEF Follows
    <3>3. n < r.pn /\ r.pn \in Nat
      BY <1>2, <1>4, <3>1, <3>2 DEF Chained, EndStates
    <3>4. \A x \in Nat : x < n => x < r.pn
      BY <1>5, <3>3
    <3> QED BY <1>1, <3>2, <3>4 DEF Follows
  <2> QED BY <2>1, <2>2
<1>8. ASSUME NEW x \in wire, x.from = q, PassedOver(s, x) PROVE PassedOver(t, x)
  <2>1. x.n \in Nat /\ (x.dh < s.dhr \/ (x.dh = s.dhr /\ x.n < s.nr))
    BY <1>5, <1>8 DEF PassedOver
  <2>2. x.n < s.nr => x.n < m.n + 1
    BY <1>4, <1>5, <2>1
  <2> QED BY <1>4, <2>1, <2>2 DEF PassedOver
<1>9. \A i \in 1..Len(e) : \E y \in W : OfText(e[i], y)
  <2>1. ASSUME NEW i \in 1..Len(e) PROVE \E y \in W : OfText(e[i], y)
    <3>1. PICK y \in wire : Unread(wire, got[p], p, y) /\ OfText(e[i], y)
      BY <1>1 DEF KeptOk
    <3>2. PassedOver(s, y)
      BY <1>1, <3>1 DEF Sound, OfText, PassedOver
    <3>3. y # m
      BY <1>5, <3>1 DEF HasSkipped, OfText
    <3> QED BY <1>1, <1>8, <3>1, <3>2, <3>3 DEF Unread
  <2> QED BY <2>1
<1>10. ASSUME NEW x \in Nat, x >= s.nr, x < n
       PROVE  \E y \in W : y.dh = s.dhr /\ y.n = x /\ y.mk = Ck(s.ckr.root, x)
  <2>1. PICK y \in wire : y.from = q /\ y.dh = s.dhr /\ y.n = x
    BY <1>7, <1>10 DEF Sent
  <2>2. ~PassedOver(s, y)
    BY <1>5, <1>10, <2>1 DEF PassedOver
  <2>3. PassedOver(t, y) /\ y # m
    BY <1>4, <1>5, <1>10, <2>1 DEF PassedOver
  <2>4. y \in W
    BY <1>1, <2>1, <2>2, <2>3 DEF Unread
  <2>5. y.mk = Ck(y.mk.root, x) /\ s.ckr.root = y.mk.root
    BY <1>2, <2>1 DEF Chained
  <2> QED BY <2>1, <2>4, <2>5
<1>11. Sorted(e) /\ u = Skipped(s, n)
  BY <1>1 DEF KeptOk
<1> HIDE DEF u, n
<1>12. /\ Sorted(u.skipped)
       /\ \A j \in 1..Len(u.skipped) : \E y \in W : OfText(u.skipped[j], y)
       /\ \A x \in W :
            \/ \E i \in 1..Len(s.skipped) : OfText(s.skipped[i], x)
            \/ /\ s.ckr # NoChain /\ x.dh = s.dhr /\ x.n \in Nat /\ x.n >= s.nr
               /\ x.n < n /\ x.mk = Ck(s.ckr.root, x.n)
            => \/ \E j \in 1..Len(u.skipped) : OfText(u.skipped[j], x)
               \/ Cardinality(Newer(W, x)) >= MAX_SKIPPED_KEYS
  <2>1. /\ s \in EndStates /\ n \in Nat /\ u = Skipped(s, n) /\ Sound(s.skipped, s.dhr, s.nr)
        /\ Sorted(s.skipped) /\ IsFiniteSet(W)
        /\ \A i \in 1..Len(s.skipped) : \E y \in W : OfText(s.skipped[i], y)
        /\ s.ckr # NoChain /\ n > s.nr => s.ckr.n = s.nr
        /\ s.ckr # NoChain => \A x \in Nat : x >= s.nr /\ x < n =>
             \E y \in W : y.dh = s.dhr /\ y.n = x /\ y.mk = Ck(s.ckr.root, x)
    BY <1>1, <1>5, <1>6, <1>9, <1>10, <1>11
  <2> HIDE DEF e
  <2> QED BY ONLY <2>1, SkippedTexts
<1>13. t.skipped = u.skipped
  BY <1>4 DEF u, n
<1>14. ASSUME NEW x \in W
       PROVE  \/ x \in lost
              \/ \E i \in 1..Len(e) : OfText(e[i], x)
              \/ /\ s.ckr # NoChain /\ x.dh = s.dhr /\ x.n \in Nat /\ x.n >= s.nr
                 /\ x.n < n /\ x.mk = Ck(s.ckr.root, x.n)
  <2>1. Unread(wire, got[p], p, x) /\ x # m /\ PassedOver(t, x) /\ x \in wire /\ x.from = q
    BY <1>1 DEF Unread
  <2>2. CASE PassedOver(s, x)
    BY <1>1, <2>1, <2>2 DEF KeptOk
  <2>3. CASE ~PassedOver(s, x)
    <3>1. x.n \in Nat /\ x.dh \in Nat
      BY <1>5, <2>1
    <3>2. x.dh = s.dhr /\ x.n < m.n + 1
      BY <1>4, <2>1, <2>3 DEF PassedOver
    <3>3. x.n >= s.nr
      BY <1>5, <2>3, <3>1, <3>2 DEF PassedOver
    <3>4. x.n # m.n
      BY <1>1, <1>4, <2>1, <3>2
    <3>5. x.n < n
      BY <1>5, <3>1, <3>2, <3>4 DEF n
    <3>6. x.mk = Ck(s.ckr.root, x.n)
      BY <1>2, <2>1, <3>2 DEF Chained
    <3> QED BY <1>4, <3>1, <3>2, <3>3, <3>5, <3>6
  <2> QED BY <2>2, <2>3
<1>15. \A x \in W : \/ x \in lost
                    \/ \E j \in 1..Len(t.skipped) : OfText(t.skipped[j], x)
                    \/ Cardinality(Newer(W, x)) >= MAX_SKIPPED_KEYS
  BY <1>12, <1>13, <1>14
<1> QED BY <1>12, <1>13, <1>15 DEF AllKept

\* x is of the chain with this root and key pair, from its lo-th key to before its hi-th.
OfChain(root, dh, lo, hi, x) ==
    x.dh = dh /\ x.n \in Nat /\ x.n >= lo /\ x.n < hi /\ x.mk = Ck(root, x.n)

\* A kept key opens x, or enough texts of W are newer.
KeptOrCrowded(W, q, x) ==
    \/ \E i \in 1..Len(q) : OfText(q[i], x)
    \/ Cardinality(Newer(W, x)) >= MAX_SKIPPED_KEYS

\* The rest of one chain and the beginning of the next skipped.
TurnSkips(s, W, pn, n, dh, k, root, u) ==
    /\ s \in EndStates /\ Sound(s.skipped, s.dhr, s.nr) /\ Sorted(s.skipped) /\ IsFiniteSet(W)
    /\ pn \in Nat /\ n \in Nat /\ dh \in Nat /\ k \in Nat /\ dh > s.dhr
    /\ root = RecvRoot(s, dh) /\ root # NoKey
    /\ u = Skipped(Stepped(Skipped(s, pn), dh, k), n)
    /\ \A i \in 1..Len(s.skipped) : \E y \in W : OfText(s.skipped[i], y)
    /\ s.ckr # NoChain /\ pn > s.nr => s.ckr.n = s.nr
    /\ s.ckr # NoChain => \A x \in Nat : x >= s.nr /\ x < pn =>
         \E y \in W : y.dh = s.dhr /\ y.n = x /\ y.mk = Ck(s.ckr.root, x)
    /\ \A x \in Nat : x < n => \E y \in W : y.dh = dh /\ y.n = x /\ y.mk = Ck(root, x)

LEMMA TurnTexts ==
    ASSUME NEW s, NEW W, NEW pn, NEW n, NEW dh, NEW k, NEW root, NEW u,
           TurnSkips(s, W, pn, n, dh, k, root, u)
    PROVE  /\ Sorted(u.skipped)
           /\ \A j \in 1..Len(u.skipped) : \E y \in W : OfText(u.skipped[j], y)
           /\ \A x \in W :
                \/ \E i \in 1..Len(s.skipped) : OfText(s.skipped[i], x)
                \/ s.ckr # NoChain /\ OfChain(s.ckr.root, s.dhr, s.nr, pn, x)
                \/ OfChain(root, dh, 0, n, x)
                => KeptOrCrowded(W, u.skipped, x)
<1> DEFINE a == Skipped(s, pn)
           b == Stepped(a, dh, k)
<1>0. /\ s \in EndStates /\ Sound(s.skipped, s.dhr, s.nr) /\ Sorted(s.skipped) /\ IsFiniteSet(W)
      /\ pn \in Nat /\ n \in Nat /\ dh \in Nat /\ k \in Nat /\ dh > s.dhr
      /\ root = RecvRoot(s, dh) /\ root # NoKey
      /\ \A i \in 1..Len(s.skipped) : \E y \in W : OfText(s.skipped[i], y)
      /\ s.ckr # NoChain /\ pn > s.nr => s.ckr.n = s.nr
      /\ s.ckr # NoChain => \A x \in Nat : x >= s.nr /\ x < pn =>
           \E y \in W : y.dh = s.dhr /\ y.n = x /\ y.mk = Ck(s.ckr.root, x)
      /\ \A x \in Nat : x < n => \E y \in W : y.dh = dh /\ y.n = x /\ y.mk = Ck(root, x)
  BY DEF TurnSkips
<1>10. a = Skipped(s, pn) /\ b = Stepped(a, dh, k) /\ u = Skipped(b, n)
  BY DEF TurnSkips
<1>11. s.dhr \in Nat /\ s.nr \in Nat
  BY <1>0 DEF EndStates
<1> HIDE DEF a, b
<1>1. /\ a \in EndStates /\ a.dhr = s.dhr /\ a.rk = s.rk /\ a.dhs = s.dhs
      /\ Sound(a.skipped, a.dhr, a.nr)
  BY <1>0, <1>10, SkippedKeeps
<1>2. /\ Sorted(a.skipped)
      /\ \A j \in 1..Len(a.skipped) : \E y \in W : OfText(a.skipped[j], y)
      /\ \A x \in W :
           \/ \E i \in 1..Len(s.skipped) : OfText(s.skipped[i], x)
           \/ /\ s.ckr # NoChain /\ x.dh = s.dhr /\ x.n \in Nat /\ x.n >= s.nr
              /\ x.n < pn /\ x.mk = Ck(s.ckr.root, x.n)
           => \/ \E j \in 1..Len(a.skipped) : OfText(a.skipped[j], x)
              \/ Cardinality(Newer(W, x)) >= MAX_SKIPPED_KEYS
  <2>1. /\ s \in EndStates /\ pn \in Nat /\ a = Skipped(s, pn) /\ Sound(s.skipped, s.dhr, s.nr)
        /\ Sorted(s.skipped) /\ IsFiniteSet(W)
        /\ \A i \in 1..Len(s.skipped) : \E y \in W : OfText(s.skipped[i], y)
        /\ s.ckr # NoChain /\ pn > s.nr => s.ckr.n = s.nr
        /\ s.ckr # NoChain => \A x \in Nat : x >= s.nr /\ x < pn =>
             \E y \in W : y.dh = s.dhr /\ y.n = x /\ y.mk = Ck(s.ckr.root, x)
    BY <1>0, <1>10
  <2> QED BY ONLY <2>1, SkippedTexts
<1>3. b \in EndStates /\ SteppedTo(a, dh, k, b)
  BY <1>0, <1>1, <1>10, SteppedIs
<1>4. /\ b.dhr = dh /\ b.nr = 0 /\ b.skipped = a.skipped /\ b.ckr.n = 0
      /\ b.ckr.root = root
  BY <1>0, <1>1, <1>3 DEF SteppedTo, RecvRoot
<1>5. b.ckr # NoChain
  BY <1>0, <1>4, ChainKeysAre
<1>6. Sound(b.skipped, b.dhr, b.nr)
  <2>1. a.skipped \in Seq(Kept) /\ a.nr \in Nat /\ 0 \in Nat /\ dh \in Nat /\ a.dhr \in Nat
        /\ a.dhr < dh
    BY <1>0, <1>1, <1>11 DEF EndStates
  <2>2. Sound(a.skipped, dh, 0)
    BY <1>1, <2>1, SoundGrows
  <2> QED BY <1>4, <2>2
<1>7. /\ Sorted(u.skipped)
      /\ \A j \in 1..Len(u.skipped) : \E y \in W : OfText(u.skipped[j], y)
      /\ \A x \in W :
           \/ \E i \in 1..Len(b.skipped) : OfText(b.skipped[i], x)
           \/ /\ b.ckr # NoChain /\ x.dh = b.dhr /\ x.n \in Nat /\ x.n >= b.nr
              /\ x.n < n /\ x.mk = Ck(b.ckr.root, x.n)
           => \/ \E j \in 1..Len(u.skipped) : OfText(u.skipped[j], x)
              \/ Cardinality(Newer(W, x)) >= MAX_SKIPPED_KEYS
  <2>1. /\ b \in EndStates /\ n \in Nat /\ u = Skipped(b, n) /\ Sound(b.skipped, b.dhr, b.nr)
        /\ Sorted(b.skipped) /\ IsFiniteSet(W)
        /\ \A i \in 1..Len(b.skipped) : \E y \in W : OfText(b.skipped[i], y)
        /\ b.ckr # NoChain /\ n > b.nr => b.ckr.n = b.nr
    BY <1>0, <1>2, <1>3, <1>4, <1>6, <1>10
  <2>2. b.ckr # NoChain => \A x \in Nat : x >= b.nr /\ x < n =>
             \E y \in W : y.dh = b.dhr /\ y.n = x /\ y.mk = Ck(b.ckr.root, x)
    BY <1>0, <1>4
  <2> QED BY ONLY <2>1, <2>2, SkippedTexts
<1>8. ASSUME NEW x \in W,
             \/ \E i \in 1..Len(s.skipped) : OfText(s.skipped[i], x)
             \/ s.ckr # NoChain /\ OfChain(s.ckr.root, s.dhr, s.nr, pn, x)
      PROVE  KeptOrCrowded(W, u.skipped, x)
  <2>1. KeptOrCrowded(W, a.skipped, x)
    BY <1>2, <1>8 DEF KeptOrCrowded, OfChain
  <2>2. (\E i \in 1..Len(b.skipped) : OfText(b.skipped[i], x)) => KeptOrCrowded(W, u.skipped, x)
    BY <1>7 DEF KeptOrCrowded
  <2> QED BY <1>4, <2>1, <2>2 DEF KeptOrCrowded
<1>9. ASSUME NEW x \in W, OfChain(root, dh, 0, n, x) PROVE KeptOrCrowded(W, u.skipped, x)
  BY <1>4, <1>5, <1>7, <1>9 DEF KeptOrCrowded, OfChain
<1> QED BY <1>7, <1>8, <1>9

LEMMA SettledTurn ==
    ASSUME RatchetIInv, TextsIInv, NEW p \in Sides, NEW q, q = Peer(p),
           NEW k, k = fresh + 1, NEW s, NEW r, NEW m, NEW t, NEW W, Opening(p, s, r, m, t, W),
           ~HasSkipped(s, m), NewChain(s, m)
    PROVE  AllKept(W, t)
<1>1. /\ s \in EndStates /\ Sound(s.skipped, s.dhr, s.nr) /\ k \in Nat
      /\ Follows(wire, q, r, s)
      /\ KeptOk(wire, got[p], lost, p, s)
      /\ IsFiniteSet(W)
      /\ \A x : x \in W <=> Unread(wire, got[p], p, x) /\ x # m /\ PassedOver(t, x)
      /\ \A x \in got[p] : PassedOver(s, x)
      /\ \A x \in wire : x.from = q /\ x.dh = m.dh /\ x.n = m.n => x = m
      /\ m \in wire /\ m.from = q /\ q \in Sides /\ Peer(q) = p
      /\ t = Decrypted(s, m, k) /\ Outcome(s, m, k) = "ok" /\ s = ends[p] /\ r = ends[q]
  BY OpeningFacts
<1>2. /\ (Ahead(s, r) \/ Ahead(r, s)) /\ r \in EndStates /\ s.dhr <= r.dhs
      /\ EndOk(p, s, fresh) /\ EndOk(q, r, fresh)
      /\ \A x \in wire : x.from = q =>
                /\ IsText(x) /\ x.mk = Ck(x.mk.root, x.n) /\ x.mk.n = x.n
                /\ x.mk.root # NoKey
                /\ Chained(x, r, s) /\ x.dh <= r.dhs
                /\ (x.dh = r.dhs <=> x.mk.root = r.rk)
                /\ x.dh = r.dhs => x.n < r.ns
  BY <1>1, TextsAre
<1>3. IsText(m) /\ Len(m.mk.root) >= 1 /\ TextOk(q, r, m)
  BY <1>1 DEF RatchetIInv, WireOk, TextOk
<1>4. m.mk.root = RecvRoot(s, m.dh) =>
        Ahead(r, s) /\ m.mk.root = r.rk /\ m.dh = r.dhs /\ m.dh > s.dhr
  <2> DEFINE made == fresh
  <2>1. /\ p \in Sides /\ q \in Sides /\ EndOk(p, s, made) /\ EndOk(q, r, made)
        /\ Ahead(s, r) \/ Ahead(r, s)
        /\ TextOk(q, r, m)
    BY <1>1, <1>2, <1>3
  <2> HIDE DEF made
  <2> QED BY ONLY <2>1, TurnFact
<1>5. /\ m.mk.root = RecvRoot(s, m.dh) /\ m.dh > s.dhr
      /\ t.dhr = m.dh /\ t.nr = m.n + 1
      /\ OnlyLeft(s, t, m)
      /\ t.skipped = Skipped(Stepped(Skipped(s, m.pn), m.dh, k), m.n).skipped
  <2>1. m.mk.root = Append(s.rk, Dh(s.dhs, m.dh)) => m.dh > s.dhr
    BY <1>4 DEF RecvRoot
  <2>2. /\ m.mk.root = Append(s.rk, Dh(s.dhs, m.dh)) /\ m.dh > s.dhr
        /\ t.dhr = m.dh /\ t.nr = m.n + 1
        /\ OnlyLeft(s, t, m)
        /\ t.skipped = Skipped(Stepped(Skipped(s, m.pn), m.dh, k), m.n).skipped
    <3>1. /\ s \in EndStates /\ IsText(m) /\ k \in Nat /\ t = Decrypted(s, m, k)
          /\ Outcome(s, m, k) = "ok" /\ ~HasSkipped(s, m) /\ NewChain(s, m)
          /\ m.mk.root = Append(s.rk, Dh(s.dhs, m.dh)) => m.dh > s.dhr
          /\ Sound(s.skipped, s.dhr, s.nr)
      BY <1>1, <1>3, <2>1
    <3> QED BY ONLY <3>1, OpenedNewChain
  <2> QED BY <2>2 DEF RecvRoot
<1>6. Ahead(r, s) /\ m.mk.root = r.rk /\ m.dh = r.dhs
  BY <1>4, <1>5
<1>7. /\ m.n \in Nat /\ m.pn \in Nat /\ m.dh \in Nat /\ s.nr \in Nat /\ s.dhr \in Nat
      /\ s.skipped \in Seq(Kept) /\ r.ns \in Nat /\ r.pn \in Nat
      /\ \A x \in wire : x.from = q => x.n \in Nat /\ x.dh \in Nat
  BY <1>1, <1>2, <1>3 DEF EndStates, IsText
<1>8. m.pn = r.pn /\ m.n < r.ns
  BY <1>1, <1>2, <1>6 DEF Chained
<1>9. /\ \A x \in Nat : x < m.pn => Sent(wire, q, s.dhr, x)
      /\ \A x \in Nat : x < m.n => Sent(wire, q, m.dh, x)
  <2>1. \A x \in Nat : x < m.n => x < r.ns
    BY <1>7, <1>8
  <2> QED BY <1>1, <1>6, <1>8, <2>1 DEF Follows
<1>10. \A x \in wire : x.from = q /\ x.dh <= s.dhr => PassedOver(t, x)
  BY <1>5, <1>7 DEF PassedOver
<1>11. ASSUME NEW i \in 1..Len(s.skipped) PROVE \E y \in W : OfText(s.skipped[i], y)
  <2>1. PICK y \in wire : Unread(wire, got[p], p, y) /\ OfText(s.skipped[i], y)
    BY <1>1 DEF KeptOk
  <2>2. y.from = q /\ (y.dh < s.dhr \/ y.dh = s.dhr)
    BY <1>1, <2>1 DEF Sound, OfText, Unread
  <2>3. y.dh <= s.dhr
    BY <1>7, <2>2
  <2>4. y # m
    BY <1>7, <2>1 DEF HasSkipped, OfText
  <2> QED BY <1>1, <1>10, <2>1, <2>2, <2>3, <2>4
<1>12. ASSUME NEW x \in Nat, x < m.pn
       PROVE  s.ckr.n = s.nr /\ \E y \in wire : /\ y.from = q /\ y.dh = s.dhr /\ y.n = x
                                                /\ y.mk = Ck(s.ckr.root, x)
  <2>1. PICK y \in wire : y.from = q /\ y.dh = s.dhr /\ y.n = x
    BY <1>9, <1>12 DEF Sent
  <2>2. y.mk = Ck(y.mk.root, x) /\ s.ckr.root = y.mk.root /\ s.ckr.n = s.nr
    BY <1>2, <2>1 DEF Chained
  <2> QED BY <2>1, <2>2
<1>13. m.pn > s.nr => s.ckr.n = s.nr
  BY <1>7, <1>12
<1>14. ASSUME NEW x \in Nat, x >= s.nr, x < m.pn
       PROVE  \E y \in W : y.dh = s.dhr /\ y.n = x /\ y.mk = Ck(s.ckr.root, x)
  <2>1. PICK y \in wire : y.from = q /\ y.dh = s.dhr /\ y.n = x /\ y.mk = Ck(s.ckr.root, x)
    BY <1>12, <1>14
  <2>2. ~PassedOver(s, y) /\ y.dh # m.dh /\ y.dh <= s.dhr
    BY <1>5, <1>7, <1>14, <2>1 DEF PassedOver
  <2>3. Unread(wire, got[p], p, y) /\ y # m /\ PassedOver(t, y)
    BY <1>1, <1>10, <2>1, <2>2 DEF Unread
  <2> QED BY <1>1, <2>1, <2>3
<1>15. ASSUME NEW x \in Nat, x < m.n
       PROVE  \E y \in W : y.dh = m.dh /\ y.n = x /\ y.mk = Ck(m.mk.root, x)
  <2>1. PICK y \in wire : y.from = q /\ y.dh = m.dh /\ y.n = x
    BY <1>9, <1>15 DEF Sent
  <2>2. y.mk = Ck(m.mk.root, x)
    BY <1>2, <1>6, <2>1
  <2>3. ~PassedOver(s, y) /\ y.n # m.n /\ x < m.n + 1
    BY <1>5, <1>7, <1>15, <2>1 DEF PassedOver
  <2>4. PassedOver(t, y)
    BY <1>5, <2>1, <2>3 DEF PassedOver
  <2>5. Unread(wire, got[p], p, y) /\ y # m
    BY <1>1, <2>1, <2>3 DEF Unread
  <2> QED BY <1>1, <2>1, <2>2, <2>4, <2>5
<1>16. m.mk.root # NoKey /\ Sorted(s.skipped)
  BY <1>1, <1>2 DEF KeptOk
<1>17. /\ Sorted(t.skipped)
       /\ \A j \in 1..Len(t.skipped) : \E y \in W : OfText(t.skipped[j], y)
       /\ \A x \in W :
            \/ \E i \in 1..Len(s.skipped) : OfText(s.skipped[i], x)
            \/ s.ckr # NoChain /\ OfChain(s.ckr.root, s.dhr, s.nr, m.pn, x)
            \/ OfChain(m.mk.root, m.dh, 0, m.n, x)
            => KeptOrCrowded(W, t.skipped, x)
  <2> DEFINE pn == m.pn
             n == m.n
             dh == m.dh
             root == m.mk.root
             u == Skipped(Stepped(Skipped(s, pn), dh, k), n)
  <2>1. TurnSkips(s, W, pn, n, dh, k, root, u)
    BY <1>1, <1>5, <1>7, <1>11, <1>13, <1>14, <1>15, <1>16 DEF TurnSkips
  <2>2. t.skipped = u.skipped
    BY <1>5
  <2> HIDE DEF pn, n, dh, root, u
  <2>3. /\ Sorted(u.skipped)
        /\ \A j \in 1..Len(u.skipped) : \E y \in W : OfText(u.skipped[j], y)
        /\ \A x \in W :
             \/ \E i \in 1..Len(s.skipped) : OfText(s.skipped[i], x)
             \/ s.ckr # NoChain /\ OfChain(s.ckr.root, s.dhr, s.nr, pn, x)
             \/ OfChain(root, dh, 0, n, x)
             => KeptOrCrowded(W, u.skipped, x)
    BY ONLY <2>1, TurnTexts
  <2> QED BY <2>2, <2>3 DEF pn, n, dh, root
<1>18. ASSUME NEW x \in W
       PROVE  \/ x \in lost
              \/ \E i \in 1..Len(s.skipped) : OfText(s.skipped[i], x)
              \/ s.ckr # NoChain /\ OfChain(s.ckr.root, s.dhr, s.nr, m.pn, x)
              \/ OfChain(m.mk.root, m.dh, 0, m.n, x)
  <2>1. Unread(wire, got[p], p, x) /\ x # m /\ PassedOver(t, x) /\ x \in wire /\ x.from = q
    BY <1>1 DEF Unread
  <2>2. /\ IsText(x) /\ x.mk = Ck(x.mk.root, x.n) /\ x.mk.root # NoKey /\ Chained(x, r, s)
        /\ (x.dh = r.dhs <=> x.mk.root = r.rk) /\ x.n \in Nat /\ x.dh \in Nat
    BY <1>2, <1>7, <2>1
  <2>3. CASE PassedOver(s, x)
    BY <1>1, <2>1, <2>3 DEF KeptOk
  <2>4. CASE ~PassedOver(s, x) /\ x.dh = s.dhr
    <3>1. x.n >= s.nr
      BY <1>7, <2>2, <2>4 DEF PassedOver
    <3>2. s.ckr.root = x.mk.root /\ s.ckr # NoChain
      BY <2>2, <2>4, ChainKeysAre DEF Chained
    <3>3. x.mk.root # r.rk
      BY <1>5, <1>6, <1>7, <2>2, <2>4
    <3>4. x.n < m.pn
      BY <1>6, <1>8, <2>2, <2>4, <3>3 DEF Chained
    <3> QED BY <2>2, <2>4, <3>1, <3>2, <3>4 DEF OfChain
  <2>5. CASE ~PassedOver(s, x) /\ x.dh # s.dhr
    <3>1. x.dh > s.dhr
      BY <1>7, <2>2, <2>5 DEF PassedOver
    <3>2. ~(x.dh <= s.dhr)
      BY <1>7, <2>2, <3>1
    <3>3. x.mk.root = r.rk /\ x.dh = m.dh
      BY <1>6, <2>2, <3>2 DEF Chained
    <3>4. x.n < m.n + 1 /\ x.n # m.n
      BY <1>1, <1>5, <1>7, <2>1, <3>3 DEF PassedOver
    <3>5. x.n >= 0 /\ x.n < m.n
      BY <1>7, <2>2, <3>4
    <3> QED BY <1>6, <2>2, <3>3, <3>5 DEF OfChain
  <2> QED BY <2>3, <2>4, <2>5
<1> QED BY <1>17, <1>18 DEF AllKept, KeptOrCrowded

\* The texts of p, in state t, and those of q, in state r, fit both states.
Linked(p, q, t, r) ==
    /\ \A x \in wire : /\ x.from = p => Chained(x, t, r)
                       /\ x.from = q => Chained(x, r, t)
    /\ Follows(wire, p, t, r) /\ Follows(wire, q, r, t)

LEMMA LinkedSame ==
    ASSUME RatchetIInv, TextsIInv, NEW p \in Sides, NEW q, q = Peer(p),
           NEW k, k = fresh + 1, NEW s, NEW r, NEW m, NEW t, NEW W, Opening(p, s, r, m, t, W),
           HasSkipped(s, m) \/ ~NewChain(s, m)
    PROVE  Linked(p, q, t, r)
<1>1. /\ s \in EndStates /\ Sound(s.skipped, s.dhr, s.nr) /\ k \in Nat /\ m \in wire /\ m.from = q
      /\ q \in Sides /\ Peer(q) = p /\ t = Decrypted(s, m, k) /\ Outcome(s, m, k) = "ok"
      /\ s = ends[p] /\ r = ends[q] /\ Follows(wire, q, r, s) /\ Follows(wire, p, s, r)
  BY OpeningFacts
<1>2. /\ r \in EndStates
      /\ \A x \in wire : x.from = q => Chained(x, r, s) /\ x.mk.n = x.n
                                       /\ (x.dh = r.dhs => x.n < r.ns)
  BY <1>1, TextsAre
<1>3. \A x \in wire : x.from = p => Chained(x, s, r)
  BY <1>1, TextsAre
<1>4. IsText(m) /\ Len(m.mk.root) >= 1
  BY <1>1 DEF RatchetIInv, WireOk, TextOk
<1>5. m.n \in Nat /\ r.ns \in Nat
  BY <1>2, <1>4 DEF IsText, EndStates
<1>6. /\ t.dhs = s.dhs /\ t.dhr = s.dhr /\ t.rk = s.rk /\ t.cks = s.cks /\ t.ns = s.ns
      /\ t.pn = s.pn
      /\ \/ t.ckr = s.ckr /\ t.nr = s.nr
         \/ /\ m.dh = s.dhr /\ t.nr = m.n + 1 /\ t.ckr.root = s.ckr.root
            /\ t.ckr.n = m.n + 1
  <2>1. CASE HasSkipped(s, m)
    BY <1>1, <2>1, OpenedKept
  <2>2. CASE ~HasSkipped(s, m) /\ ~NewChain(s, m)
    <3>1. /\ s \in EndStates /\ IsText(m) /\ k \in Nat /\ t = Decrypted(s, m, k)
          /\ Outcome(s, m, k) = "ok" /\ ~HasSkipped(s, m) /\ ~NewChain(s, m)
          /\ Len(m.mk.root) >= 1 /\ Sound(s.skipped, s.dhr, s.nr)
      BY <1>1, <1>4, <2>2
    <3>2. /\ t.dhs = s.dhs /\ t.dhr = s.dhr /\ t.rk = s.rk /\ t.cks = s.cks /\ t.ns = s.ns
          /\ t.pn = s.pn
          /\ m.dh = s.dhr /\ t.nr = m.n + 1 /\ s.ckr.root = m.mk.root
          /\ t.ckr.root = m.mk.root /\ t.ckr.n = m.mk.n + 1
      BY ONLY <3>1, OpenedOnChain
    <3> QED BY <1>1, <1>2, <3>2
  <2> QED BY <2>1, <2>2
<1>7. (Ahead(t, r) <=> Ahead(s, r)) /\ (Ahead(r, t) <=> Ahead(r, s))
  BY <1>6 DEF Ahead
<1>8. \A x \in wire : x.from = p => Chained(x, t, r)
  BY <1>3, <1>6, <1>7 DEF Chained
<1>9. \A x \in wire : x.from = q => Chained(x, r, t)
  BY <1>2, <1>6, <1>7 DEF Chained
<1>10. Follows(wire, p, t, r)
  BY <1>1, <1>6, <1>7 DEF Follows, CanSend
<1>11. Follows(wire, q, r, t)
  <2>1. t.dhr = r.dhs => t.nr <= r.ns
    <3>1. CASE t.nr = s.nr
      BY <1>1, <1>6, <3>1 DEF Follows
    <3>2. CASE m.dh = s.dhr /\ t.nr = m.n + 1
      BY <1>1, <1>2, <1>5, <1>6, <3>2
    <3> QED BY <1>6, <3>1, <3>2
  <2>2. CanSend(r) /\ t.dhr = r.dhs => t.ckr.root = r.rk /\ t.ckr.n = t.nr
    BY <1>1, <1>6 DEF Follows
  <2>3. /\ Ahead(t, r) => t.dhr = r.dhs
        /\ \A x \in Nat : x < r.ns => Sent(wire, q, r.dhs, x)
        /\ Ahead(r, t) => \A x \in Nat : x < r.pn => Sent(wire, q, t.dhr, x)
    BY <1>1, <1>6, <1>7 DEF Follows
  <2> QED BY <2>1, <2>2, <2>3 DEF Follows
<1> QED BY <1>8, <1>9, <1>10, <1>11 DEF Linked

\* What p is turned to by the first text of a chain it has not seen.
LEMMA Turned ==
    ASSUME RatchetIInv, TextsIInv, NEW p \in Sides, NEW q, q = Peer(p),
           NEW k, k = fresh + 1, NEW s, NEW r, NEW m, NEW t, NEW W, Opening(p, s, r, m, t, W),
           ~HasSkipped(s, m), NewChain(s, m)
    PROVE  /\ Ahead(r, s) /\ m.mk.root = r.rk /\ m.dh = r.dhs /\ m.dh > s.dhr
           /\ t \in EndStates /\ m.mk.n = m.n /\ m.n \in Nat
           /\ t.dhs = k /\ t.dhr = m.dh /\ t.nr = m.n + 1 /\ t.ns = 0
           /\ t.rk = Append(m.mk.root, Dh(k, m.dh)) /\ t.pn = s.ns
           /\ t.ckr.root = m.mk.root /\ t.ckr.n = m.n + 1
<1>1. /\ s \in EndStates /\ Sound(s.skipped, s.dhr, s.nr) /\ k \in Nat /\ m \in wire /\ m.from = q
      /\ q \in Sides /\ Peer(q) = p /\ t = Decrypted(s, m, k) /\ Outcome(s, m, k) = "ok"
      /\ s = ends[p] /\ r = ends[q]
  BY OpeningFacts
<1>2. /\ (Ahead(s, r) \/ Ahead(r, s)) /\ EndOk(p, s, fresh) /\ EndOk(q, r, fresh)
  BY <1>1, TextsAre
<1>3. IsText(m) /\ TextOk(q, r, m) /\ m.mk.n = m.n
  BY <1>1 DEF RatchetIInv, WireOk, TextOk
<1>4. m.mk.root = RecvRoot(s, m.dh) =>
        Ahead(r, s) /\ m.mk.root = r.rk /\ m.dh = r.dhs /\ m.dh > s.dhr
  <2> DEFINE made == fresh
  <2>1. /\ p \in Sides /\ q \in Sides /\ EndOk(p, s, made) /\ EndOk(q, r, made)
        /\ Ahead(s, r) \/ Ahead(r, s)
        /\ TextOk(q, r, m)
    BY <1>1, <1>2, <1>3
  <2> HIDE DEF made
  <2> QED BY ONLY <2>1, TurnFact
<1>5. m.mk.root = Append(s.rk, Dh(s.dhs, m.dh)) => m.dh > s.dhr
  BY <1>4 DEF RecvRoot
<1>6. /\ s \in EndStates /\ IsText(m) /\ k \in Nat /\ t = Decrypted(s, m, k)
      /\ Outcome(s, m, k) = "ok" /\ ~HasSkipped(s, m) /\ NewChain(s, m)
      /\ m.mk.root = Append(s.rk, Dh(s.dhs, m.dh)) => m.dh > s.dhr
      /\ Sound(s.skipped, s.dhr, s.nr)
  BY <1>1, <1>3, <1>5
<1>7. /\ t \in EndStates
      /\ m.mk.root = Append(s.rk, Dh(s.dhs, m.dh))
      /\ t.dhs = k /\ t.dhr = m.dh /\ t.nr = m.n + 1 /\ t.ns = 0
      /\ t.rk = Append(m.mk.root, Dh(k, m.dh))
      /\ t.pn = s.ns /\ t.ckr.root = m.mk.root /\ t.ckr.n = m.mk.n + 1
  BY ONLY <1>6, OpenedNewChain
<1>8. m.n \in Nat
  BY <1>3 DEF IsText
<1> QED BY <1>3, <1>4, <1>7, <1>8 DEF RecvRoot

LEMMA LinkedTurn ==
    ASSUME RatchetIInv, TextsIInv, NEW p \in Sides, NEW q, q = Peer(p),
           NEW k, k = fresh + 1, NEW s, NEW r, NEW m, NEW t, NEW W, Opening(p, s, r, m, t, W),
           ~HasSkipped(s, m), NewChain(s, m)
    PROVE  Linked(p, q, t, r)
<1>1. /\ Ahead(r, s) /\ m.mk.root = r.rk /\ m.dh = r.dhs /\ m.dh > s.dhr
      /\ t \in EndStates /\ m.n \in Nat
      /\ t.dhs = k /\ t.dhr = m.dh /\ t.nr = m.n + 1 /\ t.ns = 0
      /\ t.rk = Append(m.mk.root, Dh(k, m.dh)) /\ t.pn = s.ns
      /\ t.ckr.root = m.mk.root /\ t.ckr.n = m.n + 1
  BY Turned
<1>2. /\ q \in Sides /\ Peer(q) = p /\ s = ends[p] /\ r = ends[q] /\ k \in Nat
      /\ Follows(wire, q, r, s) /\ Follows(wire, p, s, r) /\ m \in wire /\ m.from = q
  BY OpeningFacts
<1>3. /\ r \in EndStates /\ s \in EndStates /\ EndOk(p, s, fresh) /\ EndOk(q, r, fresh)
      /\ \A x \in wire : x.from = q => Chained(x, r, s) /\ (x.dh = r.dhs => x.n < r.ns)
                                       /\ (x.dh = r.dhs => x.mk.root = r.rk)
  BY <1>2, TextsAre
<1>4. \A x \in wire : x.from = p =>
        /\ IsText(x) /\ x.mk.root \in Roots /\ Chained(x, s, r) /\ x.dh <= s.dhs
        /\ x.dh = s.dhs => x.n < s.ns
        /\ Len(x.mk.root) <= Len(s.rk)
  BY <1>2, TextsAre
<1>5. /\ s.rk \in Roots /\ r.rk \in Roots /\ t.rk \in Roots /\ s.dhs \in Nat /\ r.dhs \in Nat
      /\ r.dhr \in Nat /\ r.ns \in Nat /\ fresh \in Nat /\ s.dhs <= fresh /\ r.dhr <= fresh
      /\ r.dhs <= fresh
  BY <1>1, <1>3 DEF EndStates, EndOk, RatchetIInv, EndsOk
<1>6. k > fresh
  BY <1>5
<1>7. Ahead(t, r) /\ ~Ahead(r, t)
  <2>1. Dh(k, r.dhs) = Dh(r.dhs, k)
    BY DEF Dh
  <2>2. r.dhr < k
    BY <1>2, <1>5, <1>6
  <2>3. Ahead(t, r)
    BY <1>1, <2>1, <2>2 DEF Ahead
  <2> QED BY <1>1, <1>3, <2>3, NotBoth
<1>8. Len(s.rk) < Len(t.rk)
  <2>1. Len(s.rk) \in Nat /\ Len(r.rk) \in Nat
    BY <1>5, ChainKeysAre
  <2>2. Len(Append(s.rk, Dh(s.dhs, r.dhs))) = Len(s.rk) + 1
    BY <1>5, ChainKeysAre
  <2>3. Len(r.rk) = Len(s.rk) + 1
    BY <1>1, <2>2 DEF Ahead
  <2>4. Len(Append(r.rk, Dh(k, r.dhs))) = Len(r.rk) + 1
    BY <1>2, <1>5, ChainKeysAre
  <2> QED BY <1>1, <2>1, <2>3, <2>4
<1>9. r.dhr = s.dhs
  BY <1>1, <1>2 DEF Follows
<1>10. ASSUME NEW x \in wire, x.from = p PROVE Chained(x, t, r)
  <2>1. x.dh \in Nat /\ Len(x.mk.root) \in Nat /\ Len(s.rk) \in Nat /\ Len(t.rk) \in Nat
    BY <1>4, <1>5, <1>10, ChainKeysAre DEF IsText
  <2>2. x.mk.root # t.rk
    BY <1>4, <1>8, <1>10, <2>1
  <2>3. x.dh < t.dhs
    BY <1>1, <1>2, <1>4, <1>5, <1>6, <1>10, <2>1
  <2>4. x.dh <= r.dhr /\ (x.dh = r.dhr => x.n < t.pn)
    BY <1>1, <1>4, <1>9, <1>10
  <2>5. x.dh = r.dhr => r.ckr.root = x.mk.root /\ r.ckr.n = r.nr
    BY <1>4, <1>10 DEF Chained
  <2> QED BY <2>2, <2>3, <2>4, <2>5 DEF Chained
<1>11. ASSUME NEW x \in wire, x.from = q PROVE Chained(x, r, t)
  BY <1>1, <1>3, <1>7, <1>11 DEF Chained
<1>12. Follows(wire, p, t, r)
  <2>1. r.dhr # t.dhs
    BY <1>1, <1>5, <1>6
  <2>2. \A x \in Nat : ~(x < t.ns)
    BY <1>1
  <2>3. \A x \in Nat : x < t.pn => Sent(wire, p, r.dhr, x)
    BY <1>1, <1>2, <1>9 DEF Follows
  <2> QED BY <1>7, <2>1, <2>2, <2>3 DEF Follows
<1>13. Follows(wire, q, r, t)
  <2>1. t.nr <= r.ns
    BY <1>1, <1>2, <1>3, <1>5
  <2> QED BY <1>1, <1>2, <1>7, <2>1 DEF Follows
<1> QED BY <1>10, <1>11, <1>12, <1>13 DEF Linked

LEMMA OpenKeepsTexts ==
    ASSUME RatchetIInv, TextsIInv, NEW p \in Sides, NEW m \in wire, Opens(p, m)
    PROVE  TextsIInv'
<1> DEFINE s == ends[p]
           q == Peer(p)
           r == ends[q]
           k == fresh + 1
           t == Decrypted(s, m, k)
           W == Waiting(p, t, got[p] \cup {m})
           Crowded == {x \in W : Cardinality(Newer(W, x)) >= MAX_SKIPPED_KEYS}
<1>1. /\ m.from # p /\ Outcome(s, m, k) = "ok" /\ wire' = wire /\ ends' = [ends EXCEPT ![p] = t]
      /\ got' = [got EXCEPT ![p] = @ \cup {m}]
      /\ lost' = lost \cup Crowded
  BY DEF Opens, Newer
<1>2. q = Peer(p) /\ q \in Sides /\ Peer(q) = p /\ q # p /\ \A x \in Sides : x = p \/ x = q
  BY PeersAre
<1>3. \A x \in wire : x.from \in Sides
  BY DEF RatchetIInv, WireOk, TextOk, IsText
<1>4. DOMAIN ends = Sides /\ DOMAIN got = Sides
  BY DEF RatchetIInv, EndsOk, GotOk
<1>5. Opening(p, s, r, m, t, W) /\ k = fresh + 1
  BY <1>1, <1>2, <1>3 DEF Opening
<1> HIDE DEF t
<1>6. ends'[p] = t /\ ends'[q] = r /\ got'[p] = got[p] \cup {m} /\ got'[q] = got[q]
  BY <1>1, <1>2, <1>4
<1> HIDE DEF s, q, r, k, W
<1>7. \A x : x \in W <=> Unread(wire, got[p], p, x) /\ x # m /\ PassedOver(t, x)
  BY <1>2, <1>5, OpeningFacts
<1>8. Linked(p, q, t, r)
  BY <1>2, <1>5, LinkedSame, LinkedTurn
<1>9. AllKept(W, t)
  BY <1>2, <1>5, SettledKept, SettledOnChain, SettledTurn
<1>10. KeptOk(wire', got'[p], lost', p, t)
  <2>1. Sorted(t.skipped)
    BY <1>9 DEF AllKept
  <2>2. ASSUME NEW i \in 1..Len(t.skipped)
        PROVE  \E y \in wire : Unread(wire, got'[p], p, y) /\ OfText(t.skipped[i], y)
    <3>1. PICK y \in W : OfText(t.skipped[i], y)
      BY <1>9 DEF AllKept
    <3>2. Unread(wire, got[p], p, y) /\ y # m
      BY <1>7
    <3>3. Unread(wire, got'[p], p, y) /\ y \in wire
      BY <1>6, <3>2 DEF Unread
    <3> QED BY <3>1, <3>3
  <2>3. ASSUME NEW x \in wire, Unread(wire, got'[p], p, x), PassedOver(t, x), x \notin lost'
        PROVE  \E i \in 1..Len(t.skipped) : OfText(t.skipped[i], x)
    <3>1. Unread(wire, got[p], p, x) /\ x # m
      BY <1>6, <2>3 DEF Unread
    <3>2. x \in W /\ x \notin lost /\ x \notin Crowded
      BY <1>1, <1>7, <2>3, <3>1
    <3> QED BY <1>9, <3>2 DEF AllKept
  <2> QED BY <1>1, <2>1, <2>2, <2>3 DEF KeptOk
<1>11. KeptOk(wire', got'[q], lost', q, r)
  <2>1. KeptOk(wire, got[q], lost, q, r)
    BY <1>2 DEF TextsIInv, r
  <2>2. \A x : x \notin lost' => x \notin lost
    BY <1>1
  <2> QED BY <1>1, <1>6, <2>1, <2>2 DEF KeptOk
<1>12. IsFiniteSet(wire') /\ TextsDiffer'
  BY <1>1 DEF TextsIInv, TextsDiffer
<1>13. Follows(wire', p, t, r) /\ Follows(wire', q, r, t)
  BY <1>1, <1>8 DEF Linked
<1>14. \A x \in wire' : /\ x.from \in Sides
                        /\ x.from = p => Chained(x, t, r)
                        /\ x.from = q => Chained(x, r, t)
  BY <1>1, <1>3, <1>8 DEF Linked
<1>15. p \in Sides /\ ends'[p] = t /\ ends'[q] = r
  BY <1>6
<1> HIDE DEF Crowded
<1> QED BY ONLY <1>2, <1>10, <1>11, <1>12, <1>13, <1>14, <1>15, TextsAfter

LEMMA TextsIInvStep == RatchetIInv /\ TextsIInv /\ [RatchetNext]_ratchetVars => TextsIInv'
<1> SUFFICES ASSUME RatchetIInv, TextsIInv, [RatchetNext]_ratchetVars PROVE TextsIInv'
  OBVIOUS
<1>1. CASE RatchetNext
  BY <1>1, SendKeepsTexts, OpenKeepsTexts DEF RatchetNext
<1>2. CASE UNCHANGED ratchetVars
  BY <1>2 DEF ratchetVars, TextsIInv, TextsDiffer
<1> QED BY <1>1, <1>2

\* Whatever has been sent and not decrypted can be decrypted now, unless it is more than
\* MAX_SKIP messages of a chain ahead or MAX_SKIPPED_KEYS newer ones were passed over with
\* it (skipMessageKeys, dhRatchet and ratchetDecrypt).
THEOREM RatchetEveryTextOpens == RatchetSpec => []EveryTextOpens
<1>1. RatchetInit => RatchetIInv /\ TextsIInv
  BY RatchetInitInv, TextsInit
<1>2. RatchetIInv /\ TextsIInv /\ [RatchetNext]_ratchetVars => (RatchetIInv /\ TextsIInv)'
  BY RatchetIInvStep, TextsIInvStep
<1> QED BY <1>1, <1>2, EveryTextOpensNow, PTL DEF RatchetSpec

\* No message is lost, none is decrypted twice and no key is used twice, for every limit
\* and any number of messages, turns and deliveries (ratchet.ts).
THEOREM RatchetEveryTextOpensOnce == RatchetSpec => []EveryTextOpensOnce
<1>1. EveryTextOpens /\ NoneOpensTwice /\ NoKeyTwice => EveryTextOpensOnce
  BY DEF EveryTextOpensOnce
<1> QED BY <1>1, RatchetEveryTextOpens, RatchetNoneOpensTwice, RatchetNoKeyTwice, PTL

-----------------------------------------------------------------------------
(* That few keys are kept *)

LEMMA SkippedBounded ==
    ASSUME NEW s \in EndStates, NEW until \in Nat, NEW t, t = Skipped(s, until),
           Len(s.skipped) <= MAX_SKIPPED_KEYS
    PROVE  Len(t.skipped) <= MAX_SKIPPED_KEYS
<1>0. s.nr \in Nat /\ s.skipped \in Seq(Kept)
  BY DEF EndStates
<1>1. CASE s.ckr = NoChain \/ until <= s.nr
  BY <1>1 DEF Skipped
<1>2. CASE ~(s.ckr = NoChain \/ until <= s.nr)
  <2> DEFINE N == until - s.nr
             keys == [i \in 1..N |->
                        [dh |-> s.dhr, n |-> s.nr + i - 1, mk |-> [s.ckr EXCEPT !.n = @ + i - 1]]]
             S == Kept \cup {keys[i] : i \in 1..N}
             q == s.skipped
             L == LastOf(q \o keys, MAX_SKIPPED_KEYS)
  <2>1. t.skipped = L
    <3>1. t = [s EXCEPT !.ckr.n = @ + (until - s.nr), !.nr = until, !.skipped = L]
      BY <1>2, Zenon DEF Skipped, LastOf
    <3> HIDE DEF L
    <3> QED BY <3>1 DEF EndStates
  <2>2. N \in Nat
    BY <1>0, <1>2
  <2>3. keys = [i \in 1..N |-> keys[i]]
    BY Zenon
  <2>4. \A i \in 1..N : keys[i] \in S
    OBVIOUS
  <2>5. q \in Seq(S)
    <3>1. \A i \in 1..Len(q) : q[i] \in S
      BY <1>0
    <3>2. q = [i \in 1..Len(q) |-> q[i]] /\ Len(q) \in Nat
      BY <1>0
    <3> HIDE DEF S, q
    <3>3. [i \in 1..Len(q) |-> q[i]] \in Seq(S)
      BY <3>1, <3>2, IsASeq
    <3> QED BY <3>2, <3>3
  <2> HIDE DEF keys, N, S, q
  <2>6. [i \in 1..N |-> keys[i]] \in Seq(S)
    BY <2>2, <2>4, IsASeq
  <2>7. q \o keys \in Seq(S) /\ MAX_SKIPPED_KEYS \in Nat
    BY <2>3, <2>5, <2>6, ConcatProperties, RatchetBounds
  <2>8. Len(L) <= MAX_SKIPPED_KEYS
    <3> DEFINE all == q \o keys
               M == MAX_SKIPPED_KEYS
    <3>1. all \in Seq(S) /\ M \in Nat
      BY <2>7
    <3> HIDE DEF all, M
    <3>2. Len(LastOf(all, M)) <= M
      BY ONLY <3>1, LastKept
    <3> QED BY <3>2 DEF all, M
  <2> HIDE DEF L
  <2> QED BY <2>1, <2>8
<1> QED BY <1>1, <1>2

LEMMA FewKeptStep == RatchetIInv /\ FewKept /\ [RatchetNext]_ratchetVars => FewKept'
<1> SUFFICES ASSUME RatchetIInv, FewKept, [RatchetNext]_ratchetVars PROVE FewKept'
  OBVIOUS
<1>0. DOMAIN ends = Sides /\ TurnOk /\ fresh \in Nat /\ \A p \in Sides : EndOk(p, ends[p], fresh)
  BY DEF RatchetIInv, EndsOk
<1>1. ASSUME NEW p \in Sides, NEW t, ends' = [ends EXCEPT ![p] = t],
             Len(t.skipped) <= MAX_SKIPPED_KEYS
      PROVE  FewKept'
  BY <1>0, <1>1, EndsAfter DEF FewKept
<1>2. ASSUME NEW p \in Sides, SendsText(p) PROVE FewKept'
  <2> DEFINE s == ends[p]
             t == Encrypted(s)
  <2>1. s \in EndStates /\ t = Encrypted(s) /\ Len(s.skipped) <= MAX_SKIPPED_KEYS
    BY <1>0 DEF EndOk, FewKept
  <2>2. ends' = [ends EXCEPT ![p] = t]
    BY <1>2 DEF SendsText
  <2> HIDE DEF s, t
  <2>3. t.skipped = s.skipped
    BY <2>1, EncryptedIs
  <2> QED BY <1>1, <2>1, <2>2, <2>3
<1>3. ASSUME NEW p \in Sides, NEW m \in wire, Opens(p, m) PROVE FewKept'
  <2> DEFINE s == ends[p]
             q == Peer(p)
             r == ends[q]
             k == fresh + 1
             made == fresh
             t == Decrypted(s, m, k)
  <2>1. /\ m.from # p /\ ends' = [ends EXCEPT ![p] = t]
        /\ t = Decrypted(s, m, k) /\ Outcome(s, m, k) = "ok"
    BY <1>3 DEF Opens
  <2>2. m.from \in Sides /\ TextOk(m.from, ends[m.from], m)
    BY DEF RatchetIInv, WireOk, TextOk, IsText
  <2>3. q \in Sides /\ m.from = q
    BY <2>1, <2>2, PeersAre
  <2>4. /\ EndOk(p, s, made) /\ EndOk(q, r, made) /\ TextOk(q, r, m)
        /\ Ahead(s, r) \/ Ahead(r, s)
    BY <1>0, <2>2, <2>3, TurnAfter
  <2>5. k \in Nat /\ Len(s.skipped) <= MAX_SKIPPED_KEYS
    BY <1>0 DEF FewKept
  <2> HIDE DEF s, q, r, k, made, t
  <2>6. /\ s \in EndStates /\ Sound(s.skipped, s.dhr, s.nr) /\ IsText(m) /\ Len(m.mk.root) >= 1
    BY <2>4 DEF EndOk, TextOk
  <2>7. m.n \in Nat /\ m.pn \in Nat /\ m.dh \in Nat
    BY <2>6 DEF IsText
  <2>8. CASE HasSkipped(s, m)
    <3> DEFINE e == s.skipped
               i == SkippedAt(s, m)
               f == RemoveAt(e, i)
    <3>1. e \in Seq(Kept) /\ DOMAIN e = 1..Len(e) /\ Len(e) \in Nat
      BY <2>6 DEF EndStates
    <3>2. i \in 1..Len(e)
      BY <2>8, <3>1, Zenon DEF HasSkipped, SkippedAt
    <3>3. t.skipped = f
      <4>1. t = [s EXCEPT !.skipped = f]
        BY <2>1, <2>8 DEF Decrypted
      <4> HIDE DEF f
      <4> QED BY <2>6, <4>1 DEF EndStates
    <3>4. Len(e) <= MAX_SKIPPED_KEYS
      BY <2>5
    <3> HIDE DEF e, i
    <3>5. Len(f) = Len(e) - 1
      BY ONLY <3>1, <3>2, ElementRemoved
    <3> HIDE DEF f
    <3>6. Len(t.skipped) <= MAX_SKIPPED_KEYS
      BY <3>1, <3>3, <3>4, <3>5, RatchetBounds
    <3> QED BY <1>1, <2>1, <3>6
  <2>9. CASE ~HasSkipped(s, m) /\ ~NewChain(s, m)
    <3>1. t.skipped = Skipped(s, m.n).skipped
      BY <2>1, <2>5, <2>6, <2>9, OpenedOnChain
    <3>2. Len(t.skipped) <= MAX_SKIPPED_KEYS
      BY <2>5, <2>6, <2>7, <3>1, SkippedBounded
    <3> QED BY <1>1, <2>1, <3>2
  <2>10. CASE ~HasSkipped(s, m) /\ NewChain(s, m)
    <3> DEFINE pn == m.pn
               n == m.n
               dh == m.dh
               a == Skipped(s, pn)
               b == Stepped(a, dh, k)
    <3>1. m.mk.root = Append(s.rk, Dh(s.dhs, m.dh)) => m.dh > s.dhr
      <4>1. m.mk.root = RecvRoot(s, m.dh) => m.dh > s.dhr
        BY ONLY <2>3, <2>4, p \in Sides, TurnFact
      <4> QED BY <4>1 DEF RecvRoot
    <3>2. t.skipped = Skipped(Stepped(Skipped(s, m.pn), m.dh, k), m.n).skipped
      <4>1. /\ s \in EndStates /\ IsText(m) /\ k \in Nat /\ t = Decrypted(s, m, k)
            /\ Outcome(s, m, k) = "ok" /\ ~HasSkipped(s, m) /\ NewChain(s, m)
            /\ m.mk.root = Append(s.rk, Dh(s.dhs, m.dh)) => m.dh > s.dhr
            /\ Sound(s.skipped, s.dhr, s.nr)
        BY <2>1, <2>5, <2>6, <2>10, <3>1
      <4> QED BY ONLY <4>1, OpenedNewChain
    <3>3. /\ pn \in Nat /\ n \in Nat /\ dh \in Nat /\ a = Skipped(s, pn)
          /\ b = Stepped(a, dh, k) /\ t.skipped = Skipped(b, n).skipped
      BY <2>7, <3>2
    <3> HIDE DEF pn, n, dh, a, b
    <3>4. a \in EndStates
      BY ONLY <2>6, <3>3, SkippedKeeps
    <3>5. Len(a.skipped) <= MAX_SKIPPED_KEYS
      BY ONLY <2>5, <2>6, <3>3, SkippedBounded
    <3>6. b \in EndStates /\ b.skipped = a.skipped
      <4>1. a \in EndStates /\ dh \in Nat /\ k \in Nat /\ b = Stepped(a, dh, k)
        BY <2>5, <3>3, <3>4
      <4>2. (b \in EndStates) /\ SteppedTo(a, dh, k, b)
        BY ONLY <4>1, SteppedIs
      <4> QED BY ONLY <4>2 DEF SteppedTo
    <3>7. Len(t.skipped) <= MAX_SKIPPED_KEYS
      BY <3>3, <3>5, <3>6, SkippedBounded
    <3> QED BY <1>1, <2>1, <3>7
  <2> QED BY <2>8, <2>9, <2>10
<1>4. CASE UNCHANGED ratchetVars
  BY <1>4 DEF ratchetVars, FewKept
<1> QED BY <1>2, <1>3, <1>4 DEF RatchetNext

\* No session ever keeps more than MAX_SKIPPED_KEYS skipped keys (skipMessageKeys).
THEOREM RatchetFewKept == RatchetSpec => []FewKept
<1>1. RatchetInit => RatchetIInv /\ FewKept
  <2> SUFFICES ASSUME RatchetInit PROVE RatchetIInv /\ FewKept
    OBVIOUS
  <2>1. \A p \in Sides : ends[p].skipped = << >>
    BY DEF RatchetInit, AliceInit, BobInit, Sides
  <2> QED BY <2>1, RatchetInitInv, RatchetBounds DEF FewKept
<1>2. RatchetIInv /\ FewKept /\ [RatchetNext]_ratchetVars => (RatchetIInv /\ FewKept)'
  BY RatchetIInvStep, FewKeptStep
<1> QED BY <1>1, <1>2, PTL DEF RatchetSpec

-----------------------------------------------------------------------------
(* Types *)

\* Every key pair after the first three was made to open a message.
Opened == got["alice"] \cup got["bob"]

\* What the bound on the messages bounds.
Counted ==
    /\ Cardinality(wire) <= MaxTexts
    /\ \A p \in Sides : ends[p].nr <= MaxTexts /\ ends[p].pn <= MaxTexts
    /\ \A m \in wire : m.n < MaxTexts /\ m.pn <= MaxTexts
    /\ got \in [Sides -> SUBSET wire] /\ lost \subseteq wire
    /\ fresh >= 3 /\ fresh <= 3 + Cardinality(Opened)

\* A chain is no longer than the messages on the way.
LEMMA ChainCounted ==
    ASSUME NEW texts, IsFiniteSet(texts), NEW q, NEW r \in EndStates, NEW s, Follows(texts, q, r, s)
    PROVE  r.ns \in Nat /\ Cardinality(texts) \in Nat /\ r.ns <= Cardinality(texts)
<1> DEFINE f == [i \in 0..(r.ns - 1) |-> CHOOSE m \in texts : m.n = i]
<1>1. r.ns \in Nat /\ Cardinality(texts) \in Nat
  BY FS_CardinalityType DEF EndStates
<1>2. \A x \in Nat : x < r.ns => Sent(texts, q, r.dhs, x)
  BY DEF Follows
<1>3. CASE r.ns = 0
  BY <1>1, <1>3
<1>4. CASE r.ns # 0
  <2>1. 0 \in Nat /\ r.ns - 1 \in Nat
    BY <1>1, <1>4
  <2>2. ASSUME NEW i \in 0..(r.ns - 1) PROVE \E m \in texts : m.n = i
    BY <1>1, <1>2, <2>1 DEF Sent
  <2>3. \A i \in 0..(r.ns - 1) : f[i] \in texts /\ f[i].n = i
    BY <2>2, Zenon
  <2>4. f \in [0..(r.ns - 1) -> texts]
    BY <2>3
  <2> HIDE DEF f
  <2>5. \A i, j \in 0..(r.ns - 1) : f[i] = f[j] => i = j
    BY <2>3
  <2>6. (r.ns - 1) - 0 + 1 <= Cardinality(texts)
    BY <2>1, <2>4, <2>5, AtLeast
  <2>7. QED  BY <1>1, <2>6
<1>5. QED  BY <1>3, <1>4

\* What one side counts when it opens a message.
LEMMA OpenCounts ==
    ASSUME RatchetIInv, NEW p \in Sides, NEW m \in wire, Opens(p, m)
    PROVE  /\ m.n \in Nat
           /\ ends'[p].nr \in {ends[p].nr, m.n + 1}
           /\ ends'[p].pn \in {ends[p].pn, ends[p].ns}
           /\ \A q \in Sides : q # p => ends'[q] = ends[q]
<1> DEFINE s == ends[p]
           t == Decrypted(s, m, fresh + 1)
<1>0. DOMAIN ends = Sides /\ TurnOk /\ fresh \in Nat /\ \A q \in Sides : EndOk(q, ends[q], fresh)
  BY DEF RatchetIInv, EndsOk
<1>1. m.from # p /\ ends' = [ends EXCEPT ![p] = t] /\ Outcome(s, m, fresh + 1) = "ok"
  BY DEF Opens
<1>2. m.from \in Sides /\ TextOk(m.from, ends[m.from], m)
  BY DEF RatchetIInv, WireOk, TextOk, IsText
<1>3. m.from = Peer(p) /\ Peer(p) \in Sides
  BY <1>1, <1>2, PeersAre
<1>4. /\ s \in EndStates /\ IsText(m) /\ Len(m.mk.root) >= 1 /\ Sound(s.skipped, s.dhr, s.nr)
      /\ m.n \in Nat /\ m.dh \in Nat /\ fresh + 1 \in Nat
  <2>1. EndOk(p, s, fresh) /\ fresh + 1 \in Nat
    BY <1>0
  <2>2. IsText(m) /\ Len(m.mk.root) >= 1
    BY <1>2 DEF TextOk
  <2>3. m.n \in Nat /\ m.dh \in Nat
    BY <2>2 DEF IsText
  <2> HIDE DEF s
  <2>4. QED  BY <2>1, <2>2, <2>3 DEF EndOk
<1>5. /\ ends'[p] = t /\ \A q \in Sides : q # p => ends'[q] = ends[q]
  BY <1>0, <1>1, EndsAfter
<1>6. m.mk.root = Append(s.rk, Dh(s.dhs, m.dh)) => m.dh > s.dhr
  <2> DEFINE q == Peer(p)
             r == ends[q]
             made == fresh
  <2>1. /\ EndOk(p, s, made) /\ EndOk(q, r, made) /\ TextOk(q, r, m)
        /\ Ahead(s, r) \/ Ahead(r, s)
        /\ q = Peer(p)
    BY <1>0, <1>2, <1>3, TurnAfter
  <2> HIDE DEF s, t, q, r, made
  <2>2. m.mk.root = RecvRoot(s, m.dh) => m.dh > s.dhr
    BY ONLY <1>3, <2>1, p \in Sides, TurnFact
  <2> QED BY <2>2 DEF RecvRoot
<1> DEFINE k == fresh + 1
<1>7. t = Decrypted(s, m, k) /\ Outcome(s, m, k) = "ok" /\ k \in Nat
  BY <1>1, <1>4
<1> HIDE DEF s, t, k
<1>8. t.nr \in {s.nr, m.n + 1} /\ t.pn \in {s.pn, s.ns}
  <2>1. CASE HasSkipped(s, m)
    <3>1. t = [s EXCEPT !.skipped = RemoveAt(@, SkippedAt(s, m))]
      BY <1>7, <2>1 DEF Decrypted
    <3>2. QED  BY <1>4, <3>1 DEF EndStates
  <2>2. CASE ~HasSkipped(s, m) /\ ~NewChain(s, m)
    <3>1. t.nr = m.n + 1 /\ t.pn = s.pn
      BY ONLY <1>4, <1>7, <2>2, OpenedOnChain
    <3>2. QED  BY <3>1
  <2>3. CASE ~HasSkipped(s, m) /\ NewChain(s, m)
    <3>1. t.nr = m.n + 1 /\ t.pn = s.ns
      BY ONLY <1>4, <1>6, <1>7, <2>3, OpenedNewChain
    <3>2. QED  BY <3>1
  <2>4. QED  BY <2>1, <2>2, <2>3
<1>9. QED  BY <1>4, <1>5, <1>8 DEF s

LEMMA SendCounts ==
    ASSUME RatchetIInv, TextsIInv, RatchetIInv', TextsIInv', Counted,
           NEW p \in Sides, SendsText(p)
    PROVE  Counted'
<1> DEFINE s == ends[p]
           m == [id |-> Cardinality(wire) + 1, from |-> p, dh |-> s.dhs,
                 pn |-> s.pn, n |-> s.ns, mk |-> s.cks]
<1>1. /\ Cardinality(wire) < MaxTexts /\ wire' = wire \cup {m}
      /\ ends' = [ends EXCEPT ![p] = Encrypted(s)]
      /\ UNCHANGED <<got, fresh, again, lost>>
  BY DEF SendsText
<1>2. IsFiniteSet(wire) /\ MaxTexts \in Nat /\ s \in EndStates /\ DOMAIN ends = Sides
  BY RatchetBounds DEF TextsIInv, RatchetIInv, EndsOk, EndOk
<1>3. m.n = s.ns /\ m.pn = s.pn
  OBVIOUS
<1> HIDE DEF m
<1>4. Cardinality(wire') <= MaxTexts
  <2>1. Cardinality(wire') \in {Cardinality(wire), Cardinality(wire) + 1}
    BY <1>1, <1>2, FS_AddElement
  <2>2. Cardinality(wire) \in Nat
    BY <1>2, FS_CardinalityType
  <2>3. QED  BY <1>1, <1>2, <2>1, <2>2
<1> DEFINE t == Encrypted(s)
<1>5. /\ ends'[p] = t /\ \A q \in Sides : q # p => ends'[q] = ends[q]
  BY <1>1, <1>2, EndsAfter
<1>6. t.nr = s.nr /\ t.pn = s.pn /\ t.ns = s.ns + 1 /\ s.ns \in Nat
  BY <1>2, EncryptedIs DEF EndStates
<1>7. ends'[p].ns <= MaxTexts
  <2>1. ends'[p] \in EndStates /\ IsFiniteSet(wire') /\ Follows(wire', p, ends'[p], ends'[Peer(p)])
    BY PeersAre DEF RatchetIInv, EndsOk, EndOk, TextsIInv
  <2>2. ends'[p].ns \in Nat /\ Cardinality(wire') \in Nat /\ ends'[p].ns <= Cardinality(wire')
    BY <2>1, ChainCounted
  <2>3. QED  BY <1>2, <1>4, <2>2
<1> HIDE DEF t
<1>8. \A q \in Sides : ends'[q].nr <= MaxTexts /\ ends'[q].pn <= MaxTexts
  BY <1>5, <1>6 DEF Counted
<1> HIDE DEF s
<1>9. m.n < MaxTexts /\ m.pn <= MaxTexts
  BY <1>2, <1>3, <1>5, <1>6, <1>7 DEF Counted, s
<1>10. \A x \in wire' : x.n < MaxTexts /\ x.pn <= MaxTexts
  BY <1>1, <1>9 DEF Counted
<1>11. got' \in [Sides -> SUBSET wire'] /\ lost' \subseteq wire' /\ Opened' = Opened
  BY <1>1 DEF Counted, Opened
<1>12. QED  BY <1>1, <1>4, <1>8, <1>10, <1>11 DEF Counted

LEMMA OpenCountsAll ==
    ASSUME RatchetIInv, TextsIInv, RatchetIInv', Counted,
           NEW p \in Sides, NEW m \in wire, Opens(p, m)
    PROVE  Counted'
<1>1. /\ wire' = wire /\ got' = [got EXCEPT ![p] = @ \cup {m}] /\ m.from # p
      /\ again' = (again \/ m \in got[p])
      /\ fresh' \in {fresh, fresh + 1}
      /\ lost' \subseteq lost \cup wire
  BY DEF Opens, Waiting
<1>2. \A q \in Sides : ends'[q].nr <= MaxTexts /\ ends'[q].pn <= MaxTexts
  <2>1. ends[p].ns <= MaxTexts
    <3>1. ends[p] \in EndStates /\ IsFiniteSet(wire) /\ Follows(wire, p, ends[p], ends[Peer(p)])
      BY DEF RatchetIInv, EndsOk, EndOk, TextsIInv
    <3>2. ends[p].ns \in Nat /\ Cardinality(wire) \in Nat /\ ends[p].ns <= Cardinality(wire)
      BY <3>1, ChainCounted
    <3>3. QED  BY <3>2, RatchetBounds DEF Counted
  <2>2. m.n + 1 <= MaxTexts
    BY OpenCounts, RatchetBounds DEF Counted
  <2>3. QED  BY <2>1, <2>2, OpenCounts DEF Counted
<1>3. got' \in [Sides -> SUBSET wire'] /\ lost' \subseteq wire'
  BY <1>1 DEF Counted
<1>4. m \notin Opened
  <2>1. m \notin got[p]
    BY <1>1 DEF RatchetIInv, NoneOpensTwice
  <2>2. \A q \in Sides : q # p => m \notin got[q]
    BY <1>1, PeersAre DEF RatchetIInv, GotOk
  <2>3. QED  BY <2>1, <2>2 DEF Opened, Sides
<1>5. Opened' = Opened \cup {m} /\ Opened \subseteq wire
  BY <1>1 DEF Opened, Counted, Sides
<1>6. Cardinality(Opened') = Cardinality(Opened) + 1 /\ Cardinality(Opened) \in Nat
  <2>1. IsFiniteSet(Opened)
    BY <1>5, FS_Subset DEF TextsIInv
  <2>2. QED  BY <1>4, <1>5, <2>1, FS_AddElement, FS_CardinalityType
<1>7. fresh' >= 3 /\ fresh' <= 3 + Cardinality(Opened')
  <2>1. fresh \in Nat
    BY DEF RatchetIInv, EndsOk
  <2>2. QED  BY <1>1, <1>6, <2>1 DEF Counted
<1>8. QED  BY <1>1, <1>2, <1>3, <1>7 DEF Counted

\* The bound on the messages bounds every counter and the key pairs; the other limit is that
\* of the keys kept (FewKept).
THEOREM RatchetTypeCorrect == RatchetSpec => []RatchetTypeOK
<1> DEFINE IInv == RatchetIInv /\ TextsIInv /\ Counted /\ again \in BOOLEAN
<1>1. RatchetInit => IInv
  <2> SUFFICES ASSUME RatchetInit PROVE Counted /\ again \in BOOLEAN
    BY RatchetInitInv, TextsInit
  <2>1. wire = {} /\ got = [p \in Sides |-> {}] /\ lost = {} /\ fresh = 3 /\ again = FALSE
    BY DEF RatchetInit
  <2>2. \A p \in Sides : ends[p].nr = 0 /\ ends[p].pn = 0
    BY DEF RatchetInit, AliceInit, BobInit, Sides
  <2>3. Cardinality(wire) = 0 /\ Opened = {} /\ Cardinality(Opened) = 0
    BY <2>1, FS_EmptySet DEF Opened, Sides
  <2>4. got \in [Sides -> SUBSET wire] /\ lost \subseteq wire
    BY <2>1
  <2>5. Counted
    BY <2>1, <2>2, <2>3, <2>4, RatchetBounds DEF Counted
  <2>6. QED  BY <2>1, <2>5
<1>2. IInv /\ [RatchetNext]_ratchetVars => IInv'
  <2> SUFFICES ASSUME IInv, [RatchetNext]_ratchetVars PROVE IInv'
    OBVIOUS
  <2>1. RatchetIInv' /\ TextsIInv'
    BY RatchetIInvStep, TextsIInvStep
  <2>2. CASE RatchetNext
    <3>1. Counted'
      BY <2>1, <2>2, SendCounts, OpenCountsAll DEF RatchetNext
    <3>2. again' \in BOOLEAN
      BY <2>2 DEF RatchetNext, SendsText, Opens
    <3>3. QED  BY <2>1, <3>1, <3>2
  <2>3. CASE UNCHANGED ratchetVars
    <3>1. UNCHANGED <<ends, wire, got, fresh, again, lost>>
      BY <2>3 DEF ratchetVars
    <3>2. Counted'
      BY <3>1 DEF Counted, Opened
    <3>3. QED  BY <2>1, <3>1, <3>2
  <2>4. QED  BY <2>2, <2>3
<1>3. IInv /\ FewKept => RatchetTypeOK
  <2> SUFFICES ASSUME IInv, FewKept PROVE RatchetTypeOK
    OBVIOUS
  <2>1. DOMAIN ends = Sides /\ \A p \in Sides : ends[p] \in EndStates
    BY DEF RatchetIInv, EndsOk, EndOk
  <2>2. \A p \in Sides : {ends[p].ns, ends[p].nr, ends[p].pn} \subseteq 0..MaxTexts
    <3>1. ASSUME NEW p \in Sides
          PROVE  /\ ends[p].ns \in Nat /\ ends[p].nr \in Nat /\ ends[p].pn \in Nat
                 /\ ends[p].ns <= MaxTexts
      <4>1. ends[p] \in EndStates /\ IsFiniteSet(wire) /\ Follows(wire, p, ends[p], ends[Peer(p)])
        BY <2>1 DEF TextsIInv
      <4>2. ends[p].ns \in Nat /\ Cardinality(wire) \in Nat /\ ends[p].ns <= Cardinality(wire)
        BY <4>1, ChainCounted
      <4>3. QED  BY <4>1, <4>2, RatchetBounds DEF Counted, EndStates
    <3>2. QED  BY <3>1, RatchetBounds DEF Counted
  <2>3. \A m \in wire : m.from \in Sides /\ m.n \in 0..MaxTexts /\ m.pn \in 0..MaxTexts
    <3>1. \A m \in wire : IsText(m)
      BY DEF RatchetIInv, WireOk, TextOk
    <3>2. QED  BY <3>1, RatchetBounds DEF IsText, Counted
  <2>4. fresh \in 3..(MaxTexts + 3)
    <3>1. IsFiniteSet(wire) /\ Opened \subseteq wire
      BY DEF TextsIInv, Counted, Opened, Sides
    <3>2. Cardinality(Opened) <= Cardinality(wire) /\ Cardinality(wire) \in Nat
          /\ Cardinality(Opened) \in Nat
      BY <3>1, FS_Subset, FS_CardinalityType
    <3>3. fresh \in Nat
      BY DEF RatchetIInv, EndsOk
    <3>4. QED  BY <3>2, <3>3, RatchetBounds DEF Counted
  <2>5. QED  BY <2>1, <2>2, <2>3, <2>4 DEF RatchetTypeOK, Counted
<1>4. QED  BY <1>1, <1>2, <1>3, RatchetFewKept, PTL DEF RatchetSpec

-----------------------------------------------------------------------------
(* KeyedMutex *)

Finished(c) == chain[c].stage \in {"settled", "cleaned"}

\* A call is chained to the one before it of its key, if that is not finished.
InChain ==
    \A c \in Calls :
        /\ chain[c].after # 0 =>
             chain[c].after \in 1..(c - 1) /\ chain[chain[c].after].key = chain[c].key
        /\ \A d \in 1..(c - 1) :
             chain[d].key = chain[c].key /\ ~Finished(d) => d <= chain[c].after

\* The entry of a key is the last call of it; without one all are finished.
TailIsLast ==
    \A k \in Keys :
        /\ tails[k] # 0 => tails[k] \in Calls /\ chain[tails[k]].key = k
        /\ \A c \in Calls : chain[c].key = k /\ ~Finished(c) => c <= tails[k]

\* A task has begun only after all before it of its key have finished.
InTurn ==
    \A c \in Calls : chain[c].stage # "queued" =>
        \A d \in 1..(c - 1) : chain[d].key = chain[c].key => Finished(d)

MutexIInv == MutexTypeOK /\ InChain /\ TailIsLast /\ InTurn

USE MutexAssumption

LEMMA RunsAreTyped ==
    ASSUME MutexTypeOK
    PROVE  /\ Len(chain) \in Nat /\ Calls = 1..Len(chain)
           /\ \A c \in Calls : chain[c] \in ChainedCall
           /\ chain \in [1..Len(chain) -> ChainedCall]
BY DEF MutexTypeOK, Calls

LEMMA NewRun ==
    ASSUME MutexTypeOK, NEW k \in Keys, CallRun(k)
    PROVE  LET n == Len(chain) + 1
           IN  /\ n \in Nat /\ n \notin Calls /\ Calls' = Calls \cup {n}
               /\ \A c \in Calls : chain'[c] = chain[c] /\ c < n
               /\ chain'[n] = [key |-> k, after |-> tails[k], stage |-> "queued"]
               /\ tails' = [tails EXCEPT ![k] = n]
               /\ Len(chain') = n
<1> DEFINE n == Len(chain) + 1
           entry == [key |-> k, after |-> tails[k], stage |-> "queued"]
<1>1. /\ chain \in Seq(ChainedCall) /\ Calls = 1..Len(chain) /\ Len(chain) \in Nat
      /\ tails[k] \in Nat
  BY RunsAreTyped DEF MutexTypeOK
<1>2. entry \in ChainedCall
  BY <1>1 DEF ChainedCall
<1>3. chain' = Append(chain, entry) /\ tails' = [tails EXCEPT ![k] = n]
  BY Zenon DEF CallRun
<1> HIDE DEF entry
<1>4. /\ chain' \in Seq(ChainedCall) /\ Len(chain') = Len(chain) + 1
      /\ \A c \in 1..Len(chain) : chain'[c] = chain[c]
      /\ chain'[Len(chain) + 1] = entry
  BY ONLY <1>1, <1>2, <1>3, AppendProperties
<1>5. DOMAIN chain' = 1..(Len(chain) + 1)
  BY ONLY <1>4, LenProperties
<1>6. Calls' = Calls \cup {n} /\ n \in Nat /\ n \notin Calls
  BY <1>1, <1>5 DEF Calls
<1>7. \A c \in Calls : chain'[c] = chain[c] /\ c < n
  BY <1>1, <1>4
<1> QED BY <1>3, <1>4, <1>6, <1>7 DEF entry

\* A step of call c changes nothing but its stage.
StageStep(c, from, to) ==
    /\ c \in Calls /\ chain[c].stage = from
    /\ chain' = [chain EXCEPT ![c].stage = to]

LEMMA StageSteps ==
    ASSUME MutexTypeOK, NEW c \in Calls, NEW from, NEW to \in {"running", "over", "settled", "cleaned"},
           StageStep(c, from, to)
    PROVE  /\ Calls' = Calls /\ Len(chain') = Len(chain) /\ chain' \in Seq(ChainedCall)
           /\ \A d \in Calls : chain'[d].key = chain[d].key /\ chain'[d].after = chain[d].after
           /\ \A d \in Calls \ {c} : chain'[d] = chain[d]
           /\ chain'[c].stage = to
<1> DEFINE n == Len(chain)
<1>1. /\ n \in Nat /\ Calls = 1..n /\ chain \in [1..n -> ChainedCall] /\ c \in 1..n
      /\ chain[c] \in ChainedCall
  BY RunsAreTyped
<1> DEFINE moved == [chain[c] EXCEPT !.stage = to]
<1>2. /\ moved \in ChainedCall /\ moved.stage = to
      /\ moved.key = chain[c].key /\ moved.after = chain[c].after
  BY <1>1 DEF ChainedCall
<1>3. chain' = [chain EXCEPT ![c] = moved]
  BY Zenon DEF StageStep
<1> HIDE DEF moved, n
<1>0. chain \in Seq(ChainedCall) /\ c \in 1..Len(chain) /\ n = Len(chain)
  BY <1>1 DEF MutexTypeOK, n
<1>4. /\ chain' \in Seq(ChainedCall) /\ Len(chain') = n /\ chain'[c] = moved
      /\ \A d \in (1..n) \ {c} : chain'[d] = chain[d]
  BY ONLY <1>0, <1>2, <1>3, ExceptSeq
<1>5. DOMAIN chain' = 1..n
  BY ONLY <1>4, LenProperties
<1>6. Calls' = Calls /\ Len(chain') = Len(chain)
  BY <1>1, <1>5 DEF Calls, n
<1>7. \A d \in 1..n : chain'[d].key = chain[d].key /\ chain'[d].after = chain[d].after
  BY ONLY <1>2, <1>4
<1> QED BY <1>1, <1>2, <1>4, <1>5, <1>6, <1>7

LEMMA MutexTypeInductive ==
    ASSUME MutexTypeOK, [MutexNext]_mutexVars
    PROVE  MutexTypeOK'
<1>1. CASE \E k \in Keys : CallRun(k)
    <2>1. PICK k \in Keys : CallRun(k)  BY <1>1
    <2>2. chain' \in Seq(ChainedCall)
        BY <2>1 DEF CallRun, MutexTypeOK, ChainedCall
    <2>3. QED  BY <2>1, <2>2, NewRun DEF CallRun, MutexTypeOK
<1>2. CASE \E c \in Calls : StartTask(c) \/ TaskEnds(c) \/ TailSettles(c)
    BY <1>2, StageSteps
       DEF StageStep, StartTask, TaskEnds, TailSettles, Moves, MutexTypeOK
<1>3. CASE \E c \in Calls : CleanUp(c)
    <2>1. PICK c \in Calls : CleanUp(c)  BY <1>3
    <2>2. chain' \in Seq(ChainedCall) /\ Len(chain') = Len(chain)
        BY <2>1, StageSteps DEF StageStep, CleanUp, Moves
    <2>3. tails' \in [Keys -> 0..MaxRuns]
        <3>1. tails \in [Keys -> 0..MaxRuns] /\ 0 \in 0..MaxRuns
            BY DEF MutexTypeOK
        <3>2. \A k \in Keys : tails'[k] \in 0..MaxRuns
            BY <2>1, <3>1 DEF CleanUp
        <3>3. QED  BY <2>1, <3>1, <3>2 DEF CleanUp
    <2>4. QED  BY <2>2, <2>3 DEF MutexTypeOK
<1>4. CASE UNCHANGED mutexVars
    BY <1>4 DEF mutexVars, MutexTypeOK
<1>5. QED  BY <1>1, <1>2, <1>3, <1>4 DEF MutexNext

LEMMA CallKeepsInv ==
    ASSUME MutexIInv, NEW k \in Keys, CallRun(k)
    PROVE  (InChain /\ TailIsLast /\ InTurn)'
<1> DEFINE n == Len(chain) + 1
<1>1. /\ n \in Nat /\ n \notin Calls /\ Calls' = Calls \cup {n}
      /\ \A c \in Calls : chain'[c] = chain[c] /\ c < n
      /\ chain'[n] = [key |-> k, after |-> tails[k], stage |-> "queued"]
      /\ tails' = [tails EXCEPT ![k] = n]
    BY NewRun DEF MutexIInv
<1>2. /\ Calls = 1..Len(chain) /\ n = Len(chain) + 1 /\ Len(chain) \in Nat
      /\ \A c \in Calls : chain[c] \in ChainedCall
      /\ tails \in [Keys -> 0..MaxRuns]
    BY RunsAreTyped DEF MutexIInv, MutexTypeOK
<1> HIDE DEF n
<1>3. \A c \in Calls : Finished(c)' <=> Finished(c)
    BY <1>1 DEF Finished
<1>4. InChain'
    <2> SUFFICES ASSUME NEW c \in Calls'
                 PROVE  /\ chain'[c].after # 0 =>
                             /\ chain'[c].after \in 1..(c - 1)
                             /\ chain'[chain'[c].after].key = chain'[c].key
                        /\ \A d \in 1..(c - 1) :
                             chain'[d].key = chain'[c].key /\ ~Finished(d)'
                               => d <= chain'[c].after
        BY DEF InChain, Finished
    <2>1. CASE c \in Calls
        <3>1. \A d \in 1..(c - 1) : d \in Calls  BY <2>1, <1>2
        <3>2. QED  BY <2>1, <3>1, <1>1, <1>2, <1>3 DEF MutexIInv, InChain
    <2>2. CASE c = n
        <3>1. chain'[c].after = tails[k] /\ chain'[c].key = k  BY <2>2, <1>1
        <3>2. \A d \in 1..(c - 1) : d \in Calls  BY <2>2, <1>2
        <3>3. tails[k] # 0 => tails[k] \in Calls /\ chain[tails[k]].key = k
            BY DEF MutexIInv, TailIsLast
        <3>4. \A d \in Calls : chain[d].key = k /\ ~Finished(d) => d <= tails[k]
            BY DEF MutexIInv, TailIsLast
        <3>5. tails[k] \in Calls => tails[k] \in 1..(c - 1)  BY <2>2, <1>2
        <3>6. QED  BY <3>1, <3>2, <3>3, <3>4, <3>5, <1>1, <1>3
    <2>3. QED  BY <2>1, <2>2, <1>1
<1>5. TailIsLast'
    <2> SUFFICES ASSUME NEW q \in Keys
                 PROVE  /\ tails'[q] # 0 => tails'[q] \in Calls' /\ chain'[tails'[q]].key = q
                        /\ \A c \in Calls' : chain'[c].key = q /\ ~Finished(c)' => c <= tails'[q]
        BY DEF TailIsLast, Finished
    <2>1. CASE q = k
        <3>1. tails'[q] = n  BY <2>1, <1>1, <1>2
        <3>2. \A c \in Calls' : c <= n  BY <1>1, <1>2
        <3>3. QED  BY <3>1, <3>2, <2>1, <1>1
    <2>2. CASE q # k
        <3>1. tails'[q] = tails[q]  BY <2>2, <1>1, <1>2
        <3>2. QED  BY <3>1, <2>2, <1>1, <1>3 DEF MutexIInv, TailIsLast
    <2>3. QED  BY <2>1, <2>2
<1>6. InTurn'
    <2> SUFFICES ASSUME NEW c \in Calls', chain'[c].stage # "queued",
                        NEW d \in 1..(c - 1), chain'[d].key = chain'[c].key
                 PROVE  Finished(d)'
        BY DEF InTurn, Finished
    <2>1. c \in Calls  BY <1>1
    <2>2. d \in Calls  BY <2>1, <1>2
    <2>3. QED  BY <2>1, <2>2, <1>1, <1>3 DEF MutexIInv, InTurn
<1>7. QED  BY <1>4, <1>5, <1>6

\* What a step of one call that does not undo "finished" keeps.
LEMMA StageKeepsInv ==
    ASSUME MutexIInv, NEW c \in Calls, NEW from, NEW to \in {"running", "over", "settled", "cleaned"},
           StageStep(c, from, to),
           from \in {"settled", "cleaned"} => to \in {"settled", "cleaned"},
           from = "queued" =>
             \A d \in 1..(c - 1) : chain[d].key = chain[c].key => Finished(d)
    PROVE  /\ InChain' /\ InTurn'
           /\ UNCHANGED tails => TailIsLast'
           /\ \A d \in Calls : Finished(d) => Finished(d)'
<1>1. /\ Calls' = Calls /\ Len(chain') = Len(chain)
      /\ \A d \in Calls : chain'[d].key = chain[d].key /\ chain'[d].after = chain[d].after
      /\ \A d \in Calls \ {c} : chain'[d] = chain[d]
      /\ chain'[c].stage = to
    BY StageSteps DEF MutexIInv
<1>2. Calls = 1..Len(chain) /\ Len(chain) \in Nat  BY RunsAreTyped DEF MutexIInv
<1>3. \A d \in Calls : Finished(d) => Finished(d)'
    BY <1>1 DEF Finished, StageStep
<1>4. InChain'
    <2> SUFFICES ASSUME NEW e \in Calls
                 PROVE  /\ chain'[e].after # 0 =>
                             /\ chain'[e].after \in 1..(e - 1)
                             /\ chain'[chain'[e].after].key = chain'[e].key
                        /\ \A d \in 1..(e - 1) :
                             chain'[d].key = chain'[e].key /\ ~Finished(d)'
                               => d <= chain'[e].after
        BY <1>1 DEF InChain, Finished
    <2>1. \A d \in 1..(e - 1) : d \in Calls  BY <1>2
    <2>2. QED  BY <2>1, <1>1, <1>3 DEF MutexIInv, InChain
<1>5. InTurn'
    <2> SUFFICES ASSUME NEW e \in Calls, chain'[e].stage # "queued",
                        NEW d \in 1..(e - 1), chain'[d].key = chain'[e].key
                 PROVE  Finished(d)'
        BY <1>1 DEF InTurn, Finished
    <2>1. d \in Calls  BY <1>2
    <2>2. CASE chain[e].stage # "queued"
        BY <2>1, <2>2, <1>1, <1>3 DEF MutexIInv, InTurn
    <2>3. CASE chain[e].stage = "queued"
        <3>1. e = c  BY <2>3, <1>1
        <3>2. QED  BY <3>1, <2>1, <2>3, <1>1, <1>3 DEF StageStep
    <2>4. QED  BY <2>2, <2>3
<1>6. UNCHANGED tails => TailIsLast'
    BY <1>1, <1>3 DEF MutexIInv, TailIsLast, Finished
<1>7. QED  BY <1>3, <1>4, <1>5, <1>6

LEMMA StartIsInTurn ==
    ASSUME MutexIInv, NEW c \in Calls, StartTask(c)
    PROVE  \A d \in 1..(c - 1) : chain[d].key = chain[c].key => Finished(d)
<1> SUFFICES ASSUME NEW d \in 1..(c - 1), chain[d].key = chain[c].key, ~Finished(d)
             PROVE  FALSE
    OBVIOUS
<1> DEFINE p == chain[c].after
<1>1. Calls = 1..Len(chain) /\ Len(chain) \in Nat /\ chain[c] \in ChainedCall
    BY RunsAreTyped DEF MutexIInv
<1>2. d <= p  BY DEF MutexIInv, InChain
<1>3. p \in Nat /\ p # 0  BY <1>1, <1>2 DEF ChainedCall
<1>4. p \in 1..(c - 1) /\ chain[p].key = chain[c].key  BY <1>3 DEF MutexIInv, InChain
<1>5. chain[p].stage \in {"settled", "cleaned"}  BY <1>3 DEF StartTask
<1>6. p # d  BY <1>5 DEF Finished
<1>7. p \in Calls /\ d \in 1..(p - 1)  BY <1>1, <1>2, <1>4, <1>6
<1>8. Finished(d)  BY <1>4, <1>5, <1>7 DEF MutexIInv, InTurn
<1>9. QED  BY <1>8

LEMMA MutexInductive ==
    ASSUME MutexIInv, [MutexNext]_mutexVars
    PROVE  MutexIInv'
<1>1. MutexTypeOK'  BY MutexTypeInductive DEF MutexIInv
<1>2. CASE \E k \in Keys : CallRun(k)
    BY <1>1, <1>2, CallKeepsInv DEF MutexIInv
<1>3. ASSUME NEW c \in Calls, StartTask(c) \/ TaskEnds(c) \/ TailSettles(c)
      PROVE  MutexIInv'
    <2>1. CASE StartTask(c)
        <3>1. StageStep(c, "queued", "running") /\ UNCHANGED tails
            BY <2>1 DEF StartTask, Moves, StageStep
        <3>2. QED  BY <1>1, <2>1, <3>1, StageKeepsInv, StartIsInTurn DEF MutexIInv
    <2>2. CASE TaskEnds(c)
        <3>1. StageStep(c, "running", "over") /\ UNCHANGED tails
            BY <2>2 DEF TaskEnds, Moves, StageStep
        <3>2. QED  BY <1>1, <3>1, StageKeepsInv DEF MutexIInv
    <2>3. CASE TailSettles(c)
        <3>1. StageStep(c, "over", "settled") /\ UNCHANGED tails
            BY <2>3 DEF TailSettles, Moves, StageStep
        <3>2. QED  BY <1>1, <3>1, StageKeepsInv DEF MutexIInv
    <2>4. QED  BY <1>3, <2>1, <2>2, <2>3
<1>4. ASSUME NEW c \in Calls, CleanUp(c)
      PROVE  MutexIInv'
    <2>1. StageStep(c, "settled", "cleaned")
        BY <1>4 DEF CleanUp, Moves, StageStep
    <2>2. InChain' /\ InTurn' /\ \A d \in Calls : Finished(d) => Finished(d)'
        BY <2>1, StageKeepsInv
    <2>3. /\ Calls' = Calls /\ \A d \in Calls : chain'[d].key = chain[d].key
          /\ chain[c] \in ChainedCall /\ tails \in [Keys -> 0..MaxRuns]
        BY <2>1, StageSteps, RunsAreTyped DEF MutexIInv, MutexTypeOK
    <2>4. TailIsLast'
        <3> SUFFICES ASSUME NEW q \in Keys
                     PROVE  /\ tails'[q] # 0 => tails'[q] \in Calls' /\ chain'[tails'[q]].key = q
                            /\ \A d \in Calls' : chain'[d].key = q /\ ~Finished(d)' => d <= tails'[q]
            BY DEF TailIsLast, Finished
        <3>1. CASE tails'[q] = tails[q]
            BY <3>1, <2>2, <2>3 DEF MutexIInv, TailIsLast
        <3>2. CASE tails'[q] # tails[q]
            <4>1. chain[c].key = q /\ tails[q] = c /\ tails'[q] = 0
                BY <3>2, <1>4, <2>3 DEF CleanUp, ChainedCall
            <4>2. \A d \in Calls : d <= c /\ chain[d].key = q => Finished(d)'
                <5> SUFFICES ASSUME NEW d \in Calls, d <= c, chain[d].key = q
                             PROVE  Finished(d)'
                    OBVIOUS
                <5>1. Finished(c)  BY <1>4 DEF CleanUp, Finished
                <5>2. CASE d = c  BY <5>1, <5>2, <2>2
                <5>3. CASE d # c
                    <6>1. d \in 1..(c - 1)  BY <5>3, RunsAreTyped DEF MutexIInv
                    <6>2. chain[c].stage # "queued"  BY <1>4 DEF CleanUp
                    <6>3. Finished(d)  BY <4>1, <6>1, <6>2 DEF MutexIInv, InTurn
                    <6>4. QED  BY <6>3, <2>2
                <5>4. QED  BY <5>2, <5>3
            <4>3. \A d \in Calls : chain[d].key = q /\ ~Finished(d) => d <= c
                BY <4>1 DEF MutexIInv, TailIsLast
            <4>4. QED  BY <4>1, <4>2, <4>3, <2>2, <2>3
        <3>3. QED  BY <3>1, <3>2
    <2>5. QED  BY <1>1, <2>2, <2>4 DEF MutexIInv
<1>5. CASE UNCHANGED mutexVars
    BY <1>5 DEF mutexVars, MutexIInv, MutexTypeOK, InChain, TailIsLast, InTurn, Finished, Calls
<1>6. QED  BY <1>2, <1>3, <1>4, <1>5 DEF MutexNext

LEMMA MutexInvariant == MutexSpec => []MutexIInv
<1>1. MutexInit => MutexIInv
    BY DEF MutexInit, MutexIInv, MutexTypeOK, InChain, TailIsLast, InTurn, Calls
<1>2. MutexIInv /\ [MutexNext]_mutexVars => MutexIInv'
    BY MutexInductive
<1>3. QED  BY <1>1, <1>2, PTL DEF MutexSpec

(***************************************************************************)
(* The calls of run() and the entries of the map are what mutex.ts says.   *)
(***************************************************************************)
THEOREM MutexTypeCorrect == MutexSpec => []MutexTypeOK
BY MutexInvariant, PTL DEF MutexIInv

-----------------------------------------------------------------------------
(* KeyedMutex implements TaskLock *)

WaitingCalls == [k \in Keys |-> CallsOf(k, "queued")]
Working == [k \in Keys |-> CallsOf(k, "running")]

LEMMA CallIsCall ==
    ASSUME MutexIInv, NEW k \in Keys, CallRun(k)
    PROVE  Lock!Call(k)
<1> DEFINE n == Len(chain) + 1
<1>1. /\ n \in Nat /\ n \notin Calls /\ Calls' = Calls \cup {n}
      /\ \A c \in Calls : chain'[c] = chain[c]
      /\ chain'[n] = [key |-> k, after |-> tails[k], stage |-> "queued"]
      /\ Len(chain') = n
    BY NewRun DEF MutexIInv
<1> HIDE DEF n
<1>2. \A q \in Keys : CallsOf(q, "running")' = CallsOf(q, "running")
    BY <1>1 DEF CallsOf
<1>3. \A q \in Keys : CallsOf(q, "queued")' = IF q = k THEN CallsOf(q, "queued") \cup {n} ELSE CallsOf(q, "queued")
    BY <1>1 DEF CallsOf
<1>4. WaitingCalls' = [WaitingCalls EXCEPT ![k] = @ \cup {n}]
    BY <1>3 DEF WaitingCalls
<1>5. Working' = Working
    BY <1>2 DEF Working
<1>6. Len(chain)' = n /\ n = Len(chain) + 1  BY <1>1 DEF n
<1>7. QED  BY <1>4, <1>5, <1>6 DEF Lock!Call, WaitingCalls, Working

\* What a step of one call does to the sets of calls in a stage.
LEMMA StageMoves ==
    ASSUME MutexTypeOK, NEW c \in Calls, NEW from, NEW to \in {"running", "over", "settled", "cleaned"},
           StageStep(c, from, to), NEW s \in {"queued", "running"}
    PROVE  /\ \A q \in Keys : CallsOf(q, s)' =
                 IF q # chain[c].key THEN CallsOf(q, s)
                 ELSE (CallsOf(q, s) \ {c}) \cup (IF to = s THEN {c} ELSE {})
           /\ chain[c].key \in Keys
           /\ Len(chain') = Len(chain)
<1>1. /\ Calls' = Calls /\ Len(chain') = Len(chain)
      /\ \A d \in Calls : chain'[d].key = chain[d].key
      /\ \A d \in Calls \ {c} : chain'[d] = chain[d]
      /\ chain'[c].stage = to
    BY StageSteps
<1>2. chain[c].key \in Keys  BY RunsAreTyped DEF ChainedCall
<1>3. QED  BY <1>1, <1>2 DEF CallsOf

LEMMA StartIsBegin ==
    ASSUME MutexIInv, NEW c \in Calls, StartTask(c)
    PROVE  \E k \in Keys : c \in 1..Len(chain) /\ Lock!Begin(k, c)
<1>1. StageStep(c, "queued", "running")  BY DEF StartTask, Moves, StageStep
<1>2. Calls = 1..Len(chain) /\ Len(chain) \in Nat /\ chain[c].key \in Keys
    BY RunsAreTyped DEF MutexIInv, ChainedCall
<1>3. PICK k \in Keys : k = chain[c].key  BY <1>2
<1>4. \A q \in Keys : CallsOf(q, "queued")' = IF q # k THEN CallsOf(q, "queued") ELSE CallsOf(q, "queued") \ {c}
    BY <1>1, <1>3, StageMoves DEF MutexIInv
<1>5. /\ \A q \in Keys : CallsOf(q, "running")' =
            IF q # k THEN CallsOf(q, "running") ELSE (CallsOf(q, "running") \ {c}) \cup {c}
      /\ Len(chain') = Len(chain)
    BY <1>1, <1>3, StageMoves DEF MutexIInv
<1>6. \A d \in 1..(c - 1) : chain[d].key = k => Finished(d)  BY <1>3, StartIsInTurn
<1>7. c \in CallsOf(k, "queued")  BY <1>1, <1>3 DEF CallsOf, StageStep
<1>8. \A d \in CallsOf(k, "queued") : c <= d
    <2> SUFFICES ASSUME NEW d \in CallsOf(k, "queued"), ~(c <= d)  PROVE FALSE
        OBVIOUS
    <2>1. d \in 1..(c - 1)  BY <1>2 DEF CallsOf
    <2>2. QED  BY <2>1, <1>6 DEF CallsOf, Finished
<1>9. CallsOf(k, "running") = {}
    <2> SUFFICES ASSUME NEW d \in CallsOf(k, "running")  PROVE FALSE
        OBVIOUS
    <2>1. d \in Calls /\ chain[d].key = k /\ chain[d].stage = "running"  BY DEF CallsOf
    <2>2. CASE d < c
        <3>1. d \in 1..(c - 1)  BY <2>1, <2>2, <1>2
        <3>2. QED  BY <3>1, <2>1, <1>6 DEF Finished
    <2>3. CASE c < d
        <3>1. c \in 1..(d - 1)  BY <2>1, <2>3, <1>2
        <3>2. Finished(c)  BY <3>1, <2>1, <1>3 DEF MutexIInv, InTurn
        <3>3. QED  BY <3>2, <1>1 DEF Finished, StageStep
    <2>4. c # d  BY <2>1, <1>1 DEF StageStep
    <2>5. QED  BY <2>1, <2>2, <2>3, <2>4, <1>2
<1>10. WaitingCalls' = [WaitingCalls EXCEPT ![k] = @ \ {c}]
    BY <1>4 DEF WaitingCalls
<1>11. Working' = [Working EXCEPT ![k] = {c}]
    <2>1. \A q \in Keys : CallsOf(q, "running")' = IF q # k THEN CallsOf(q, "running") ELSE {c}
        BY <1>5, <1>9
    <2>2. QED  BY <2>1 DEF Working
<1>12. WaitingCalls[k] = CallsOf(k, "queued") /\ Working[k] = CallsOf(k, "running")
    BY DEF WaitingCalls, Working
<1>13. Lock!Begin(k, c)
    BY <1>5, <1>7, <1>8, <1>9, <1>10, <1>11, <1>12 DEF Lock!Begin, WaitingCalls, Working
<1>14. QED  BY <1>2, <1>13

LEMMA EndIsEnd ==
    ASSUME MutexIInv, NEW c \in Calls, TaskEnds(c)
    PROVE  chain[c].key \in Keys /\ c \in 1..Len(chain) /\ Lock!End(chain[c].key, c)
<1> DEFINE k == chain[c].key
<1>1. StageStep(c, "running", "over")  BY DEF TaskEnds, Moves, StageStep
<1>2. \A q \in Keys : CallsOf(q, "queued")' = IF q # k THEN CallsOf(q, "queued") ELSE CallsOf(q, "queued") \ {c}
    BY <1>1, StageMoves DEF MutexIInv
<1>3. /\ \A q \in Keys : CallsOf(q, "running")' = IF q # k THEN CallsOf(q, "running") ELSE CallsOf(q, "running") \ {c}
      /\ k \in Keys /\ Len(chain') = Len(chain)
    BY <1>1, StageMoves DEF MutexIInv
<1>4. c \in CallsOf(k, "running") /\ c \notin CallsOf(k, "queued")
    BY <1>1 DEF CallsOf, StageStep
<1>5. c \in 1..Len(chain)  BY RunsAreTyped DEF MutexIInv
<1> HIDE DEF k
<1>6. WaitingCalls' = WaitingCalls  BY <1>2, <1>4 DEF WaitingCalls
<1>7. Working' = [Working EXCEPT ![k] = @ \ {c}]  BY <1>3 DEF Working
<1>8. Working[k] = CallsOf(k, "running")  BY <1>3 DEF Working
<1>9. Lock!End(k, c)
    BY <1>3, <1>4, <1>6, <1>7, <1>8 DEF Lock!End, WaitingCalls, Working
<1>10. QED  BY <1>3, <1>5, <1>9 DEF k

\* The callbacks after a task are nothing to its callers.
LEMMA TailIsStutter ==
    ASSUME MutexIInv, NEW c \in Calls, TailSettles(c) \/ CleanUp(c)
    PROVE  UNCHANGED <<Len(chain), WaitingCalls, Working>>
<1>1. PICK from \in {"over", "settled"}, to \in {"settled", "cleaned"} : StageStep(c, from, to)
    BY DEF TailSettles, CleanUp, Moves, StageStep
<1>2. \A q \in Keys : c \notin CallsOf(q, "queued") /\ c \notin CallsOf(q, "running")
    BY <1>1 DEF CallsOf, StageStep
<1>3. /\ \A q \in Keys : CallsOf(q, "queued")' = CallsOf(q, "queued")
      /\ Len(chain') = Len(chain)
    <2>1. /\ \A q \in Keys : CallsOf(q, "queued")' =
                IF q # chain[c].key THEN CallsOf(q, "queued")
                ELSE (CallsOf(q, "queued") \ {c}) \cup (IF to = "queued" THEN {c} ELSE {})
          /\ Len(chain') = Len(chain)
        BY <1>1, StageMoves DEF MutexIInv
    <2>2. to # "queued"  OBVIOUS
    <2>3. QED  BY <2>1, <2>2, <1>2
<1>4. \A q \in Keys : CallsOf(q, "running")' = CallsOf(q, "running")
    <2>1. \A q \in Keys : CallsOf(q, "running")' =
                IF q # chain[c].key THEN CallsOf(q, "running")
                ELSE (CallsOf(q, "running") \ {c}) \cup (IF to = "running" THEN {c} ELSE {})
        BY <1>1, StageMoves DEF MutexIInv
    <2>2. to # "running"  OBVIOUS
    <2>3. QED  BY <2>1, <2>2, <1>2
<1>5. QED  BY <1>3, <1>4 DEF WaitingCalls, Working

(***************************************************************************)
(* The chain of promises in mutex.ts is a lock served in call order: every *)
(* step of it is a step of the abstract lock or none. This is what the     *)
(* other modules assume when a task under the lock is one action.          *)
(***************************************************************************)
THEOREM MutexKeepsLock == MutexSpec => LockKept
<1>1. MutexInit => Lock!Init
    BY DEF MutexInit, Lock!Init, CallsOf, Calls
<1>2. MutexIInv /\ [MutexNext]_mutexVars => [Lock!Next]_(Lock!lockVars)
    <2> SUFFICES ASSUME MutexIInv, [MutexNext]_mutexVars
                 PROVE  [Lock!Next]_(Lock!lockVars)
        OBVIOUS
    <2>1. CASE \E k \in Keys : CallRun(k)
        BY <2>1, CallIsCall DEF Lock!Next
    <2>2. CASE \E c \in Calls : StartTask(c) \/ TaskEnds(c)
        BY <2>2, StartIsBegin, EndIsEnd DEF Lock!Next
    <2>3. CASE \E c \in Calls : TailSettles(c) \/ CleanUp(c)
        BY <2>3, TailIsStutter DEF Lock!lockVars, WaitingCalls, Working
    <2>4. CASE UNCHANGED mutexVars
        BY <2>4 DEF mutexVars, Lock!lockVars, CallsOf, Calls
    <2>5. QED  BY <2>1, <2>2, <2>3, <2>4 DEF MutexNext
<1>3. QED  BY <1>1, <1>2, MutexInvariant, PTL DEF MutexSpec, LockKept, Lock!Spec

LEMMA IdleInductive ==
    ASSUME MutexIInv, NoIdleTail, [MutexNext]_mutexVars
    PROVE  NoIdleTail'
<1>1. CASE \E k \in Keys : CallRun(k)
    <2>1. PICK k \in Keys : CallRun(k)  BY <1>1
    <2> DEFINE n == Len(chain) + 1
    <2>2. /\ n \in Nat /\ \A c \in Calls : chain'[c] = chain[c]
          /\ chain'[n] = [key |-> k, after |-> tails[k], stage |-> "queued"]
          /\ tails' = [tails EXCEPT ![k] = n]
        BY <2>1, NewRun DEF MutexIInv
    <2> HIDE DEF n
    <2>3. \A q \in Keys : tails'[q] = IF q = k THEN n ELSE tails[q]
        BY <2>2 DEF MutexIInv, MutexTypeOK
    <2>4. QED  BY <2>2, <2>3 DEF NoIdleTail, MutexIInv, TailIsLast
<1>2. CASE \E c \in Calls : StartTask(c) \/ TaskEnds(c) \/ TailSettles(c)
    <2>1. PICK c \in Calls : StartTask(c) \/ TaskEnds(c) \/ TailSettles(c)  BY <1>2
    <2>2. PICK to \in {"running", "over", "settled"} : StageStep(c, chain[c].stage, to)
        <3>1. StartTask(c) => StageStep(c, chain[c].stage, "running")
            BY DEF StartTask, Moves, StageStep
        <3>2. TaskEnds(c) => StageStep(c, chain[c].stage, "over")
            BY DEF TaskEnds, Moves, StageStep
        <3>3. TailSettles(c) => StageStep(c, chain[c].stage, "settled")
            BY DEF TailSettles, Moves, StageStep
        <3>4. QED  BY <2>1, <3>1, <3>2, <3>3
    <2>3. \A d \in Calls : chain'[d].stage = "cleaned" => chain[d].stage = "cleaned"
        BY <2>2, StageSteps DEF MutexIInv
    <2>4. tails' = tails  BY <2>1 DEF StartTask, TaskEnds, TailSettles
    <2>5. QED  BY <2>3, <2>4 DEF NoIdleTail, MutexIInv, TailIsLast
<1>3. CASE \E c \in Calls : CleanUp(c)
    <2>1. PICK c \in Calls : CleanUp(c)  BY <1>3
    <2>2. StageStep(c, "settled", "cleaned")
        BY <2>1 DEF CleanUp, Moves, StageStep
    <2>3. \A d \in Calls \ {c} : chain'[d] = chain[d]
        BY <2>2, StageSteps DEF MutexIInv
    <2>4. /\ tails' = [tails EXCEPT ![chain[c].key] = IF @ = c THEN 0 ELSE @]
          /\ tails \in [Keys -> 0..MaxRuns]
        BY <2>1 DEF CleanUp, MutexIInv, MutexTypeOK
    <2>5. \A k \in Keys : tails'[k] # c /\ (tails'[k] # 0 => tails'[k] = tails[k])
        <3> SUFFICES ASSUME NEW k \in Keys
                     PROVE  tails'[k] # c /\ (tails'[k] # 0 => tails'[k] = tails[k])
            OBVIOUS
        <3>1. c # 0  BY <2>1, RunsAreTyped DEF MutexIInv
        <3>2. tails[k] = c => chain[c].key = k  BY <3>1 DEF MutexIInv, TailIsLast
        <3>3. QED  BY <2>4, <3>1, <3>2
    <2>6. QED  BY <2>3, <2>5 DEF NoIdleTail, MutexIInv, TailIsLast
<1>4. CASE UNCHANGED mutexVars
    BY <1>4 DEF mutexVars, NoIdleTail
<1>5. QED  BY <1>1, <1>2, <1>3, <1>4 DEF MutexNext

(***************************************************************************)
(* The map holds no call that is cleaned up, so a peer nobody talks to     *)
(* costs nothing (the delete in mutex.ts is not missed by a later call).   *)
(***************************************************************************)
THEOREM MutexForgetsIdle == MutexSpec => []NoIdleTail
<1>1. MutexInit => NoIdleTail  BY DEF MutexInit, NoIdleTail
<1>2. MutexIInv /\ NoIdleTail /\ [MutexNext]_mutexVars => NoIdleTail'
    BY IdleInductive
<1>3. QED  BY <1>1, <1>2, MutexInvariant, PTL DEF MutexSpec

-----------------------------------------------------------------------------
(* Repair *)

\* A run of processReset and the drain know of requests that were made.
JobsKnown ==
    /\ round.batch \subseteq Requests
    /\ \A j \in jobs : j.req \in begun /\ j.left \subseteq wanted[j.req]

\* No two requests name one text.
RequestsDisjoint ==
    \A r, s \in Requests : wanted[r] \cap wanted[s] # {} => r = s

\* What has a copy was asked for by a request that was begun.
CopiesAreAsked ==
    \A c \in Resends : \E r \in begun : copies[c] \in wanted[r]

\* A request begun once has one run, which has yet to copy what it has left.
OneRunEach ==
    \A j \in jobs : j.req \notin redone =>
        /\ \A k \in jobs : k.req = j.req => k = j
        /\ \A c \in Resends : copies[c] \notin j.left

Handled(t) == t \in skipped \/ \E c \in Resends : copies[c] = t

\* A run handles what it takes off its list, and only then is acknowledged.
RunsHandle ==
    \A j \in jobs : \A t \in wanted[j.req] \ j.left : Handled(t)

AckedRequests == toAck \cup (UNION acking) \cup (Requests \ (standing \cup expired))

AckedIsHandled ==
    \A r \in AckedRequests : \A t \in wanted[r] : Handled(t)

RepairIInv ==
    /\ RepairTypeOK /\ JobsKnown /\ RequestsDisjoint /\ CopiesAreAsked /\ OneRunEach
    /\ RunsHandle /\ AckedIsHandled /\ ResentOnceUnlessRepeated

LEMMA RepairIsTyped ==
    ASSUME RepairTypeOK
    PROVE  /\ Len(wanted) \in Nat /\ Requests = 1..Len(wanted)
           /\ \A r \in Requests : wanted[r] \subseteq Texts
           /\ Len(copies) \in Nat /\ Resends = 1..Len(copies)
           /\ \A c \in Resends : copies[c] \in Texts
           /\ copies \in [1..Len(copies) -> Texts]
BY DEF RepairTypeOK, Requests, Resends

LEMMA CopiesKept ==
    ASSUME RepairTypeOK, UNCHANGED copies
    PROVE  /\ copies' \in Seq(Texts) /\ Len(copies') <= MaxCopies
           /\ Resends' = Resends /\ \A c \in Resends : copies'[c] = copies[c]
BY DEF Resends, RepairTypeOK

LEMMA NewRequest ==
    ASSUME RepairTypeOK, NEW ts \in SUBSET Texts, AskRepair(ts)
    PROVE  LET n == Len(wanted) + 1
           IN  /\ n \in 1..MaxRequests /\ n \notin Requests /\ Requests' = Requests \cup {n}
               /\ wanted' \in Seq(SUBSET Texts) /\ Len(wanted') <= MaxRequests
               /\ \A r \in Requests : wanted'[r] = wanted[r]
               /\ wanted'[n] = ts
BY RepairIsTyped, RepairAssumption DEF AskRepair, RepairTypeOK, Requests

LEMMA NewCopy ==
    ASSUME RepairTypeOK, NEW t \in Texts, Len(copies) < MaxCopies, copies' = Append(copies, t)
    PROVE  LET n == Len(copies) + 1
           IN  /\ n \in Nat /\ n \notin Resends /\ Resends' = Resends \cup {n}
               /\ copies' \in Seq(Texts) /\ Len(copies') <= MaxCopies
               /\ \A c \in Resends : copies'[c] = copies[c]
               /\ copies'[n] = t
BY RepairIsTyped, RepairAssumption DEF RepairTypeOK, Resends

-----------------------------------------------------------------------------
\* The steps that neither ask, begin, re-send nor finish anything.
QuietStep ==
    \/ \E r \in Requests : TellRepair(r) \/ ExpireRepair(r)
    \/ \E rs \in acking : AckRepairs(rs)
    \/ \E j \in jobs : JobFails(j)
    \/ FlushTimer \/ Link \/ FetchRepairs \/ FetchRepairsFails \/ EndRound
    \/ \E t \in Texts : RowConfirmed(t) \/ RowDeleted(t)
    \/ LinkDrops \/ PhoneRestarts \/ ServerRestarts
    \/ UNCHANGED repairVars

LEMMA FlushKeeps ==
    ASSUME RepairTypeOK, Flush \/ FlushFails
    PROVE  /\ toAck' \subseteq Requests /\ acking' \subseteq SUBSET Requests
           /\ toAck' \cup UNION acking' \subseteq toAck \cup UNION acking
<1>1. toAck \subseteq Requests /\ acking \subseteq SUBSET Requests
    BY DEF RepairTypeOK
<1>2. CASE toAck = {} /\ Flush
    BY <1>1, <1>2 DEF Flush
<1>3. CASE ~(toAck = {} /\ Flush)
    <2>1. PICK rs \in SUBSET toAck : acking' = acking \cup {rs} /\ toAck' \subseteq toAck
        BY <1>3 DEF Flush, FlushFails
    <2>2. QED  BY <1>1, <2>1
<1>4. QED  BY <1>2, <1>3

\* They keep the texts asked for, begun, copied and passed over, and acknowledge nothing new.
AsBefore ==
    /\ UNCHANGED <<wanted, begun, redone, skipped>>
    /\ jobs' \subseteq jobs
    /\ round'.batch \subseteq Requests
    /\ Resends' = Resends /\ \A c \in Resends : copies'[c] = copies[c]
    /\ toAck' \cup UNION acking' \subseteq toAck \cup UNION acking
    /\ standing \subseteq standing' \cup expired' \cup UNION acking
    /\ expired \subseteq expired'

LEMMA QuietKeeps ==
    ASSUME RepairTypeOK, JobsKnown, QuietStep
    PROVE  AsBefore /\ RepairTypeOK'
<1> USE RepairAssumption
<1>0. wanted' = wanted => Requests' = Requests
    BY DEF Requests
<1>1. CASE \E r \in Requests : TellRepair(r) \/ ExpireRepair(r)
    <2>1. PICK r \in Requests : TellRepair(r) \/ ExpireRepair(r)  BY <1>1
    <2>2. CASE TellRepair(r)
        BY <2>2, <1>0, CopiesKept DEF TellRepair, phoneSide, AsBefore, RepairTypeOK, JobsKnown
    <2>3. CASE ExpireRepair(r)
        BY <2>3, <1>0, CopiesKept DEF ExpireRepair, phoneSide, AsBefore, RepairTypeOK, JobsKnown
    <2>4. QED  BY <2>1, <2>2, <2>3
<1>2. CASE \E rs \in acking : AckRepairs(rs)
    BY <1>2, <1>0, CopiesKept DEF AckRepairs, phoneSide, AsBefore, RepairTypeOK, JobsKnown
<1>3. CASE \E j \in jobs : JobFails(j)
    BY <1>3, <1>0, CopiesKept DEF JobFails, Breaks, AsBefore, RepairTypeOK, JobsKnown
<1>4. CASE FlushTimer
    <2>1. breaks' \in 0..MaxBreaks
        BY <1>4 DEF FlushTimer, FlushFails, Breaks, RepairTypeOK
    <2>2. Flush \/ FlushFails
        BY <1>4 DEF FlushTimer
    <2>3. QED
        BY <1>4, <1>0, <2>1, <2>2, FlushKeeps, CopiesKept
           DEF FlushTimer, AsBefore, RepairTypeOK, JobsKnown
<1>5. CASE Link \/ FetchRepairs \/ FetchRepairsFails
    <2>1. round' \in Round /\ round'.batch \subseteq Requests
        <3>1. round \in Round /\ standing \subseteq 1..MaxRequests /\ standing \subseteq Requests
            BY RepairIsTyped DEF RepairTypeOK
        <3>2. QED
            BY <3>1, <1>5 DEF Link, FetchRepairs, FetchRepairsFails, Round, NoRound, JobsKnown
    <2>2. breaks' \in 0..MaxBreaks
        BY <1>5 DEF Link, FetchRepairs, FetchRepairsFails, Breaks, RepairTypeOK
    <2>3. QED
        BY <1>5, <1>0, <2>1, <2>2, CopiesKept
           DEF Link, FetchRepairs, FetchRepairsFails, AsBefore, RepairTypeOK
<1>6. CASE EndRound
    <2>1. round' \in Round /\ round'.batch \subseteq Requests
        BY <1>6 DEF EndRound, RepairTypeOK, Round, NoRound, JobsKnown
    <2>2. breaks' \in 0..MaxBreaks
        BY <1>6 DEF EndRound, FlushFails, Breaks, RepairTypeOK
    <2>3. Flush \/ FlushFails
        BY <1>6 DEF EndRound
    <2>4. QED
        BY <1>6, <1>0, <2>1, <2>2, <2>3, FlushKeeps, CopiesKept DEF EndRound, AsBefore, RepairTypeOK
<1>7. CASE \E t \in Texts : RowConfirmed(t) \/ RowDeleted(t)
    BY <1>7, <1>0, CopiesKept DEF RowConfirmed, RowDeleted, AsBefore, RepairTypeOK, JobsKnown
<1>8. CASE LinkDrops \/ PhoneRestarts \/ ServerRestarts
    <2>1. LoseLink /\ breaks' \in 0..MaxBreaks
        BY <1>8 DEF LinkDrops, PhoneRestarts, ServerRestarts, Breaks, RepairTypeOK
    <2>2. link' \in BOOLEAN /\ acking' \subseteq acking
        BY <2>1 DEF LoseLink
    <2>3. round' \in Round /\ round'.batch \subseteq Requests
        BY <1>8 DEF LinkDrops, PhoneRestarts, ServerRestarts, phoneSide, RepairTypeOK, JobsKnown, Round, NoRound
    <2>4. /\ UNCHANGED <<wanted, standing, copies, own, begun, redone, skipped, expired>>
          /\ jobs' \subseteq jobs /\ toAck' \subseteq toAck
          /\ untold' \subseteq untold /\ notified' \subseteq notified
        BY <1>8 DEF LinkDrops, PhoneRestarts, ServerRestarts, phoneSide
    <2>5. QED
        BY <1>0, <2>1, <2>2, <2>3, <2>4, CopiesKept DEF AsBefore, RepairTypeOK
<1>9. CASE UNCHANGED repairVars
    BY <1>9, <1>0, CopiesKept DEF repairVars, AsBefore, RepairTypeOK, JobsKnown
<1>10. QED
    BY <1>1, <1>2, <1>3, <1>4, <1>5, <1>6, <1>7, <1>8, <1>9 DEF QuietStep

-----------------------------------------------------------------------------
\* The other steps, one at a time: what they change, of which the next lemmas speak.

LEMMA KnownJob ==
    ASSUME RepairTypeOK, JobsKnown, NEW j \in jobs
    PROVE  /\ j \in Job /\ j.req \in begun /\ j.req \in Requests
           /\ j.left \subseteq wanted[j.req] /\ wanted[j.req] \subseteq Texts
BY RepairIsTyped DEF RepairTypeOK, JobsKnown

BeginStep(r, by) ==
    /\ r \in Requests /\ Begin(r, by)
    /\ round'.batch \subseteq round.batch /\ round' \in Round
    /\ notified' \subseteq notified
    /\ UNCHANGED <<wanted, standing, untold, link, acking, copies, own, toAck, skipped, expired, breaks>>

LEMMA BeginSteps ==
    ASSUME RepairTypeOK, JobsKnown, NEW r \in Requests, HearRepair(r) \/ DrainRepair(r)
    PROVE  \E by \in {"push", "drain"} : BeginStep(r, by)
BY DEF HearRepair, DrainRepair, BeginStep, RepairTypeOK, Round

LEMMA BeginKeepsTypes ==
    ASSUME RepairTypeOK, JobsKnown, NEW r \in Requests, NEW by \in {"push", "drain"}, BeginStep(r, by)
    PROVE  RepairTypeOK' /\ JobsKnown'
<1> DEFINE n == [req |-> r, by |-> by, left |-> wanted[r]]
<1>1. r \in 1..MaxRequests /\ wanted[r] \subseteq Texts /\ Requests' = Requests
    <2>1. Requests' = Requests
        BY DEF BeginStep, Requests
    <2>2. MaxRequests \in Nat /\ Len(wanted) <= MaxRequests
        BY RepairAssumption DEF RepairTypeOK
    <2>3. QED  BY <2>1, <2>2, RepairIsTyped
<1>2. n \in Job /\ n.req = r /\ n.left = wanted[r]
    BY <1>1 DEF Job
<1>3. jobs' = jobs \cup {n} /\ begun' = begun \cup {r} /\ redone' \subseteq redone \cup {r}
    BY DEF BeginStep, Begin
<1> HIDE DEF n
<1>4. RepairTypeOK'
    BY <1>1, <1>2, <1>3 DEF BeginStep, RepairTypeOK
<1>5. JobsKnown'
    BY <1>1, <1>2, <1>3 DEF BeginStep, JobsKnown
<1>6. QED  BY <1>4, <1>5

\* A text is dealt with: the run does not have it left any more.
LEMMA DealtWith ==
    ASSUME RepairTypeOK, JobsKnown, NEW j \in jobs, NEW t, jobs' = Dealt(j, t)
    PROVE  \E d \in Job :
             /\ d.req = j.req /\ d.left = j.left \ {t}
             /\ jobs' = (jobs \ {j}) \cup {d}
<1> DEFINE d == [j EXCEPT !.left = @ \ {t}]
<1>1. d \in Job /\ d.req = j.req /\ d.left = j.left \ {t}
    BY KnownJob DEF Job
<1>2. QED  BY <1>1 DEF Dealt

LEMMA RepairTypeInductive ==
    ASSUME RepairTypeOK, JobsKnown, [RepairNext]_repairVars
    PROVE  RepairTypeOK' /\ JobsKnown'
<1> USE RepairAssumption
<1>1. CASE \E ts \in SUBSET Texts : AskRepair(ts)
    <2>1. PICK ts \in SUBSET Texts : AskRepair(ts)  BY <1>1
    <2> DEFINE n == Len(wanted) + 1
    <2>2. /\ n \in 1..MaxRequests /\ Requests' = Requests \cup {n}
          /\ wanted' \in Seq(SUBSET Texts) /\ Len(wanted') <= MaxRequests
          /\ \A r \in Requests : wanted'[r] = wanted[r]
        BY <2>1, NewRequest
    <2>3. /\ standing' = standing \cup {n} /\ untold' = untold \cup {n}
          /\ UNCHANGED <<link, notified, acking, phoneSide, expired, breaks>>
        BY <2>1 DEF AskRepair
    <2> HIDE DEF n
    <2>4. \A j \in jobs : j.req \in Requests
        BY KnownJob
    <2>5. QED  BY <2>2, <2>3, <2>4 DEF RepairTypeOK, JobsKnown, phoneSide
<1>2. CASE \E r \in Requests : HearRepair(r) \/ DrainRepair(r)
    BY <1>2, BeginSteps, BeginKeepsTypes
<1>3. CASE \E j \in jobs, t \in Texts : ResendText(j, t) \/ SkipText(j, t)
    <2>1. PICK j \in jobs, t \in Texts : ResendText(j, t) \/ SkipText(j, t)  BY <1>3
    <2>2. PICK d \in Job : /\ d.req = j.req /\ d.left = j.left \ {t}
                           /\ jobs' = (jobs \ {j}) \cup {d}
        BY <2>1, DealtWith DEF ResendText, SkipText
    <2>3. copies' \in Seq(Texts) /\ Len(copies') <= MaxCopies
        BY <2>1, NewCopy DEF ResendText, SkipText, RepairTypeOK
    <2>4. skipped' \subseteq Texts /\ breaks' \in 0..MaxBreaks
        BY <2>1 DEF ResendText, SkipText, Breaks, RepairTypeOK
    <2>5. UNCHANGED <<wanted, standing, untold, link, notified, acking, own, round, toAck,
                      begun, redone, expired>>
        BY <2>1 DEF ResendText, SkipText
    <2>6. Requests' = Requests
        BY <2>5 DEF Requests
    <2>7. RepairTypeOK'
        BY <2>2, <2>3, <2>4, <2>5, <2>6 DEF RepairTypeOK
    <2>8. JobsKnown'
        BY <2>2, <2>5, <2>6, KnownJob DEF JobsKnown
    <2>9. QED  BY <2>7, <2>8
<1>4. CASE \E j \in jobs : JobDone(j)
    <2>1. Requests' = Requests
        BY <1>4 DEF JobDone, Requests
    <2>2. QED  BY <1>4, <2>1, KnownJob DEF JobDone, RepairTypeOK, JobsKnown
<1>5. CASE QuietStep
    <2>1. Requests' = Requests
        BY <1>5, QuietKeeps DEF AsBefore, Requests
    <2>2. QED  BY <1>5, <2>1, QuietKeeps DEF AsBefore, JobsKnown
<1>6. QED  BY <1>1, <1>2, <1>3, <1>4, <1>5 DEF RepairNext, QuietStep

-----------------------------------------------------------------------------
\* What is handled, and what may be acknowledged, in a quiet step.
LEMMA QuietKeepsInv ==
    ASSUME RepairIInv, QuietStep
    PROVE  RepairIInv'
<1>1. AsBefore /\ RepairTypeOK' /\ JobsKnown'
    <2>1. [RepairNext]_repairVars
        BY DEF QuietStep, RepairNext
    <2>2. QED  BY <2>1, QuietKeeps, RepairTypeInductive DEF RepairIInv
<1>2. Requests' = Requests
    BY <1>1 DEF AsBefore, Requests
<1>3. RequestsDisjoint' /\ CopiesAreAsked'
    BY <1>1, <1>2 DEF RepairIInv, RequestsDisjoint, CopiesAreAsked, AsBefore
<1>4. OneRunEach'
    BY <1>1 DEF RepairIInv, OneRunEach, AsBefore
<1>5. \A t : Handled(t)' <=> Handled(t)
    BY <1>1 DEF Handled, AsBefore
<1>6. RunsHandle'
    BY <1>1, <1>5 DEF RepairIInv, RunsHandle, AsBefore
<1>7. AckedRequests' \subseteq AckedRequests
    BY <1>1, <1>2 DEF AckedRequests, AsBefore
<1>8. AckedIsHandled'
    BY <1>1, <1>5, <1>7 DEF RepairIInv, AckedIsHandled, AsBefore
<1>9. ResentOnceUnlessRepeated'
    BY <1>1 DEF RepairIInv, ResentOnceUnlessRepeated, AsBefore
<1>10. QED  BY <1>1, <1>3, <1>4, <1>6, <1>8, <1>9 DEF RepairIInv

LEMMA AskKeepsInv ==
    ASSUME RepairIInv, NEW ts \in SUBSET Texts, AskRepair(ts)
    PROVE  RepairIInv'
<1> DEFINE n == Len(wanted) + 1
<1>1. RepairTypeOK' /\ JobsKnown' /\ RepairTypeOK /\ JobsKnown
    BY RepairTypeInductive DEF RepairIInv, RepairNext
<1>2. /\ n \notin Requests /\ Requests' = Requests \cup {n}
      /\ \A r \in Requests : wanted'[r] = wanted[r]
      /\ wanted'[n] = ts
    BY <1>1, NewRequest
<1>3. /\ \A r \in Requests : ts \cap wanted[r] = {}
      /\ standing' = standing \cup {n}
      /\ UNCHANGED <<acking, copies, jobs, toAck, begun, redone, skipped, expired>>
    BY DEF AskRepair, Asked, phoneSide
<1> HIDE DEF n
<1>4. begun \subseteq Requests /\ redone \subseteq Requests /\ Resends' = Resends
    BY <1>1, <1>3 DEF RepairTypeOK, Resends
<1>5. RequestsDisjoint'
    <2>1. ASSUME NEW r \in Requests', NEW s \in Requests', r # s
          PROVE  wanted'[r] \cap wanted'[s] = {}
        <3>1. CASE r = n \/ s = n
            BY <1>2, <1>3, <2>1, <3>1
        <3>2. CASE r \in Requests /\ s \in Requests
            BY <1>2, <2>1, <3>2 DEF RepairIInv, RequestsDisjoint
        <3>3. QED  BY <1>2, <3>1, <3>2
    <2>2. QED  BY <2>1 DEF RequestsDisjoint
<1>6. CopiesAreAsked' /\ OneRunEach' /\ ResentOnceUnlessRepeated'
    BY <1>2, <1>3, <1>4 DEF RepairIInv, CopiesAreAsked, OneRunEach, ResentOnceUnlessRepeated
<1>7. \A t : Handled(t)' <=> Handled(t)
    BY <1>3, <1>4 DEF Handled
<1>8. RunsHandle'
    BY <1>1, <1>2, <1>3, <1>7, KnownJob DEF RepairIInv, RunsHandle
<1>9. AckedRequests' = AckedRequests /\ AckedRequests \subseteq Requests
    BY <1>1, <1>2, <1>3 DEF AckedRequests, RepairTypeOK
<1>10. AckedIsHandled'
    BY <1>2, <1>7, <1>9 DEF RepairIInv, AckedIsHandled
<1>11. QED  BY <1>1, <1>5, <1>6, <1>8, <1>10 DEF RepairIInv

LEMMA BeginKeepsInv ==
    ASSUME RepairIInv, NEW r \in Requests, NEW by \in {"push", "drain"}, BeginStep(r, by)
    PROVE  RepairIInv'
<1> DEFINE n == [req |-> r, by |-> by, left |-> wanted[r]]
<1>1. RepairTypeOK' /\ JobsKnown' /\ RepairTypeOK /\ JobsKnown
    BY BeginKeepsTypes DEF RepairIInv
<1>2. /\ jobs' = jobs \cup {n} /\ n.req = r /\ n.left = wanted[r]
      /\ begun' = begun \cup {r} /\ redone' = redone \cup ({r} \cap begun)
    BY DEF BeginStep, Begin
<1> HIDE DEF n
<1>3. /\ UNCHANGED <<wanted, standing, acking, copies, toAck, skipped, expired>>
      /\ Requests' = Requests /\ Resends' = Resends
    BY DEF BeginStep, Requests, Resends
<1>4. RequestsDisjoint' /\ CopiesAreAsked'
    BY <1>2, <1>3 DEF RepairIInv, RequestsDisjoint, CopiesAreAsked
<1>5. OneRunEach'
    <2>1. CASE r \in begun
        BY <1>2, <1>3, <2>1 DEF RepairIInv, OneRunEach
    <2>2. CASE r \notin begun
        <3>1. \A j \in jobs : j.req # r
            BY <1>1, <2>2 DEF JobsKnown
        <3>2. \A c \in Resends : copies[c] \notin wanted[r]
            <4>1. begun \subseteq Requests
                BY <1>1 DEF RepairTypeOK
            <4>2. \A s \in begun : wanted[s] \cap wanted[r] = {}
                BY <2>2, <4>1 DEF RepairIInv, RequestsDisjoint
            <4>3. QED  BY <4>2 DEF RepairIInv, CopiesAreAsked
        <3>3. QED  BY <1>2, <1>3, <2>2, <3>1, <3>2 DEF RepairIInv, OneRunEach
    <2>3. QED  BY <2>1, <2>2
<1>6. ResentOnceUnlessRepeated'
    BY <1>2, <1>3 DEF RepairIInv, ResentOnceUnlessRepeated
<1>7. RunsHandle' /\ AckedIsHandled'
    BY <1>2, <1>3 DEF RepairIInv, RunsHandle, AckedIsHandled, AckedRequests, Handled
<1>8. QED  BY <1>1, <1>4, <1>5, <1>6, <1>7 DEF RepairIInv

\* The shape of a run that deals with one text.
DealStep(j, d, t) ==
    /\ d \in Job /\ d.req = j.req /\ d.left = j.left \ {t}
    /\ jobs' = (jobs \ {j}) \cup {d}
    /\ UNCHANGED <<wanted, standing, acking, toAck, begun, redone, expired>>

LEMMA DealSteps ==
    ASSUME RepairTypeOK, JobsKnown, NEW j \in jobs, NEW t, ResendText(j, t) \/ SkipText(j, t)
    PROVE  \E d \in Job : DealStep(j, d, t)
<1>1. jobs' = Dealt(j, t)
    BY DEF ResendText, SkipText
<1>2. PICK d \in Job : /\ d.req = j.req /\ d.left = j.left \ {t}
                       /\ jobs' = (jobs \ {j}) \cup {d}
    BY <1>1, DealtWith
<1>3. QED  BY <1>2 DEF DealStep, ResendText, SkipText

\* What remains handled when no copy and no text passed over is lost.
LEMMA DealHandles ==
    ASSUME RepairIInv, NEW j \in jobs, NEW t, NEW d \in Job, DealStep(j, d, t),
           \A u : Handled(u) => Handled(u)', Handled(t)'
    PROVE  RunsHandle' /\ AckedIsHandled'
<1>1. Requests' = Requests
    BY DEF DealStep, Requests
<1>2. RunsHandle'
    <2>1. ASSUME NEW k \in jobs', NEW u \in wanted'[k.req] \ k.left
          PROVE  Handled(u)'
        <3>1. wanted' = wanted
            BY DEF DealStep
        <3>2. CASE k \in jobs
            BY <3>1, <3>2 DEF RepairIInv, RunsHandle
        <3>3. CASE k = d
            <4>1. u \in wanted[j.req] /\ (u = t \/ u \notin j.left)
                BY <3>1, <3>3 DEF DealStep
            <4>2. QED  BY <4>1 DEF RepairIInv, RunsHandle
        <3>4. QED  BY <3>2, <3>3 DEF DealStep
    <2>2. QED  BY <2>1 DEF RunsHandle
<1>3. AckedRequests' = AckedRequests /\ wanted' = wanted
    BY <1>1 DEF DealStep, AckedRequests
<1>4. QED  BY <1>2, <1>3 DEF RepairIInv, AckedIsHandled

LEMMA ResendKeepsInv ==
    ASSUME RepairIInv, NEW j \in jobs, NEW t \in Texts, ResendText(j, t)
    PROVE  RepairIInv'
<1> DEFINE n == Len(copies) + 1
<1>1. RepairTypeOK' /\ JobsKnown' /\ RepairTypeOK /\ JobsKnown
    BY RepairTypeInductive DEF RepairIInv, RepairNext
<1>2. /\ n \notin Resends /\ Resends' = Resends \cup {n}
      /\ \A c \in Resends : copies'[c] = copies[c]
      /\ copies'[n] = t
    BY <1>1, NewCopy DEF ResendText
<1> HIDE DEF n
<1>3. PICK d \in Job : DealStep(j, d, t)
    BY <1>1, DealSteps
<1>4. /\ t \in j.left /\ t \in wanted[j.req] /\ j.req \in begun /\ j.req \in Requests
      /\ skipped' = skipped
    BY <1>1, KnownJob DEF ResendText
<1>5. Requests' = Requests /\ wanted' = wanted /\ begun' = begun /\ redone' = redone
    BY <1>3 DEF DealStep, Requests
<1>6. RequestsDisjoint' /\ CopiesAreAsked'
    BY <1>2, <1>4, <1>5 DEF RepairIInv, RequestsDisjoint, CopiesAreAsked
<1>7. OneRunEach'
    <2>1. ASSUME NEW k \in jobs', k.req \notin redone
          PROVE  /\ \A l \in jobs' : l.req = k.req => l = k
                 /\ \A c \in Resends' : copies'[c] \notin k.left
        <3>1. CASE k = d
            <4>1. \A l \in jobs : l.req = j.req => l = j
                BY <1>3, <2>1, <3>1 DEF RepairIInv, OneRunEach, DealStep
            <4>2. \A l \in jobs' : l.req = d.req => l = d
                BY <1>3, <4>1 DEF DealStep
            <4>3. \A c \in Resends : copies[c] \notin j.left
                BY <1>3, <2>1, <3>1 DEF RepairIInv, OneRunEach, DealStep
            <4>4. \A c \in Resends' : copies'[c] \notin d.left
                BY <1>2, <1>3, <4>3 DEF DealStep
            <4>5. QED  BY <3>1, <4>2, <4>4
        <3>2. CASE k \in jobs /\ k # j
            <4>1. \A l \in jobs : l.req = k.req => l = k
                BY <2>1, <3>2 DEF RepairIInv, OneRunEach
            <4>2. k.req # j.req
                BY <3>2, <4>1
            <4>3. t \notin k.left
                BY <1>1, <1>4, <3>2, <4>2, KnownJob DEF RepairIInv, RequestsDisjoint
            <4>4. \A c \in Resends' : copies'[c] \notin k.left
                BY <1>2, <2>1, <3>2, <4>3 DEF RepairIInv, OneRunEach
            <4>5. \A l \in jobs' : l.req = k.req => l = k
                BY <1>3, <4>1, <4>2 DEF DealStep
            <4>6. QED  BY <4>4, <4>5
        <3>3. QED  BY <1>3, <3>1, <3>2 DEF DealStep
    <2>2. QED  BY <1>5, <2>1 DEF OneRunEach
<1>8. ResentOnceUnlessRepeated'
    <2>1. CASE j.req \in redone
        BY <1>2, <1>4, <1>5, <2>1 DEF RepairIInv, ResentOnceUnlessRepeated
    <2>2. CASE j.req \notin redone
        <3>1. \A c \in Resends : copies[c] # t
            BY <1>4, <2>2 DEF RepairIInv, OneRunEach
        <3>2. QED  BY <1>2, <1>5, <3>1 DEF RepairIInv, ResentOnceUnlessRepeated
    <2>3. QED  BY <2>1, <2>2
<1>9. (\A u : Handled(u) => Handled(u)') /\ Handled(t)'
    BY <1>2, <1>4 DEF Handled
<1>10. RunsHandle' /\ AckedIsHandled'
    BY <1>3, <1>9, DealHandles
<1>11. QED  BY <1>1, <1>6, <1>7, <1>8, <1>10 DEF RepairIInv

LEMMA SkipKeepsInv ==
    ASSUME RepairIInv, NEW j \in jobs, NEW t \in Texts, SkipText(j, t)
    PROVE  RepairIInv'
<1>1. RepairTypeOK' /\ JobsKnown' /\ RepairTypeOK /\ JobsKnown
    BY RepairTypeInductive DEF RepairIInv, RepairNext
<1>2. PICK d \in Job : DealStep(j, d, t)
    BY <1>1, DealSteps
<1>3. copies' = copies /\ Resends' = Resends /\ skipped' = skipped \cup {t}
    BY DEF SkipText, Resends
<1>4. Requests' = Requests /\ wanted' = wanted /\ begun' = begun /\ redone' = redone
    BY <1>2 DEF DealStep, Requests
<1>5. RequestsDisjoint' /\ CopiesAreAsked' /\ ResentOnceUnlessRepeated'
    BY <1>3, <1>4 DEF RepairIInv, RequestsDisjoint, CopiesAreAsked, ResentOnceUnlessRepeated
<1>6. OneRunEach'
    <2>1. \A k \in jobs' : (k \in jobs /\ k # j) \/ k = d
        BY <1>2 DEF DealStep
    <2>2. d.req = j.req /\ d.left \subseteq j.left
        BY <1>2 DEF DealStep
    <2>3. QED  BY <1>3, <1>4, <2>1, <2>2 DEF RepairIInv, OneRunEach
<1>7. (\A u : Handled(u) => Handled(u)') /\ Handled(t)'
    BY <1>3 DEF Handled
<1>8. RunsHandle' /\ AckedIsHandled'
    BY <1>2, <1>7, DealHandles
<1>9. QED  BY <1>1, <1>5, <1>6, <1>8 DEF RepairIInv

LEMMA DoneKeepsInv ==
    ASSUME RepairIInv, NEW j \in jobs, JobDone(j)
    PROVE  RepairIInv'
<1>1. RepairTypeOK' /\ JobsKnown' /\ RepairTypeOK /\ JobsKnown
    BY RepairTypeInductive DEF RepairIInv, RepairNext
<1>2. /\ UNCHANGED <<wanted, standing, acking, copies, begun, redone, skipped, expired>>
      /\ jobs' \subseteq jobs /\ toAck' = toAck \cup {j.req} /\ j.left = {}
      /\ Requests' = Requests /\ Resends' = Resends
    BY DEF JobDone, Requests, Resends
<1>3. RequestsDisjoint' /\ CopiesAreAsked' /\ OneRunEach' /\ ResentOnceUnlessRepeated'
    BY <1>2 DEF RepairIInv, RequestsDisjoint, CopiesAreAsked, OneRunEach, ResentOnceUnlessRepeated
<1>4. \A t : Handled(t)' <=> Handled(t)
    BY <1>2 DEF Handled
<1>5. RunsHandle'
    BY <1>2, <1>4 DEF RepairIInv, RunsHandle
<1>6. AckedRequests' = AckedRequests \cup {j.req}
    BY <1>2 DEF AckedRequests
<1>7. \A t \in wanted[j.req] : Handled(t)
    BY <1>2 DEF RepairIInv, RunsHandle
<1>8. AckedIsHandled'
    BY <1>2, <1>4, <1>6, <1>7 DEF RepairIInv, AckedIsHandled
<1>9. QED  BY <1>1, <1>3, <1>5, <1>8 DEF RepairIInv

LEMMA RepairInductive ==
    ASSUME RepairIInv, [RepairNext]_repairVars
    PROVE  RepairIInv'
<1>1. CASE \E ts \in SUBSET Texts : AskRepair(ts)
    BY <1>1, AskKeepsInv
<1>2. CASE \E r \in Requests : HearRepair(r) \/ DrainRepair(r)
    BY <1>2, BeginSteps, BeginKeepsInv DEF RepairIInv
<1>3. CASE \E j \in jobs, t \in Texts : ResendText(j, t) \/ SkipText(j, t)
    BY <1>3, ResendKeepsInv, SkipKeepsInv
<1>4. CASE \E j \in jobs : JobDone(j)
    BY <1>4, DoneKeepsInv
<1>5. CASE QuietStep
    BY <1>5, QuietKeepsInv
<1>6. QED  BY <1>1, <1>2, <1>3, <1>4, <1>5 DEF RepairNext, QuietStep

LEMMA RepairInvariant == RepairSpec => []RepairIInv
<1>1. RepairInit => RepairIInv
    <2> SUFFICES ASSUME RepairInit PROVE RepairIInv
        OBVIOUS
    <2>1. /\ wanted = << >> /\ Requests = {} /\ copies = << >> /\ Resends = {}
          /\ jobs = {} /\ begun = {} /\ round = NoRound
        BY DEF RepairInit, Requests, Resends
    <2>2. RepairTypeOK
        <3>1. wanted \in Seq(SUBSET Texts) /\ copies \in Seq(Texts) /\ Len(wanted) = 0 /\ Len(copies) = 0
            BY <2>1
        <3>2. own \in [Texts -> {"sending", "sent", "deleted"}]
            BY DEF RepairInit
        <3>3. QED
            <4>1. /\ MaxRequests \in Nat /\ MaxCopies \in Nat /\ 0 \in 0..MaxBreaks
                  /\ round \in Round
                BY <2>1, RepairAssumption DEF NoRound, Round
            <4>2. {standing, untold, notified, toAck, begun, redone, expired} \subseteq SUBSET Requests
                BY DEF RepairInit
            <4>3. link \in BOOLEAN /\ acking \subseteq SUBSET Requests /\ jobs \subseteq Job
                BY <2>1 DEF RepairInit
            <4>4. skipped \subseteq Texts /\ breaks \in 0..MaxBreaks
                BY <4>1 DEF RepairInit
            <4>5. Len(wanted) <= MaxRequests /\ Len(copies) <= MaxCopies
                BY <3>1, <4>1
            <4>6. QED
                BY <3>1, <3>2, <4>1, <4>2, <4>3, <4>4, <4>5 DEF RepairTypeOK
    <2>3. QED
        BY <2>1, <2>2 DEF RepairInit, RepairIInv, JobsKnown, RequestsDisjoint, CopiesAreAsked, OneRunEach,
            RunsHandle, AckedIsHandled, AckedRequests, ResentOnceUnlessRepeated, NoRound
<1>2. RepairIInv /\ [RepairNext]_repairVars => RepairIInv'
    BY RepairInductive
<1>3. QED  BY <1>1, <1>2, PTL DEF RepairSpec

(***************************************************************************)
(* Requests, runs of processReset and re-sends are what engine.ts says.    *)
(***************************************************************************)
THEOREM RepairTypeCorrect == RepairSpec => []RepairTypeOK
BY RepairInvariant, PTL DEF RepairIInv

(***************************************************************************)
(* processReset sends each text again once, unless it is begun twice for   *)
(* its request: pushed and drained, or offered again as an acknowledgement *)
(* was lost.                                                               *)
(***************************************************************************)
THEOREM RepairResendsOnce == RepairSpec => []ResentOnceUnlessRepeated
BY RepairInvariant, PTL DEF RepairIInv

(***************************************************************************)
(* No crash, lost frame or failed request makes the server forget a        *)
(* request before each of its texts was re-sent or passed over.            *)
(***************************************************************************)
THEOREM RepairsAreNotForgotten == RepairSpec => []GoneIsAnswered
<1>1. RepairIInv => GoneIsAnswered
    BY DEF RepairIInv, AckedIsHandled, AckedRequests, Handled, GoneIsAnswered
<1>2. QED  BY <1>1, RepairInvariant, PTL
=============================================================================
