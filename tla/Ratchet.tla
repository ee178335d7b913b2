------------------------------- MODULE Ratchet ------------------------------
(***************************************************************************)
(* One session of two phones: X3DH (x3dh.ts) and the double ratchet        *)
(* (ratchet.ts) as encryptMessage and decryptMessage of sessionCipher.ts   *)
(* use them. Messages arrive in any order, more than once or never.        *)
(*                                                                         *)
(* Keys are symbols. A Diffie-Hellman result is the set of the two keys'   *)
(* names, a root key the sequence of results it was derived from, a chain  *)
(* key its root key and the number of steps, and a message key is the      *)
(* chain key it was taken at: the two sides hold the same key exactly when *)
(* they have derived it alike.                                             *)
(***************************************************************************)
EXTENDS Naturals, FiniteSets, Sequences, SequencesExt

CONSTANTS
    MAX_SKIP,         \* most message keys skipped in one chain (2000)
    MAX_SKIPPED_KEYS, \* most skipped keys kept in a session (2000)
    MaxTexts          \* bound: messages sent

ASSUME RatchetAssumption ==
    /\ {MAX_SKIP, MAX_SKIPPED_KEYS, MaxTexts} \subseteq Nat
    /\ MAX_SKIPPED_KEYS > 0

Sides == {"alice", "bob"}
Peer(p) == IF p = "alice" THEN "bob" ELSE "alice"

VARIABLES
    ends,  \* the RatchetState of each side, in its session record
    wire,  \* the messages sent
    got,   \* the messages each side has decrypted
    fresh, \* key pairs made
    \* history
    again, \* a message was decrypted twice
    lost   \* messages passed over with MAX_SKIPPED_KEYS newer ones: their key may go

ratchetVars == <<ends, wire, got, fresh, again, lost>>

Dh(a, b) == {a, b}
NoKey == << >>
Ck(root, n) == [root |-> root, n |-> n]
NoChain == Ck(NoKey, 0)

\* The signed prekey is key 1, Alice's ephemeral key 2; identity and one-time keys
\* add nothing that tells two sessions of the same two phones apart.
SignedPreKey == 1
SharedKey == <<Dh(1, 2)>>

\* initRatchetAsInitiator with key pair 3, initRatchetAsResponder
AliceInit ==
    [dhs |-> 3, dhr |-> SignedPreKey, rk |-> Append(SharedKey, Dh(3, SignedPreKey)),
     cks |-> Ck(Append(SharedKey, Dh(3, SignedPreKey)), 0), ckr |-> NoChain,
     ns |-> 0, nr |-> 0, pn |-> 0, skipped |-> << >>]

BobInit ==
    [dhs |-> SignedPreKey, dhr |-> 0, rk |-> SharedKey, cks |-> NoChain, ckr |-> NoChain,
     ns |-> 0, nr |-> 0, pn |-> 0, skipped |-> << >>]

\* No session keeps more than MAX_SKIPPED_KEYS skipped keys.
FewKept == \A p \in Sides : Len(ends[p].skipped) <= MAX_SKIPPED_KEYS

RatchetTypeOK ==
    /\ DOMAIN ends = Sides
    /\ \A p \in Sides : {ends[p].ns, ends[p].nr, ends[p].pn} \subseteq 0..MaxTexts
    /\ FewKept
    /\ \A m \in wire : m.from \in Sides /\ m.n \in 0..MaxTexts /\ m.pn \in 0..MaxTexts
    /\ got \in [Sides -> SUBSET wire] /\ lost \subseteq wire
    /\ fresh \in 3..(MaxTexts + 3) /\ again \in BOOLEAN

RatchetInit ==
    /\ ends = [p \in Sides |-> IF p = "alice" THEN AliceInit ELSE BobInit]
    /\ wire = {} /\ got = [p \in Sides |-> {}] /\ fresh = 3
    /\ again = FALSE /\ lost = {}

-----------------------------------------------------------------------------
(* ratchet.ts, on a state s *)

CanSend(s) == s.cks # NoChain

\* ratchetEncrypt
Encrypted(s) == [s EXCEPT !.cks.n = @ + 1, !.ns = @ + 1]

TooFar(s, until) == until > s.nr + MAX_SKIP

\* Mutant: the keys passed over are not kept.
SkippedForgotten(s, until) ==
    IF s.ckr = NoChain \/ until <= s.nr THEN s
    ELSE [s EXCEPT !.ckr.n = @ + (until - s.nr), !.nr = until]

\* skipMessageKeys: the keys up to `until` are kept for later, the oldest dropped.
Skipped(s, until) ==
    IF s.ckr = NoChain \/ until <= s.nr THEN s
    ELSE LET keys == [i \in 1..(until - s.nr) |->
                        [dh |-> s.dhr, n |-> s.nr + i - 1, mk |-> [s.ckr EXCEPT !.n = @ + i - 1]]]
             all == s.skipped \o keys IN
         [s EXCEPT !.ckr.n = @ + (until - s.nr), !.nr = until,
                   !.skipped = IF Len(all) > MAX_SKIPPED_KEYS
                               THEN SubSeq(all, Len(all) - MAX_SKIPPED_KEYS + 1, Len(all))
                               ELSE all]

\* dhRatchet, with the new key pair k
Stepped(s, dh, k) ==
    LET rk1 == Append(s.rk, Dh(s.dhs, dh))
        rk2 == Append(rk1, Dh(k, dh)) IN
    [s EXCEPT !.pn = s.ns, !.ns = 0, !.nr = 0, !.dhr = dh, !.ckr = Ck(rk1, 0), !.dhs = k,
              !.rk = rk2, !.cks = Ck(rk2, 0)]

HasSkipped(s, m) == \E i \in DOMAIN s.skipped : s.skipped[i].dh = m.dh /\ s.skipped[i].n = m.n
SkippedAt(s, m) == CHOOSE i \in DOMAIN s.skipped : s.skipped[i].dh = m.dh /\ s.skipped[i].n = m.n
NewChain(s, m) == s.dhr # m.dh

\* The state in which the message's chain is the receiving one.
OnChain(s, m, k) == IF NewChain(s, m) THEN Stepped(Skipped(s, m.pn), m.dh, k) ELSE s

\* Why ratchetDecrypt refuses, or "ok".
Outcome(s, m, k) ==
    IF HasSkipped(s, m)
    THEN IF s.skipped[SkippedAt(s, m)].mk = m.mk THEN "ok" ELSE "decrypt_failed"
    ELSE IF NewChain(s, m) /\ TooFar(s, m.pn) THEN "too_many_skipped"
    ELSE IF ~NewChain(s, m) /\ m.n < s.nr THEN "duplicate_message"
    ELSE IF TooFar(OnChain(s, m, k), m.n) THEN "too_many_skipped"
    ELSE IF Skipped(OnChain(s, m, k), m.n).ckr = m.mk THEN "ok" ELSE "decrypt_failed"

\* The state kept after "ok": a failed attempt changes nothing.
Decrypted(s, m, k) ==
    IF HasSkipped(s, m)
    THEN [s EXCEPT !.skipped = RemoveAt(@, SkippedAt(s, m))]
    ELSE LET t == Skipped(OnChain(s, m, k), m.n) IN [t EXCEPT !.ckr.n = @ + 1, !.nr = @ + 1]

-----------------------------------------------------------------------------
\* encryptMessage: the new state is saved before the message leaves.
SendsText(p) ==
    /\ CanSend(ends[p]) /\ Cardinality(wire) < MaxTexts
    /\ LET s == ends[p] IN
        /\ wire' = wire \cup {[id |-> Cardinality(wire) + 1, from |-> p, dh |-> s.dhs,
                               pn |-> s.pn, n |-> s.ns, mk |-> s.cks]}
        /\ ends' = [ends EXCEPT ![p] = Encrypted(s)]
    /\ UNCHANGED <<got, fresh, again, lost>>

\* m was sent before x (key pairs are numbered as they are made).
Before(m, x) == m.dh < x.dh \/ (m.dh = x.dh /\ m.n < x.n)

\* The receiving chain of s is past m.
PassedOver(s, m) == m.dh < s.dhr \/ (m.dh = s.dhr /\ m.n < s.nr)

\* The messages to p that a state s of it has passed over, and are not in `have`.
Waiting(p, s, have) == {m \in wire : m.from # p /\ m \notin have /\ PassedOver(s, m)}

\* decryptMessage: the new state is saved with the message.
Opens(p, m) ==
    /\ m.from # p
    /\ Outcome(ends[p], m, fresh + 1) = "ok"
    /\ LET new == NewChain(ends[p], m) /\ ~HasSkipped(ends[p], m)
           t == Decrypted(ends[p], m, fresh + 1)
           waiting == Waiting(p, t, got[p] \cup {m}) IN
        /\ ends' = [ends EXCEPT ![p] = t]
        /\ fresh' = IF new THEN fresh + 1 ELSE fresh
        /\ lost' = lost \cup {x \in waiting :
                Cardinality({y \in waiting : Before(x, y)}) >= MAX_SKIPPED_KEYS}
    /\ got' = [got EXCEPT ![p] = @ \cup {m}]
    /\ again' = (again \/ m \in got[p])
    /\ UNCHANGED wire

RatchetNext == \E p \in Sides : SendsText(p) \/ \E m \in wire : Opens(p, m)

RatchetSpec == RatchetInit /\ [][RatchetNext]_ratchetVars

-----------------------------------------------------------------------------
\* m is further ahead of p than MAX_SKIP messages of one chain.
FarAhead(p, m) ==
    \E x \in wire : Cardinality({y \in wire : /\ y.dh = x.dh /\ y.from = m.from
                                              /\ Before(y, m) /\ ~PassedOver(ends[p], y)})
                    > MAX_SKIP

\* Whatever has been sent and not yet decrypted can be decrypted now, in any order and
\* across any number of turns of the conversation, unless it is more than MAX_SKIP
\* messages ahead or MAX_SKIPPED_KEYS newer ones were passed over with it
\* (skipMessageKeys and dhRatchet of ratchet.ts).
EveryTextOpens ==
    \A p \in Sides : \A m \in wire :
        m.from # p /\ m \notin got[p] /\ m \notin lost /\ ~FarAhead(p, m)
            => Outcome(ends[p], m, fresh + 1) = "ok"

\* No message is decrypted twice, however often it is delivered: its key is gone
\* (ratchetDecrypt).
NoneOpensTwice == ~again

\* No two messages are encrypted with one key, from which the nonce is derived, in either
\* direction and across all turns (ratchetEncrypt and dhRatchet).
NoKeyTwice == \A m, x \in wire : m.mk = x.mk => m = x

\* The three together: a session of two phones loses no message, reads none twice and
\* encrypts no two with one key (ratchet.ts).
EveryTextOpensOnce == EveryTextOpens /\ NoneOpensTwice /\ NoKeyTwice
=============================================================================
