---------------------------- MODULE MessageStore ----------------------------
(***************************************************************************)
(* The server's `messages` collection for one direction of one             *)
(* conversation, as the phones and the other server modules see it.        *)
(*                                                                         *)
(* A document never changes after Message.create() except for its          *)
(* timestamps, so the documents are a sequence (a document's id is its     *)
(* position: ObjectIds and createdAt grow together) and each timestamp is  *)
(* the set of the ids that have it.                                        *)
(***************************************************************************)
EXTENDS Naturals, Sequences, FiniteSets

CONSTANTS
    Msgs,      \* the texts the sender may write (a text stands for its clientId)
    MaxDocs,   \* bound: documents stored in one behaviour
    MaxReg     \* bound: installs of the recipient's phone (registration ids)

ASSUME StoreAssumption == MaxDocs \in Nat \ {0} /\ MaxReg \in Nat \ {0}

VARIABLES
    docs,       \* the Message documents, oldest first
    acked,      \* ids with ackedAt set: their envelope is gone
    delivered,  \* ids with deliveredAt set
    emitting    \* stored, but their send_message handler has not reached emitToUser yet

storeVars == <<docs, acked, delivered, emitting>>

Ids  == 1..MaxDocs
NoId == 0
Regs == 1..MaxReg

(***************************************************************************)
(* `reg` is envelope.recipientRegistrationId, the install it was encrypted *)
(* for; `good` abstracts the ciphertext: whether that install holds a      *)
(* session or prekeys that open it; `resendOf` is NoId or an older id.     *)
(***************************************************************************)
Doc == [msg : Msgs, reg : Regs, good : BOOLEAN, resendOf : Ids \cup {NoId}]

Stored == DOMAIN docs

StoreTypeOK ==
    /\ docs \in Seq(Doc)
    /\ Len(docs) <= MaxDocs
    /\ acked \subseteq Ids
    /\ delivered \subseteq Ids
    /\ emitting \subseteq Ids

StoreInit ==
    /\ docs = << >>
    /\ acked = {}
    /\ delivered = {}
    /\ emitting = {}

(***************************************************************************)
(* send_message once its checks passed: Message.create().  The rest of the *)
(* handler (counters, badge, the two emits) follows in Emitted.            *)
(***************************************************************************)
Create(doc) ==
    /\ Len(docs) < MaxDocs
    /\ docs' = Append(docs, doc)
    /\ emitting' = emitting \cup {Len(docs) + 1}
    /\ UNCHANGED <<acked, delivered>>

Emitted(i) ==
    /\ i \in emitting
    /\ emitting' = emitting \ {i}
    /\ UNCHANGED <<docs, acked, delivered>>

(***************************************************************************)
(* acknowledgeMessages() is two updateMany calls: the first drops the      *)
(* envelopes, the second counts the messages as delivered.                 *)
(***************************************************************************)
DropEnvelopes(ids) ==
    /\ acked' = acked \cup ids
    /\ UNCHANGED <<docs, delivered, emitting>>

CountDelivered(ids) ==
    /\ delivered' = delivered \cup ids
    /\ UNCHANGED <<docs, acked, emitting>>

\* listPending(): the oldest `limit` documents that still hold an envelope.
Pending == Stored \ acked
PendingPage(limit) ==
    {i \in Pending : Cardinality({j \in Pending : j < i}) < limit}

\* getConversationMessages(): the newest `limit` documents, newest first.
NewestRows(limit) == {i \in Stored : Len(docs) - i < limit}
=============================================================================
