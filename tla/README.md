# A TLA+ development of TalkNow

TalkNow is a chat app: Expo/React Native phones, a Node server with MongoDB, a
websocket for live events and REST for the rest. Messages are end-to-end
encrypted; the server keeps a message only until the recipient's phone has
acknowledged it. These modules model the parts of that system in which order,
loss and restarts decide whether a message arrives once, arrives at all, and is
shown truthfully. Paths below are relative to `src/`.

## 1. Inventory

| Part | State it keeps | Operations | Modelled in |
|---|---|---|---|
| message store (`backend/models/message.js`, `backend/services/e2eeMessaging.js`) | `Message` documents with `ackedAt`, `deliveredAt`, `readAt`; `SessionReset` documents | create, list pending, acknowledge; store, acknowledge and expire resets | `MessageStore`, `Mailbox`, `Repair` |
| websocket server (`backend/services/websocketServer.js`) | sockets per user, one task queue per socket | auth, send_message, ack, session_reset, mark_read, emits, disconnectSessions | `Mailbox`, `Outbox`, `Repair`, `Badges`, `AuthSessions`, `SocialGraph` |
| conversation queries (`backend/utils/chatFunctions.js`) | none | newest rows with status, inbox, counts | `MessageStore`, `Outbox`, `Badges` |
| engine, receiving (`services/e2ee/engine.ts`) | pendingAcks, resetRequests, timers, draining/drainAgain | processIncoming, drainPending, flushAcks, requestReset, flushResetRequests | `Mailbox` |
| engine, sending (same file) | retriedAfterKeyChange, reconciling | sendText, retryMessage, deleteMessage, onSent, updateStatus, onSendRejected, reconcileOutbox, syncConversation | `Outbox` |
| engine, repair (same file) | pendingResetAcks | processReset, scheduleAckFlush | `Repair` |
| local store (`services/e2ee/localStore.ts`) | messages, sessions, trusted identities, prekeys, in one SQLite file | conditional updates in transactions, open, wipe | rows in `Mailbox`, `Outbox`; sessions and identities in `PeerTrust`, `Verification`; prekeys in `PreKeys`; open and wipe in `EngineHost` |
| trust (`localStore.ts`, `crypto/sessionCipher.ts`, `SafetyNumber.tsx`, `chatroom.tsx`) | identity, verified, needs_ack, safetyCache | trustIdentity, setVerified, acknowledgeIdentity, getSafetyNumber, prepareSession | `PeerTrust`, `Verification` |
| prekeys (`services/e2ee/keyManager.ts`, `backend/utils/keyFunctions.js`) | private prekeys on the phone, bundle on the server | create, publish, rotate, top up, hand out | `PreKeys` |
| X3DH and double ratchet (`services/crypto/x3dh.ts`, `ratchet.ts`) | root and chain keys, counters, skipped keys | start a session, encrypt, decrypt | `Ratchet` |
| keyed mutex (`services/crypto/mutex.ts`) | a chain of promises per key | run, clean-up | `KeyedMutex` |
| sessions (`backend/Controllers/AuthController.js`, `services/AuthService.tsx`, `Context/AuthProvider.tsx`) | refresh token hashes, stored tokens, refreshInFlight | login, refresh, logout, reset, interceptors, start of the app, socket auth | `AuthSessions` |
| one-time codes (`AuthController.js`, `models/otp.js`) | hash, attempts, expiry, cooldown | send, verify, sign up, forgot, reset | `AccountCodes` |
| social graph (`backend/utils/followfunctions.js`, `safetyFunctions.js`) | connections, follow lists, blocks, request notifications | follow, cancel, accept, reject, dismiss, unfollow, block, unblock, delete the account | `SocialGraph` |
| relationship on the phone (`services/relationships.ts`, `ChatsScreen.tsx`, `fullProfile.tsx`) | the label of each button, results of a search | tap, menu, search, load | `FollowButton` |
| unread counts (`backend/services/messageService.js`, `UnreadContext.tsx`, `ChatsScreen.tsx`) | a counter per conversation, what the phone shows | count, reset, fetch, poll | `Badges` |
| notifications (`notificationFunctions.js`, `notifications.tsx`) | Notification documents, the list on the screen | load, merge, push, dismiss, answer | `Notices` |
| push (`services/pushNotifications.ts`, `backend/services/pushService.js`) | a push token per session | register, send, read tickets | `PushTokens` |
| media (`backend/services/mediaStore.js`) | images, and the profile fields that name them | prepare, commit, delete the replaced one | `Media` |
| profile page (`fullProfile.tsx`, `AddLink.tsx`, `HeroCanvas.tsx`) | fields, links, picture, hero | load, edit, save | `ProfilePage` |
| engine host (`E2EEProvider.tsx`, `WebSocketClient.tsx`, `DeleteAccountModal.tsx`) | the engine and the socket of the signed-in user, connectedRef | open, start, stop, connect, reconnect, wipe | `EngineHost` |

How they interact: a phone opens a socket and sends its token; the server adds
the socket and answers `registered`; the engine then publishes its keys if
needed, drains `GET /messages/pending`, sends waiting repair requests and
reconciles its outbox. While connected, `send_message`, `ack`, `session_reset`
and `mark_read` go up, `new_message`, `sent`, `message_status`,
`identity_changed`, `session_reset` and `badge_update` come down. Everything
else is REST, with an access token that is refreshed when it is about to expire.
All work on one peer's session runs under that peer's lock; database writes of
the phone are serialised transactions; everything between two awaits is atomic.
On the server only some of the handlers use a transaction.

What is hard: frames are lost with a socket without either side knowing which;
every handler can interleave at its awaits; the phone's memory vanishes when
the app is killed and the server's handlers when it restarts; the same message
arrives by push and by drain; answers are snapshots that are stale when used;
identities change while messages for the old one are under way; a request that
was given up may be carried out later; screens assume the outcome of a call
before it is known; effects of one sign-in end during the next.

What makes each part correct: the store gives nothing up that no phone holds;
the receiving half loses nothing it recorded, and everything queued is taken
over in the end; the sending half shows true ticks, never moves a status back,
sends once, ends every send, and answers each request for a
repair once. Sending pauses after a verified contact's key
changed, messages go to the identity the phone trusts, and verified means
compared. Published prekeys have private halves, every message opens once. An
honest phone keeps its session and a revoked one is out; a code is guessed a
limited number of times and the newest one works. Nothing connects blocked
users, and nothing is left of a deleted one. Counts, lists and buttons say what
the server has. `PROJECT.json` lists the hazards at their lines and the
properties that cover them.

## 2. Modules

Messages:

- `MessageStore` is one direction of one conversation in the `messages`
  collection. Ids are positions, timestamps are sets of ids. The two following
  modules extend it. `Emitted` marks the end of a send_message handler, which
  writes first and tells the recipient later.
- `Custody` is the abstract promise: an accepted message is with the server, or
  some install of the phone has recorded it.
- `Mailbox` is the receiving half. `Process` is `processIncoming`, with one
  action per outcome (already stored, other install, duplicate key, unreadable,
  readable); `ReceivePush` and `DrainOne` run it. The drain is a small state
  machine (`drain.stage`), because it awaits between its requests. An
  acknowledgement is a task with two stages, because `acknowledgeMessages` is
  two updates. `held`, `asked`, `cut` are history variables.
- `Outbox` is the sending half. `out` is the row of each message; `up` are the
  frames each socket of the phone still has at the server, which handles them
  one at a time per socket, also after the socket closed; `handling` is a stored
  message whose handler is not done; `rec` is the running `reconcileOutbox`.
  `raced` and `swallowed` are history variables.
- `Repair` is what a contact's request for repair makes the phone do. A request
  reaches it by push and by drain; each `processReset` is a job, which awaits
  between its messages, so jobs run beside each other. `own` is the row of each
  message named, `copies` the re-sends. `begun`, `redone`, `skipped`, `expired` are
  history variables.
- `TaskLock` is the abstract promise of a keyed mutex: one task of a key at a
  time, in call order. `KeyedMutex` is `mutex.ts`: a call is chained to the call
  before it, and each callback of a promise is a step. Its map (`tails`) loses
  an entry only to the callback of the call that made it.

Keys and trust:

- `PeerTrust` is what one phone believes about one contact: the
  `trusted_identities` row, the session record, and `prepareSession`, which
  awaits the bundle between looking at the row and using it (`start`). Installs
  are numbered as they come; a session is named by its position in `under`, the
  list of the installs they are with. The contact is the environment and its
  messages arrive in any order. A message under way carries what the phone
  believed when it was sent. `newest`, `owed`, `again`, `late` are history
  variables.
- `Verification` is how the user comes to verify a contact: reads for the screen
  and the chat, each await of them a step, the cached number, and the mark on
  its way to the row. An identity stands for its number.
- `PreKeys` is the private half of what one install published beside the bundle
  on the server, with requests that fail before or after they were executed, or
  are executed late. `handed` is every bundle given to a contact.
- `Ratchet` is one session with symbolic keys: a Diffie-Hellman result is the
  set of its two keys, a root key the sequence of results, a message key its
  chain and position. Two sides agree exactly when they derived alike.

Accounts:

- `AuthSessions` is the rows of sessions and refresh tokens on the server and
  the tokens, requests and sockets of one phone. A refresh reads the row and
  writes it conditionally, which are two steps; callers of `refreshAccessToken`
  share the one in flight.
- `AccountCodes` is one address: its signup record, the reset code of its
  account, and up to two handlers at once, each a sequence of database steps.
- `Media` is one picture field and the images; `PushTokens` the sessions of one
  phone and which of them has its push token; `EngineHost` the engine and socket
  of the signed-in user, as React's effects start and stop them. `HostRenders`
  is the moment at which refs and listeners catch up with the state.

Users and screens:

- `SocialGraph` is two users with everything the server keeps of the two. A
  handler without a transaction is a request in the bag `doing`, with a step per
  write. `taint` records how far the known races have gone.
- `FollowButton`, `Badges`, `Notices` and `ProfilePage` are each one screen (or
  one of two screens) beside the server's truth, with calls whose answers come
  in any order.

Theorems are in modules of their own (section 4): `MailboxProofs`, `OutboxProofs`
(messages), `PhoneProofs` (`EngineHost`, `PushTokens`, `Verification`, `PreKeys`),
`PeerTrustProofs` (`PeerTrust`, and the phone's parts together), `RatchetProofs`
(`Ratchet`, `KeyedMutex`, `Repair`), `AuthSessionsProofs`, `AccountProofs` (`AccountCodes`,
`Media`, and the account's parts together) and `ScreenProofs` (`SocialGraph`, `Badges`,
`FollowButton`, `Notices`, `ProfilePage`, and these together). Where one extends
several components, these share no variable, and each theorem but those about
`Types` is about one of them. The `MC_*` modules are the ones
TLC runs, with the `.cfg` files. `MC_Accounts`, `MC_Social` and
`MC_Phone` compose parts that share no state: the variable `part`, chosen in the
initial state, says which of them a behaviour runs, so that their state spaces
add up. A property then speaks of one part and holds in the initial states of
the others. This composition is a matter of running TLC; where components do
interact, they are in one module (`Mailbox` with the store, `SocialGraph` with
deletion, `AuthSessions` with the sockets).

Operators marked "Mutant" are plausible bugs in the definition that follows
them. They are used by no specification: each was put in place of that
definition to see that a property notices.

### What is abstracted, and why that is sound here

- Message contents are model values. `good` says whether the install an
  envelope is for can open it; which sessions open what is left to the session
  modules. A payload of a newer app version counts as text, since its row does
  the same.
- A task under the peer's lock is one action where nothing else can write what
  it reads. What this takes of the lock of `mutex.ts` is what `TaskLock` says, and
  `KeyedMutex` is shown to implement it.
- Acknowledgements and reset requests on the socket are unordered sets. The
  code keeps their order, so the model has more behaviours, none of which the
  properties tell apart: both are idempotent.
- `FlushResetRequests` sends one peer's requests. `registered` is a flag in
  `Mailbox`: two unhandled `registered` frames have the effect of one.
- `DropEnvelopes` merges the `find` with the first `updateMany`; both filter on
  `ackedAt: null`, and only acknowledgements set it.
- `mark_read` is left out of `Mailbox`, whose properties do not look at
  readers, and is in `Outbox` and `Badges`.
- In `Mailbox` the sender is the environment: `Deposit` stores any message for
  the published install and a re-send only of what was asked for. In `Outbox`
  the trust checks of `prepareSession` are left out, they are the subject of
  `PeerTrust`, and so are the re-sends of `processReset`, which have no row and
  are the subject of `Repair`.
- `Repair` has one contact and one request at a time for each message, since a
  contact asks once (its notice makes later deliveries return early). A re-send
  is done when `transmit` has given it to the socket: the server stores or
  refuses it like any message, except that nobody has a row to mark, and what it
  replaces in the contact's chat is in `Mailbox`. What
  archiving the session does is in `PeerTrust`; a transmission that fails or is
  refused is one that is skipped. A page of the drain has every request that
  stands: the limit of 200 is left out, as is that of 20 requests per pair.
- In `PeerTrust` a session is what its base key stands for; whether its ratchet
  opens a message of it is the subject of `Ratchet` (a duplicate is dropped
  earlier, by its row). `Without` takes one occurrence out of the record where
  `withActive` filters: `RecordIsSet` says there is never a second. Users verify
  and acknowledge at any moment, whatever number they looked at; what they
  looked at is the subject of `Verification`, where in turn the identity may
  change at any moment.
- The check of the recipient's registration id and the create are one action. A
  reinstall between them has the effect of a reinstall just after the create.
  An unfollow or a block between the check of the connection and the create is
  in `SocialGraph`.
- `HistoryLimit` counts the sender's own rows; the 50 rows of the code hold the
  other direction as well, so it can only be smaller.
- A new socket opens in `Outbox` only once the frames of the old one are
  handled, as their events precede it in the phone's event loop; the writes
  they start (`confirming`) may still be pending. `EngineHost`, which looks at
  the socket of a former sign-in, lets its events come at any time.
- In `AuthSessions` and `PushTokens` time is an action that ends a grace period
  or a session. In `AccountCodes` a code is "cool" or "old". In `PreKeys` moments
  are counted, and long beside a task.
- Passwords and codes are compared by right or wrong: a guess is nondeterministic.
- A handler's step in `FollowButton` is one action: `SocialGraph` takes it apart.
- In `ProfilePage` a text is the number of the edit that made it.

## 3. Runs

| Run | Specification, bounds | Shows |
|---|---|---|
| `mailbox_safety` | 2 documents, 2 installs, one page of one message a drain, limits 1, one fault of any kind (drop, app killed, server restart, failed request, failed database write, reinstall), broken envelopes | `HeldIsTraced`, `RepairTracked`, refinement of `Custody` |
| `mailbox_live` | fair; 2 documents, two drops or restarts of the app, pages uncapped | `EveryMessageTaken`, `AckedIsDelivered` |
| `mailbox_v_repair` | fair; 1 document, one drop | counterexample to `EveryRepairAsked` |
| `outbox_live` | fair; 2 messages, 2 sockets, a drop or a restart, recipient away | `EverySendEndsUnlessSwallowed` |
| `outbox_v_twice` | 1 message, one drop | counterexample to `StoredOnce` |
| `outbox_v_stuck` | fair; 2 messages, one drop | counterexample to `EverySendEnds` |
| `outbox_safety` | 1 message, 2 copies, 2 installs of the recipient, history of 1 row, 2 sockets, unlinking, giving up, one fault of any kind | `TicksAreTrue`, `StoredOnceUnlessRaced`, `FailedIsNotStored`, `StatusNeverBack` |
| `phone_safety` | `PeerTrust`: 2 installs of the contact, 3 sessions, 1 archived, 1 message each way; `Verification`: 2 identities, 2 reads; `PreKeys`: 3 moments, 2 one-time keys, 2 bundles handed out, one takeover, one fault; `PushTokens`: 3 sign-ins, 2 installs, 2 registrations under way; `EngineHost`: 2 sign-ins | `RecordIsSet`, `PausedUnlessChangedAgain`, `AcceptedIsTrusted`, `VerifiedWasCompared`, `KeysAreHeld`, `PushesFollowTheUser`, `EngineServesUser` |
| `trust_v_paused` | `PeerTrust` as above, 3 installs | counterexample to `PausedUntilAcknowledged` |
| `accounts_safety` | `AuthSessions`: 2 accounts, 2 sessions, 3 tokens, one lost call or restart; `AccountCodes`: an address new or registered, 2 handlers, 2 codes, 2 attempts, 3 passwords; `Media`: 3 images, 2 updates; `Ratchet`: 7 messages, limits 2; `KeyedMutex`: 2 keys, 5 calls; `Repair`: 2 messages, 1 request, 2 re-sends, two faults of any kind (drop, app killed, server restart, failed request, failed database call) | `EndedOnlyWhenMissed`, `StoredTokenIsUsable`, `TokensAreUsers`, `SocketsAreLive`, `EndedStaysEnded`, `GuessesAreLimited`, `NewestCodeStands`, `NoSessionOutlivesItsPassword`, `MediaMatchesProfile`, `EveryTextOpensOnce`, `ResentOnceUnlessRepeated`, `GoneIsAnswered`, refinement of `TaskLock` |
| `social_safety` | `SocialGraph`: 2 users, 2 requests under way; `FollowButton`: 2 calls under way; `Badges`: 2 messages, 2 requests or answers; `Notices`: 2 notifications, 2 loads; `ProfilePage`: 2 edits, 2 saves | `FollowStateAgrees`, `BlockedHaveNothing`, `NothingLeftOfDeleted`, `ButtonIsTrue`, `BadgesAreTrue`, `NoticesShown`, `ProfileIsKept` |
| `keys_v_rotation` | `PreKeys` as above, 3 one-time keys | counterexample to `SignedPreKeyKept` |

`Types` in the composed runs is the type invariant of the part that runs; those
of `Mailbox` and `Outbox` are theorems (section 4), as is `AckedIsHeld`, which the
refinement of `Custody` contains. `BadgesAreTrue` is `CountIsUnread` and
`ShownIsCount`.

Why the bounds are enough: two documents make an original and its re-send, or a
page and a `more`; in `mailbox_safety` a drain stops there, for another round to
read on, and `mailbox_live`, where no drain is cut short, reads the second page; limits of one make every slice and cap bind;
one fault of any kind leaves the other interleavings exhaustive, and the live
run has two, so that a reconnect falls into a drain that a reconnect began. In
`Outbox`, the second copy of a message needs two sockets or a race on one, and
`outbox_live` allows for as many documents as two sockets can produce, so that
the server is never blocked by the bound. In
`PeerTrust` a late message of the first of two installs makes the second change,
and three sessions overflow an archive of one. Two handlers, calls, loads or
updates at once make every race of two steps; the third token or image is
the one that meets a leftover of the first while the second is current. Two codes
do the same for `AccountCodes`, which starts with an address that is new or one
that is registered already, so that a second reset meets what the first left. One
request is enough for a repair to be told twice, and the second message is the
one a crash leaves over; five calls make a key idle and busy again beside
another. Seven
messages let the conversation turn twice with keys skipped in both chains, and
one more than the limits. Three moments make a key old while its successor is
fresh. The bounds are the
constants named "bound" where they are declared; `MaxPages`, `MaxResets`,
`MaxArchived`, `OtpMaxAttempts`, `MAX_SKIP`, `MAX_SKIPPED_KEYS`, `HistoryLimit`
and `Keep` are limits of the code made small.

Symmetry: users, handlers, updates, platforms, notifications, loads, keys of the
lock and messages to repair are interchangeable and share two model values in a
composed run. No liveness property is checked under symmetry.

Deadlock is not checked: with its faults and connections used up the model may
rest, as the system may.

Fairness: `WF(ServerStep)` and `WF(PhoneStep)` only, in `Mailbox` and `Outbox`.
A server that has begun a handler goes on with it, and a phone goes on with its
timers, requests and reconnects (`scheduleReconnect` never gives up). Nothing is
assumed of users, senders, the recipient in `Outbox`, or faults, and no single
handler is promised its turn. The other modules state safety only: what they
promise is about what is left when nothing is under way.

### Exceptions a property names

Many of the safety properties hold but for races the code has. The exception is
a history variable that is set at the race and nowhere else, so the property says
that the race is the only way. They are:

- `EndedOnlyWhenMissed`, `StoredTokenIsUsable`: an answer to a refresh was lost,
  or a refresh the phone had given up was carried out later. The first ends the
  session as stolen once the grace minute is over (`AuthController.js:423-427`).
- `TokensAreUsers`: a 401 retry after another account has signed in repeats the
  request as that one.
- `SocketsAreLive`, `NoSessionOutlivesItsPassword`: a socket whose token was
  looked up, or a login whose password was compared, before the revocation.
- `GuessesAreLimited`, `NewestCodeStands`: a check that began with one signup
  code removes or resets, by `_id`, the one sent meanwhile; `resetPassword`
  clears a code that is newer than its last wrong guess.
- `FollowStateAgrees`, `BlockedHaveNothing`, `NothingLeftOfDeleted`: a follow
  that had passed its checks overwrites an accepted connection or writes behind
  a block; accepting by user id needs no pending request; `blockUser` has no
  transaction; a crossing request that is rejected.
- `CountIsUnread`, `ShownIsCount`: `mark_read` sets the counter to 0 whatever
  came since; an older answer or preview lands last.
- `NoticesShown`: a failed tap puts the list of its time back.
- `VerifiedWasCompared`: the identity changes while the mark is being written,
  or a change is announced while a screen is reading.
- `ResentOnceUnlessRepeated`: `processReset` was begun twice for a request.
  `GoneIsAnswered`: nobody picked the request up within two weeks, or the message
  was passed over (`SkipText`).
- `MediaMatchesProfile`: an update sets a URL again that another has replaced.
- `PushesFollowTheUser`: the server never heard of a sign-out, and a registration
  of the former session was still on its way.
- `EngineServesUser`: `registered` came between the copy of `connected` and the
  subscription; a socket of a former sign-in reported; an account was deleted
  while no engine was there, or the answer was lost.
- `ButtonIsTrue`: the relationship changed since the answer, or the button tapped
  was outdated itself.
- `ProfileIsKept`: a save failed, was overtaken, or was made before the page was
  filled; for the links, also until the first save of them. `AddLink` takes its
  links from the first render (`AddLink.tsx:515`), before the profile was
  fetched: it shows none of the saved ones, and what it saves first is a list
  without them.

### What the counterexamples say

1. **A repair request can be lost for good** (`mailbox_v_repair`).
   `flushResetRequests` deletes the request when `send()` took the frame. If the
   socket dies before the server reads it, nobody asks again, since the stored
   notice makes every later delivery return early. The README's "Its sender is
   asked to start a fresh session and send it again" does not hold then.
   `RepairTracked` shows that the named losses are the only ones.
2. **A message can be stored twice** (`outbox_v_twice`). `reconcileOutbox` sends
   again what the history answer does not show, although the first frame is
   still being handled. Nothing on the server looks at `clientId`.
   `StoredOnceUnlessRaced` shows that rejections, retries, key changes and
   restarts alone never store twice.
3. **A message can stay "sending" while connected** (`outbox_v_stuck`). A
   reconnect that meets the previous `reconcileOutbox` returns at once; a message
   sent after that one's snapshot and lost with the socket waits for yet another
   reconnect. `EverySendEndsUnlessSwallowed` shows this is the only way in the
   bounds of the run.
4. **A second key change lifts the pause** (`trust_v_paused`). `trustIdentity`
   sets `needs_ack` from the `verified` it clears in the same statement. If the
   contact's identity changes once more before the user has acknowledged,
   `verified` is already 0, so `needs_ack` becomes 0 and the next message goes
   out unasked. `PausedUnlessChangedAgain` shows that this is the only way, apart
   from a message that was fetching the new key while the user verified the old
   one.
5. **A rotated signed prekey is not kept** (`keys_v_rotation`). `rotateIfOld`
   replaces a signed prekey when it is 30 days old and then deletes those older
   than 30 days: the one it has just replaced. A contact that fetched the bundle
   a moment before sends a first message that cannot be read. `KeysAreHeld`
   shows what does hold: the bundle on the server is always one the phone can
   answer for while its requests are not carried out late, and one-time keys are
   kept for their time.

Two exceptions in the properties of `Repair` mean more than their names say:

- *A request handled twice* adds a message to the contact's chat. Nothing
  remembers that a request was handled: one that is pushed while a drain is
  fetching it, or fetched again since its acknowledgement was lost, is handled
  again (`engine.ts:385`). The first re-send takes the notice away, so the second
  finds none to replace. `ResentOnceUnlessRepeated` shows that nothing else sends
  a message twice.
- *A message passed over* stays a notice for good. `processReset` looks neither at
  what `transmit` returns nor at its error (`engine.ts:384-388`), so a socket that
  goes down between request and re-send loses the re-send, and the request is
  acknowledged all the same, by POST. `GoneIsAnswered` shows that no request is
  gone before each of its messages was at least looked at.

## 4. Proofs

Every theorem is about the specification the runs check, for every value of the
constants that its module's ASSUME allows. The assumptions say that limits and
bounds are natural numbers, and of these that some are not zero: the sizes of
pages, slices and histories, the attempts and passwords in `AccountCodes`, the
installs, identities and sockets there must be for anything to happen. `Slots`
(the handlers at once) is finite, and `Pair` has two users. No theorem assumes a
relation between two constants. Bounds on counters are guards of the model, so a
theorem covers every finite execution of the code once they are large enough.

Each proof has the same form: types first, then an invariant that implies the
property, one lemma per action or group of actions, one step per conjunct the
action can disturb, and a temporal step at the end.

`MailboxProofs`:

- `MailboxTypeCorrect`: `Spec => []TypeOK`. That a drain in its fetch stage has
  read fewer than `MaxPages` pages is part of the inductive type.
- `AckedMessagesAreHeld`: `AckedIsHeld` is not inductive. `AckChain` also says
  that what is in `pendingAcks` and in acknowledgement tasks is held; a row is
  written before its id enters `pendingAcks`, and held never shrinks.
- `HeldMessagesAreTraced`: needs that ids in frames and batches name stored
  documents and that a re-send names a document of the store (`Known`).
- `RepairsAreTracked`: a notice comes with its request, and each step that
  removes a request puts it into a task, into `asked` or into `cut`.
- `MailboxKeepsCustody`: every step of `Mailbox` is a step of `Custody` or a
  stutter, using `AckedIsHeld` where envelopes are dropped.

`OutboxProofs`:

- `OutboxTicksAreTrue`: a row may be true while a frame that will overwrite it is
  not, so `Truth` says of every carrier what `TicksAreTrue` says of rows: frames
  to the phone (also of a socket that is gone), writes under way and the history
  answer claim only what the server has stored and counted, which never shrinks.
- `OutboxStoresOnce`, `OutboxFailedIsNotStored`: the invariant is `Once`: unless
  `raced`, a message is in one place (a copy on the server, one frame of one socket,
  or one refusal on its way), and in none while its row does not say it is being
  sent. `raced` is set by `reconcileOutbox` alone, so every other way to send
  again, the user's included, is shown to wait for the place to be empty.
- `OutboxStatusNeverBack` is an action property. From `Truth` and `Once`, no
  refusal is under way of a message that is stored and not raced.

`PeerTrustProofs`:

- `AcceptedWereTrusted`: `AcceptedIsTrusted` speaks of stored messages only.
  The invariant that carries it orders the installs: no session the phone ever
  opened is with an install newer than the newest it trusted (`Seen`), what it
  trusts is that one unless an older came late (`UpToDate`), so a message under
  way is never for a newer install than the one trusted at sending (`NotAhead`),
  and the server takes only what is for the present install, the newest of all.
- `SendingPauses`: `Flagged` says the flag is up as long as the first change is
  the only one, and down while `prepareSession` is at work. The second needs the
  peer's lock: nobody else records an identity meanwhile.
- `RecordNamesOnce`: the invariant `Separate` splits the record into its active
  session and the archive. An archived session is taken out when it is revived,
  and what goes into the archive was not there.
- `PhoneTypesCorrect`: a step of `MC_Phone` is a step or a stutter of each of its
  parts, so each part's type theorem holds of the composition, and `Types` of all
  parts at once, whichever runs. `AccountTypesCorrect` and `SocialTypesCorrect` say
  the same of the other two.

`RatchetProofs`:

- `RatchetNoKeyTwice`, `RatchetNoneOpensTwice`: for any limits and any number of
  messages. The two ends are never in step: one has always stepped its root once more
  than the other, to the key the other sends with (`Ahead`, `TurnOk`). A step
  appends two results, so the lengths of Alice's roots are even and of Bob's odd:
  a key belongs to one side. On one side, a chain is left for a longer root and
  its index only grows (`TextOk`). What was opened is behind the receiving chain
  and its key is not kept (`Spent`), and `TurnFact` shows that a message which
  opens a new chain is of the chain the other side sends on now: an old one is
  not stepped to again.
- `RatchetEveryTextOpens`: the second invariant, `TextsIInv`, says what the
  messages and the two states have to do with each other. `Chained` gives the
  chain of every message and how far it can be from the receiver's; `Follows`
  says that the receiver's chain is the sender's or the one before it and that
  every message of these, without a gap, has been sent; `KeptOk` that the kept
  keys are in the order of sending and are exactly those of messages passed over,
  less the ones in `lost`. The last is the hard part: a key is dropped only from
  the front of the list, so the keys behind it are of that many newer messages
  still waiting (`LastOfTexts`, by an injection into the set that `lost` counts),
  and this must survive two rounds of `skipMessageKeys` in one `ratchetDecrypt`
  (`TurnTexts`). A message that is neither kept nor behind is at most MAX_SKIP
  ahead unless that many unread ones of its chain exist (`FarWhen`).
- `RatchetEveryTextOpensOnce`: the three together, which the run checks.
- `RatchetFewKept`: the bound on kept keys, of the same invariant.
- `RatchetTypeCorrect`: the bounds too follow from these two invariants. A chain is
  no longer than the messages on the way, since each of its indices is that of
  one of them (`ChainCounted`), and there are no more key pairs than the first
  three and one for each message opened (`Counted`).
- `MutexKeepsLock`: every step of `KeyedMutex` is a step of `TaskLock` or a
  stutter. A call is chained to the call before it of its key unless that has
  finished (`InChain`), the map's entry is the last call of its key, and a key
  without one has only finished calls (`TailIsLast`); so a task has begun only after all before it have
  finished (`InTurn`). The clean-up that compares before it deletes is what
  `TailIsLast` needs. `MutexForgetsIdle` is that idle keys leave the map.
- `RepairResendsOnce`, `RepairsAreNotForgotten`: no two requests name one message
  (`RequestsDisjoint`), a request begun once has one run and no copy yet of what
  that run has left (`OneRunEach`), and every place an acknowledgement can be
  (pending, on its way, carried out) names requests whose messages were all
  sent again or passed over (`AckedIsHandled`).

`AuthSessionsProofs`:

- `AuthEndedStaysEnded`: an action property from the types alone: each write that
  makes a row live is to a new one, or conditional on the row it read.
- `AuthSocketsAreLive`: inductive with sockets still being checked.
- `AuthTokensAreUsers`: says of every place a token can be in what the property
  says of the storage: a login being stored (`LoginOwns`), a refresh in flight
  (`RefreshKeeps`), a request waiting, and that at rest they are of one account
  (`OneAccount`).
- `AuthStoredTokenIsUsable`, `AuthEndedOnlyWhenMissed`: `Rotation` says of the
  one refresh in flight (`OneRefresh`) that, unless it was missed, the token it
  was asked with is its row's current one, or its answer has the current one.

`AccountProofs`:

- `CodesGuessesAreLimited`: every wrong guess on the present code has used up one
  of its attempts (`SignupLimited`, `ResetLimited`); the code adds an attempt
  before it compares.
- `CodesNoSessionOutlives`: a session that is not `raced` is of the account, no
  older than its last reset, and no removal of the account is past its sessions
  (`Standing`).
- `CodesNewestCodeStands`: the attempts used up are the wrong guesses and those of
  checks under way with a right one, counted as the cardinality of a set of
  handlers (`Counting`); unless a handler of the code before crossed it.
- `MediaMatches`: the image an update brings is its own and nobody else knows it
  before it is set (`NewImages`), what an update is to delete is not what the
  profile shows (`OldImages`), and while updates neither overlap nor fail there is
  one, and the images are the profile's and its own (`Tidy`).

`PhoneProofs`:

- `HostEngineServesUser`: what is numbered was started (`HostNumbers`), the engine
  in use is that of the present sign-in and open (`HostEngines`), the socket's
  state and the flags agree (`HostSocket`), and a database still being opened
  counts as stored (`HostWiped`).
- `PushFollowsTheUser`: a registration under way has the token of the install that
  made it, and between its two updates no other session of the phone has that
  token (`PushRegs`); the phone leaves a session only when it is revoked or the
  server does not hear of it (`PushLeft`).
- `VerifyWasCompared`: outside the exceptions, every number read, cached or shown
  is the row's, or is being read again (`Numbers`), the same for the shield
  (`Shields`), and a mark on its way was compared before (`Comparison`).
- `PublishedKeysAreHeld`: `KeysAreHeld` relates the bundle on the server with the
  store of the phone, which change in different steps. `KeysStand` adds what is
  between them: the request under way, its answer not yet come, names keys that
  are in the store and not in the bundle (`RequestIsNew`), one-time keys are
  given out in the order of their ids (`InOrder`), and none that was given out
  returns to the bundle (`OfferedOnce`). A late request (`floated`) breaks these;
  the newest signed key is kept even then (`NewestKept`).
- That proof failed at first because `Effect` was a CASE with two guards that may
  hold at once (an upload while another install's bundle stands): TLC takes the
  first, the logic promises neither. It is an IF now, in the order of the code.

`ScreenProofs`:

- `GraphFollowStateAgrees`, `GraphBlockedHaveNothing`, `GraphNothingLeft`: the
  properties speak of moments of rest, the invariants of all others. `Agrees` says
  what a block has cut by each of its steps and that, untainted, nothing is made
  again behind it; `BlockCuts` and `DeletionCuts` say that what still stands beside
  a block or of a deleted account is for a step to come. The bag of requests is
  reasoned about by what `(+)` and `(-)` do to its set (`BagGrows`, `BagShrinks`).
- `BadgeCountIsUnread`: the counter with the message about to be counted is what
  is stored and unread (`Counted`).
- `BadgeShownIsCount`: with no request on its way, the last answer is the count, or
  no answer left is to be believed (`LastReply`).
- `ButtonSaysWhatIs`: beside the label (`LabelIsTrue`), what every answer on its way
  says and every call was made for is so (`Good`), each action keeping it for all
  calls at once; in the search, the last search made is still to answer (`Latest`).
- `NoticesAreShown`: a notification that is not shown is on its way: some load has
  not been read, or has it, or a tap that took it away has it in the list it will
  put back (`OnItsWay`). What a tap was answered is gone from the server.
- `ProfileStaysKept`: of each kind of save the one that heals is the last and of
  what the page shows, and unless the kind is amiss there is such a save or the
  server has it already (`Stands`, kept by adding a save and by removing any of
  them); a page not yet filled has made no such save, and unless one was made
  early nothing is under way (`Unfilled`); the picture and the hero by what the
  stage of their one request says (`PictureStands`, `HeroStands`).

The type theorems (`*TypeCorrect`) state each module's type invariant; the theorems
about `Types` put them together as the composed runs check them.

Only model-checked:

- `EveryMessageTaken`, `AckedIsDelivered`, `EverySendEndsUnlessSwallowed`: liveness
  is out of the prover's reach, which knows neither fairness nor ENABLED.
- That no more than `MaxDoing` requests are under way in `SocialGraph`, a bound in
  the guards of the model alone: the cardinality of a bag is defined by recursion.

No module with a theorem reaches a recursive definition.

## 5. What is not modelled

Left out of the runs:

- Failed requests in `mailbox_live`: a round asked for during a drain is
  forgotten when that drain fails, and the messages wait for the next
  reconnect. With `"http"` among the faults `EveryMessageTaken` is violated.
- A server restart between the two updates of `acknowledgeMessages`: the message
  is never counted as delivered. With `"server"` among the faults
  `AckedIsDelivered` is violated.
- More than 5000 queued messages (50 pages of 100): the drain stops.
- Several sockets of one user, and legacy plain-text messages.
- A delayed first message of a replaced install makes the old identity trusted
  again (`late` in `PeerTrust`). The code has no order of installs to refuse it
  by; the next message sent is refused by the server and the new identity
  fetched.

Not modelled:

- The order of several contacts' repairs, which share a drain and nothing else.
- Two engines of one account on one database: after a quick sign-out and sign-in
  the stopping engine's running tasks and the new one's have no lock in common.
- The daily limit of reports (`safetyFunctions.js`), which is counted before the
  report is created.
- Cryptographic primitives, wire formats and
  encodings, which are functions without state; routes, rate limits,
  configuration and the operator's scripts; layout, selection mode and
  animations of the screens; the forms of onboarding, whose requests are
  modelled with their handlers.

## 6. Plan

1. A run of `Outbox` with a change of keys after a copy was stored, for the row that
   is retried under the server's id (`engine.ts:499`).
2. Two engines of one account on one database.
