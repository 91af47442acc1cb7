# Verification of circle_be

TLA+ models, TLC runs and TLAPS proofs for the back end under `src/`: a social
network in NestJS 11 and Prisma 7 over PostgreSQL 16, with Redis where several
replicas run, LiveKit for calls and a push provider for phones.

`PROJECT.json` holds the machine-readable side: for every modelled definition the
lines it stands for (`map`), the hazards the properties are aimed at (`hazards`),
the runs, the mutants that show each property can fail, the findings and the
theorems. This file says what is modelled and how, what the checks and the proofs
show, and what is left.

## 1. The system

Paths are relative to `src/src/`. "Hard" is what concurrency, failure or ordering
can break there; "right when" lists the properties that make the part correct.

### Chat conversations (`chat/chat.service.ts` and neighbours)

- *State*: a conversation row with two counters (`nextHeight`, `nextRevision`),
  message rows numbered by both, seats (`ChatMember`: read and delivery marks,
  clear level, silence, burn switch), reactions, the pinned banner.
- *Operations*: send, server messages, edit, revoke, react, read and delivery
  receipts, burn switch, clear, pin, mute, silence, remove; the burn sweeper (cron);
  the sync endpoint the devices poll after every reconnect.
- *Interaction*: every change of a message takes the row lock of its conversation
  (`SELECT ... FOR UPDATE`); a database trigger gives changed rows new revisions;
  coins, calls, friends, circles and support insert their messages through
  `ChatSystemMessageService`.
- *Hard*: checks made before the lock and used under it; receipts written without
  the lock; a sync answer put together from three unlocked reads; messages older
  than the revision stream; retries of a send whose answer was lost; a sweeper on
  several replicas.
- *Right when* heights are dense; a reader who has seen revision N has seen every
  change up to N; devices are exact up to their cursor; acknowledged messages are
  stored once; erased text stays erased; silenced members cannot speak; expired
  messages are burned and devices catch up.

### Calls (`call/call.service.ts`)

- *State*: `CallSession` and `CallParticipant` rows, rooms of the media server, the
  call record written into the conversation.
- *Operations*: create, accept, reject, leave, cancel, token, the sweeper of
  unanswered calls, the media server's webhook.
- *Interaction*: creating and accepting run in transactions under advisory locks
  shared with `friend.service.ts` (block, end of a friendship); everything else is
  a sequence of single conditional updates.
- *Hard*: six paths end a call and race; the room is made before the row; a status
  is read before a write and used after it; the process dies between statements;
  requests to the media server time out, and their failures are only logged; the snapshot of a serializable transaction is older than the lock it waited for.
- *Right when* a call ends once and is recorded once, as it ended; nobody is in two
  calls; outcome and seats agree; rooms are returned, unless the media server fails
  the request about them; no call rings forever.

### Coins (`coin/`, `group-expansion/`, `support-recharge/`, `referral/`)

- *State*: wallets, the ledger of coin transactions, gifts with their transfer
  cards, expansion orders and the circle's capacity, recharge orders, referrals.
- *Operations*: gifts; buying an expansion card; approving and rejecting a recharge;
  settling a referral; the cron that makes up for missing transfer cards.
- *Interaction*: four services write the same wallet row. Three of them use
  `runSerializableTransaction` (`utils/prisma-tx.ts`), recharges run at READ
  COMMITTED under a lock of the order. Cards are messages of the chat.
- *Hard*: debits decided on a snapshot; idempotency keys used at the same time; an
  approval in two transactions; a value computed from a snapshot and written beside
  an increment; the limit of the day around midnight; a card issued by the request
  and by several crons.
- *Right when* no wallet is overdrawn; the ledger replays to the balance; each fact
  moves its coins once; limits and caps hold; an answer says what happened; a card
  arrives, once.

### Push outbox (`notification/`)

- *State*: one job row per notification (status, lease token, completion reason),
  one delivery row per device token (status, attempts), the tokens.
- *Operations*: claim a job, list its deliveries, send, write outcomes, finish; poll
  the provider's receipts; open a completed job again; an operator's retry; delete
  the announcement behind a job.
- *Interaction*: the minute cron of every replica claims jobs, another one polls
  receipts, logouts disable tokens (`auth/`), other services insert notifications.
- *Hard*: a lock that is ten minutes old is taken over while its first worker still
  sends; outcomes are written without the lease token; receipts come at any time.
- *Right when* a row is tried a bounded number of times and never again once its
  outcome is final; every job ends; what failed and may be retried is retried.

### Sessions and trusted devices (`auth/`)

- *State*: refresh token rows with the generation of four revocation scopes,
  the scopes' generations and exempted families, trusted devices, challenges of
  unknown devices, device-bound push tokens, the single-device switch.
- *Operations*: login by password, challenge or code, refresh with detection of
  reuse, logout in its forms, change and reset of the password, removing devices,
  approving and rejecting a login, recovery of a reinstalled device.
- *Interaction*: most operations hold the account's advisory lock while they run
  several transactions; a logout by refresh token, the switch and approvals do not.
- *Hard*: a token rotates while everything is revoked; a login has compared the old
  password before it changed; a device is removed while it refreshes or its earlier
  challenge is approved; later advances overwrite an exemption.
- *Right when* a removed device stays out, a new password ends what the old one let
  in, and one login is left where only one is allowed.

### Admission to circles (`circle-invitation/`, `circle/`, `group/`)

- *State*: member rows and the denormalised `memberCount`, the circle's limits,
  bans, invitations with votes and counts, notices and cards.
- *Operations*: apply, invite, join by code, answer an invitation, vote, add a
  verifier, the administrator's decision, leave, dissolve, change the policy, deliver
  the notice of an invitation.
- *Interaction*: seats in the circle's chat follow the members
  (`chat/chat-circle-sync.service.ts`); capacity is raised by `group-expansion/`.
- *Hard*: several roads into one circle; counts kept by increments beside the rows
  they count; a notice judged in one transaction and written in two others; a seat
  given by a run after the commit, shared with other requests, queued, repeated.
- *Right when* the counts agree with the rows; the limit, a ban and dissolution hold
  on every road; nobody is notified of an invitation that does not stand; a member
  has a seat in the end.

### Friendship (`friend/`)

- *State*: requests and friendships, the thread of a request, blocks, an outbox that
  copies the thread of an accepted request into the chat.
- *Hard*: crossing requests; a block between check and write; a copying job taken
  over in the middle while its first worker still writes and saves its progress.
- *Right when* the copy is complete and in order.

### Account identifiers and fancy numbers (`fancy-number/`, `auth/`, database triggers)

- *State*: one registry of claims on names (in use, kept for later, invite code) fed by
  statements and by triggers on `User`; the stock of numbers, leases, orders, wallets.
- *Operations*: buy, switch, renew, expire, the highest membership's conversion,
  rename, register, administer the stock.
- *Hard*: a request notes the time and looks for a lease that has run out before its
  transaction; the registry moves partly behind the services' back.
- *Right when* a name belongs to one person, the name kept for somebody is not given
  to another, and claims, stock, leases and orders agree.

### Parts that are not modelled

| Part | State and operations | Why |
| --- | --- | --- |
| Admission to standalone groups (`chat/group-admission.service.ts`) | invitations, reviews, seats under the conversation's row lock | rules of `CircleAdmission` with a simpler review |
| Temporary chats (`temp-chat/`) | rooms with an end | each operation one transaction that rechecks the room; the messages are in `ChatConversation` |
| Job lease (`redis/job-lease.ts`) | a token in Redis with a time to live | modelled by its effect: two holders may overlap in the modules with a cron, except `CircleSeats`, which has one process and one run of its cron at a time |
| Realtime (`chat/chat.gateway.ts`, `realtime/`) | sockets, rooms, presence | best effort by design: sync makes up for what is missed |
| Call pushes (`call/`) | pushes to phones | best effort; a decline from a push is `rejectCall` |
| Notes (`note/`), uploads (`upload/`) | drafts, versions, media references | rows of one owner guarded by versions; object storage |
| Circle plaza (`circle-plaza/`) | posts with sign-ups | one transaction each on one post |
| Items, content, consoles, infrastructure, deployment | catalogues, traces, likes, stickers, back office | queries and rows of one owner |

## 2. Plan

Most important behaviour first; everything in this list is done.

1. `ChatConversation`: requests, sweeper, devices.
2. `CallSession`, shown to implement `CallLifecycle`.
3. `CoinLedger`: four services over one wallet.
4. `PushOutbox`, shown to implement `PushDelivery`.
5. `Sessions`: sessions and trusted devices of one account.
6. `CircleAdmission`, shown to implement `CircleRoster`, and `CircleSeats`, the chat
   seats that follow it.
7. `Friendship` with its outbox.
8. `FancyNumber`, shown to implement `NameTitles`.

Every safety invariant, action property and refinement of the passing runs is now a
theorem as well (section 5). What later work is about, in this order: admission to
standalone groups, which shares rows with `ChatConversation`; the ownership of circles,
which `CircleAdmission` keeps constant; clearing a direct chat for both sides.

Runs stay at two or three users, two concurrent requests and one or two objects
under contention; the theorems take care of larger instances. Services that share no
rows share a run (below), so that one run asks one kind of question of several of
them.

## 3. The modules

| Component | Module | Promise | Composed in | Proofs |
| --- | --- | --- | --- | --- |
| Chat | `ChatConversation` | | `MCChatConversation` | `ChatConversationProofs` |
| Calls | `CallSession` | `CallLifecycle` | `MCCallSession` | `CallSessionProofs` |
| Coins | `CoinLedger` | | `MCCoinLedger`, `MCDeliveries` | `CoinLedgerProofs`, `Sums` |
| Push | `PushOutbox` | `PushDelivery` | `MCServices`, `MCDeliveries` | `DeliveryProofs` |
| Sessions, devices | `Sessions` | | `MCServices` | `SessionsProofs` |
| Circles | `CircleAdmission` | `CircleRoster` | `MCServices` | `CircleAdmissionProofs` |
| Circle seats | `CircleSeats` | | `MCDeliveries` | |
| Friends | `Friendship` | | `MCServices`, `MCDeliveries` | `DeliveryProofs` |
| Identifiers | `FancyNumber` | `NameTitles` | `MCServices` | `FancyNumberProofs`, `Sums` |

`MCServices` (safety) and `MCDeliveries` (liveness) are sums: the services in them
share no rows, so a behaviour exercises one, chosen at the start, and the others stay
where they are. This checks each service on all its behaviours, and nothing about two
of them at once. Where components do share rows they share a module: the four coin
services in `CoinLedger`, blocks and calls in `CallSession`, governance and messages
in `ChatConversation`, devices and sessions in `Sessions`.

### ChatConversation

One conversation. `conv`, `msgs`, `seats`, `marks` are the committed rows; `lock` is
the row lock; `job[w]` is the request worker `w` is handling. A request goes from
*ready* (checks done and values read without the lock: the `Request...` actions) to
*writing* (`LockRow`: the lock is granted, the checks are repeated as the code
repeats them, and the handler's effect is put together as a pending transaction) and
to *idle* (`Commit`, or `Fail`, which rolls back). The handlers are operators of the
same names as the code's methods (`sendMessage`, `editMessage`, `revokeMessage`,
`toggleReaction`, `markRead`, `clearHistory`, `setPinnedMessage`,
`sweepConversation`, ...) and return the pending transaction. `assign_revision` is
the trigger, `UpdateRows` and `InsertRow` the only ways to write message rows.
Receipts have two more phases because `markRead` looks for armed timers before it
decides whether it needs the lock at all.

A device is a cursor, a replica and, while a sync request runs, the parts of its
answer: `SyncBegin` reads the watermark, `SyncPage` the rows, `SyncReactions` the
reactions, and `SyncDeliver` applies the page; between any two of them everybody
else may commit. `Init` has messages that predate the revision stream
(`backfill_revision`), which carry revision = height with the counter still at zero.

Abstracted: bodies are model values, time is the event that a timer has run out
(`Expire`), kinds of messages are text, card and system.

### CallLifecycle and CallSession

`CallLifecycle` is what the service owes each call: it rings, may be answered, ends
once, and the end is recorded at most once, with the outcome it had. `CallSession` is
the code: each request is a worker with a program counter, one action per statement
or transaction. The status changes are conditional updates, as in the code; the
winner goes on to `closeSeats`, `deleteRoom` and `emitCallRecordMessage`.
`createCallSession` decides on the snapshot its transaction took when it began to
wait for the advisory locks. `KeepsLifecycle` is the refinement, with
`status` computed from the rows and the records as they are.

`rooms` are the rooms the media server has. `livekitDeleteRoom` is the service's
deletion, which logs a failure or a time-out and returns as if the room were gone;
`createRoom` may fail although the room was made, and after a time-out deletes it behind
the late answer. Rooms such a failed request leaves are in `strays` as well, until a
later deletion or the media server's own time-out closes them. `Faults` says what may
go wrong: the process dies ("crash"), requests to the media server fail ("media").

### CoinLedger

`wallet` and `ledger` are the tables all services share. A serializable transaction
is two steps: *begin* reads the snapshot and decides everything on it, *commit*
succeeds only if no wallet row the transaction writes has been written since
(`Stale`), and `runSerializableTransaction` runs the function again or gives up -
also without a conflict, as the database may report one falsely. That every write of
a wallet appends a ledger row of the same user is what lets `Stale` be read off the
ledger. All limits and caps are guarded by wallet rows: whoever could change the sum
of the day, the count of the month or the circle's seats writes the same wallet, so
the write conflict alone protects them; the model gives the database no credit for
detecting read dependencies as SERIALIZABLE does. Recharges are one atomic step per
transaction, since they hold the lock of their order and change the wallet by an
increment. `Crash` may take away any request at any point before it has answered.

A gift's rows are stamped when they are written: with any day between the one its
limit was checked for and today.

### PushDelivery and PushOutbox

`PushOutbox` is one notification: `outbox` is its job row, `delivery` a row per device
token, `pushJob[w]` what a worker has in hand between its statements (`claimed`,
listed, sending, outcomes to write), `poll[p]` the receipts a poller has fetched and
not written yet. Tokens come and go, the announcement is deleted, an operator retries,
a worker dies, a statement fails; `MaxPushEvents` bounds these. Time is abstract: a
backoff that ends and a lock that has become ten minutes old may happen at any moment.
`PushDelivery` is the promise: a bounded number of tries, and never again after a final
outcome. It ends where a worker was overtaken while it was sending (`torn`, mapped from
`overtaken`): its outcomes are written without the lease token, and the code counts on
ten minutes being longer than any send.

### Sessions

One account with its devices. Operations that hold the advisory lock are `authOp`, one
transaction per step, so that the operations that do not take the lock come in between.
A row of a refresh token has the set of scopes that were advanced since it was made
(`stale`) in place of the generations themselves, which only grow; `exempt` is the
family a scope's last advance spared. `knows` are devices whose password has been
compared before the session is made, `floor` is the password after the last change that
was answered: history that `PasswordEndsSessions` needs. Operations are looked at in
three groups (`Profiles` in `MCServices`), chosen so that each group holds all
operations that one hazard is made of; refreshing and logging in belong to every group.

### CircleRoster and CircleAdmission

A request is one step, because it is one serializable transaction under the advisory
locks of the members it names. `activateMembers`, `finalize` and `CancelPending`
are what several handlers have in common. The delivery of a notice
is not one step: it claims in one transaction, writes notice and card in two, closes in a
fourth, may fail between them and be taken over. `CircleRoster` is the promise on members:
they come one at a time, into a free seat of an open circle, never against a ban.

### CircleSeats

Members and the seats that should follow them. `run[r]` is a run of
`ensureCircleConversation` by a request, by the cron or by the dissolution: it reads the
difference in one statement and writes it in others under a lock that a leaving does not
take. Requests of a process share runs (`again`), failures go to an in-memory queue
(`retry`) and to a durable row (`durable`), the cron scans recently changed rows, and a
crash loses everything in memory.

### Friendship

A request is checked outside the transaction that writes it (`checkRequest`,
`sendRequest`), a block may commit in between. The outbox row of an accepted request
has a lease, a stage and an index; a worker writes one message after the other and its
progress after each, and may be overtaken while it writes. Messages are stored under
an id that is computed from thread and index. In place of an empty thread a greeting is
written if the word filter lets it through; it may hold the requester's nickname as it is
at the time, so each attempt may decide this differently.

### NameTitles and FancyNumber

Each transaction is one step (SERIALIZABLE and run again after a conflict; the
registration meets the others at the advisory locks its trigger takes). A request is
several: it notes the time, looks for an earlier order or a lease that has run out, and
then runs its transaction. The triggers on `User` and `AccountIdentifier` are part of
the steps that fire them. The initial states are those the migration that opened the
market leaves behind. `home` is a history variable: the name a user goes back to.
`NameTitles` is the promise: a name is held by one person, passes on only by being free
in between, and nobody answers to a name that is not his.

## 4. What the runs show

| Run | Instance | Properties |
| --- | --- | --- |
| `chat_requests` | direct, group or temporary; 2 users, 2 messages, 2 workers, eleven operations in a group and five and four in the others | `HeightsDense`, `WatermarkCoversCommitted`, `AckedIsStored`, `PinnedIsLive`, `ErasedStaysErased`, `SpeechGate`, `ReadStartsTimer`, `MarksMonotone` |
| `chat_devices` | group; 2 messages of which 1 legacy, 2 workers, 1 device, pages of 1 row, fairness | `SyncedPrefixExact`, `DueIsSwept`, `DeviceCatchesUp` |
| `call_races` | 3 users, single and group, 1 call, 2 workers, eight operations, failing requests to the media server | `OutcomeMatchesSeats`, `RoomsAreReturned`, `KeepsLifecycle` |
| `call_live` | 2 users, 2 calls, 2 workers, blocks, crashes, fairness | `NoDoubleBooking`, `AcceptHonoursBlock`, `RingingEnds` |
| `coin_gifts` | 2 users with 3 coins, gifts of 1 or 2, limit 2 a day, 2 days, 2 keys, 2 workers | `TypeOK`, `LedgerReplays`, `DailyLimitHolds`, `AnswersAreHonest` |
| `coin_commerce` | 3 users, 2 keys, 2 products, 2 orders, 2 payments, 2 referrals of one inviter with a cap of 1, 2 workers, all on one wallet | `CoinsMoveOnce`, `PaymentPaysOnce`, `MonthlyCapHolds`, `SeatsAreUsable` |
| `deliveries` | 1 gift with the request and 2 crons; 1 push token, 2 workers, 1 poller; 3 users of a circle and 3 runs; 1 friend request, 1 replayer; fairness | `OneCard`, `CardArrives`, `PushEnds`, `MembersAreSeated`, `AcceptedIsCopied` |
| `services` | push: 2 tokens, 2 workers, 1 poller. Sessions: 2 devices, 3 rows, 1 change of password, 2 events. Circle: 3 users, and either 1 invitation with 2 deliverers and 2 events, or 2 invitations with 1 event and no delivery. Friends: thread of 2, 2 replayers, 2 events. Names: 2 owners, 3 names, 2 keys, 2 months | `KeepsPromise`; `OneLoginWhenSingle`, `RemovedStaysOut`, `PasswordEndsSessions`; `CircleBooksAgree`, `KeepsRoster`, `ConsentIsHonoured`; `ReplayInOrder`; `MarketAgrees`, `KeepsTitles` |
| `call_hangup` | 2 users, 1 call | **violated**: `HangupEndsSingleCall` |
| `call_block` | 2 users, 1 call, 1 block | **violated**: `CreateHonoursBlock` |
| `push_stranded` | 2 tokens, 2 workers, 1 poller, no event | **violated**: `FailedIsRetried` |
| `circle_votes` | 3 users, 1 invitation, votes required 1 or 2, 1 event | **violated**: `FullSetIsDecided` |

### Bounds, and why they are enough

Every hazard listed needs two actors, so two workers; a third would only repeat what
one of the two can do again after finishing. Messages, calls, keys, rows and orders come
in the smallest number that lets two of them be confused. `MaxRevision` stops new
requests once three revisions exist; those that run finish. A page of one row makes
every page full, which is the hard case of the cursor. Balances, limits and caps are
chosen so that two concurrent requests pass one by one and exceed the limit together;
two attempts are enough for a first try, a retry and giving up. `HardLimit` is one
seat above `Base`, so that the second purchase does not fit. A circle of two or three
seats is full or has one place left. The bounded events of push, sessions, circles and
friendship are those an adversary of the property needs: one crash or lost lease, a
removal and a switch, a ban and an edit, a block and a take-over. The circle is looked at
twice: with the delivery of a notice and one row, and with two rows and no delivery. The
second is where the roads compete: a user who was rejected for good has no other row in
the first, so neither the ban nor a second open row of one user would be met there. `services` looks at
one overlapping request of the number market at a time, against steps of everybody
else (expiry, renaming, administration), and at announcements as the kind of push.
The theorems have none of these bounds, and some cases of the hazards rest on them
alone: the reactions in a sync answer (the devices of `chat_devices` meet none), gifts in
`CoinsMoveOnce`, answers to approvals and expansions in `AnswersAreHonest` (each run has
the operations of one of the two properties), and a second purchase of the same number
between a purchase and its transaction. The taking over of a copying job in the middle is
looked at in `services`, with two replayers; `deliveries` has one, which takes over from
itself after a death.

Larger instances than the configurations were explored while the models were written,
without a violation: two invitations together with two deliverers and two events (2.5 million states), a third event in
sessions, both kinds of push, two overlapping requests of the number market (3.7 million
states of an earlier form of the module).

Symmetry is used in `chat_requests`, `call_races`, `coin_gifts`, `coin_commerce` and
`services`, never in a run with liveness properties; in `services` the pairs of all
services are exchanged at once, since only one service moves. Deadlock is checked except
where bounds stop the system by design: `chat_requests` (revisions), `deliveries` and
`services` (events, and a service that has done its work), `push_stranded` and
`circle_votes`.

### Fairness

- *Chat*: the database serves the requests that wait for the lock, and a sweep that
  waits for it is not passed over for ever; the cron starts sweeps again and again and
  from some time on they are not cut off; devices ask again after each reconnect, and
  not every answer is lost.
- *Calls*: the clock goes on, a running request takes its next step unless the process
  dies, and the cron, every minute, does not die each time before its first statement.
- *Coins*: the grace period ends, and the cron comes round every minute and does not
  die for ever between finding a gift and claiming it. Sending the card may always
  fail; the attempts run out then, and `CardArrives` says so.
- *Push*: the minute cron of each replica claims what may be claimed, and a worker that
  has a job takes its next step. Deaths, failures and lost leases are bounded.
- *Seats*: a run that has begun goes on - strongly fair, since runs wait for each other's
  lock - and the cron fires every minute. Failures and crashes are bounded and not fair.
- *Friends*: a worker that copies takes its next step, and the cron claims what is due
  and takes over what has been locked too long.

Nothing is assumed of clients.

### Findings

- `call_block`: the recheck of a block under the advisory lock reads a snapshot taken
  before the lock was granted, so a call between two users is created although the
  block committed first. `friend.service.ts:1236-1240` says the two exclude each other.
- `call_hangup`: the caller hangs up a ringing call while the callee accepts; the hang-up
  takes the path for group calls and the answered call goes on with one party.
  `call.service.ts:838-840` says such a call ends for both.
- `push_stranded`: a receipt reports a passing error while a worker still holds the job.
  The row fails, the job is not opened again because it is not COMPLETED yet, and the
  worker then completes it: the row is retried by nobody.
  `notification-push.service.ts:800-802` says that cannot happen.
- `circle_votes`: an invitation that waits for consent is taken over by the code of a
  second member. The count restarts at one while the first inviter's vote stays, so a
  full set of approvals stays pending, against `circle-invitation.service.ts:1935-1937`.

Also met while modelling, without a run of their own:

- A gift repeated under its key while the first request runs may be refused for the
  daily limit or for want of coins although the gift was made (`coin.service.ts:235`);
  the comment at `coin.service.ts:199-200` promises success. Coins never move twice.
- The eviction of all seats behind `dissolveCircle` is tried once
  (`circle.service.ts:862`); the comment above it (859-861) counts on the next
  reconciliation, which does not look at circles that are gone.
- `sendRequest` looks for blocks before its transaction, and a block takes other locks:
  a request may be written just after the block, and `handleRequest` (friend.service.ts:553-576),
  which counts on blocks deleting requests, accepts it without looking for one.
- `reconcileCompletedOutboxes` counts rows in one statement and closes jobs in another; a
  job that another poller opened and a worker completed again in between is closed although
  a new row awaits its receipt. The comment at `notification-push.service.ts:897-899` says
  the number of such rows only falls.
- A job of a deleted announcement that has been opened again is claimed and closed again
  and again by the sweep (`notification-push-outbox.processor.ts:222-245`).
- A room may stay although no process dies: `livekit.service.ts:148-183` logs a deletion
  that failed or timed out, and nothing repeats it; a creation answered with an error
  other than a time-out is not followed by a deletion either (`livekit.service.ts:107-135`).
  What is left is the media server's own time-out for empty rooms. `RoomsAreReturned` says
  that these are the only rooms that stay.
- A request without messages may be copied without its greeting, and a replay that was
  overtaken may write it behind the answer, since the filter judges it at every attempt
  anew (`friend-chat-replay-outbox.processor.ts:152-161`).
- A creation of a call that replays an earlier one while that one is still being created
  ends in a serialization failure, not in the earlier call (`createRefused`); nothing in
  the repository says otherwise.

## 5. What is proved

The theorems hold for all values of the constants that satisfy the assumptions stated
in the modules: those say that model values are distinct, that the value which stands
for "nothing" is no row, claim, lease, key or answer, that bounds and limits are
naturals, amounts and prices positive, that nobody refers himself, that a friendship is
between two, and that the users of a chat and of a circle are finitely many.

Every invariant, action property and refinement a passing run checks is a theorem. In
each component the property follows from an inductive invariant, which says in addition
what requests in the middle of their work know; the sections below say what that is and
why it is needed.

**`ChatConversationProofs`, rows and devices** - `TypeCorrect`, `HeightsAreDense`,
`WatermarkIsSafe`, `DevicesAreExact`. The inductive invariant adds to the properties that
only the holder of the lock is writing, and what it holds back is legal against the rows
as they still are (*Prepared*), that committed rows lie at or below the watermark
(*Covered*), and what a sync request knows at each of its three reads (*Pages*). Every
handler produces a *legal* effect: rows it changes are renumbered above the watermark,
rows it inserts get the next height. Hence a row at or below an earlier watermark has not
changed since, and the three reads of a sync answer fit together, although they show
different moments.

**`ChatConversationProofs`, messages** - `AcksAreStored`, `BannerIsLive`, `ErasedForGood`,
`SpeechIsGated`, `ReadTimersRun`, `MarksMoveForward`, from `ConversationInvariant`. None of
these is about one handler: a pending transaction must still be right when it commits. It
is enough to say of an effect what the rows will be then (*Sound*) and to show it of each
handler on the rows it locked. Handlers that read something before the lock - a check for
timers, the height of a receipt - need what stays true of it while others commit
(*JobSound*): heights only grow, and timers that did not wait below a mark do not begin to.

**`CallSessionProofs`, the life of a call** - `CallTypeCorrect`, and `CallsKeepLifecycle`,
the refinement of `CallLifecycle`. The invariant says what a request at each statement
knows about its call (*JobsOK*: the one that won the end finds it ended and not recorded
yet), that no two requests close or create the same call (*Exclusive*), and that nothing
is recorded of a call that has not ended (*Unrecorded*). The conditional updates give the
winner, and only the winner records.

**`CallSessionProofs`, seats and rooms** - `NobodyDoubleBooked`, `OutcomesMatch`,
`AcceptsHonourBlock`, `RoomsComeBack`, from `SeatInvariant`. An acceptance takes its seat in
one statement and commits in another: the invariant says that nobody else holds that seat
meanwhile (*OneHolder*) and that it is still unanswered (*SeatJobs*). `RoomsComeBack`
assumes that no process dies (`"crash" \notin Faults`, as in `call_races`): a room without
a live call then has a request that is still going to delete it, or is one that a failed
request left at the media server. The invariant speaks of the rooms that are owed
(*Owed*: all but the strays). With crashes the theorem is false: nothing comes back for
the room of a request that died.

**`CoinLedgerProofs`, the ledger** - `CoinTypeCorrect` (which includes that no wallet is
overdrawn) and `CoinLedgerReplays`. Neither is inductive: a debit is decided long before
it is written. The invariant adds *Funded*: a transaction whose snapshot is not stale can
still pay. It is kept because every step that changes a wallet appends a row of that
user (*Extends*), which makes the snapshot of everybody who decided on that wallet
stale. `ReplaysOneMore` and `ReplaysTwoMore` say what appending rows does to a ledger
that replays.

**`CoinLedgerProofs`, what the coins were for** - `CoinsMovedOnce`, `PaymentsPayOnce`,
`CardsAreSingle`, `AnswersHold`, `CapIsKept`, `SeatsPaidAreUsable`, from `FactsInvariant`, and
`DailyLimitKept`. A key, an order, a payment and a referral are used up by the transaction
that moves the coins, so a fact has its rows (*AllEntered*) and a transaction that is not
stale decided on facts that still hold (*PurchaseFact*, *SettleFact*). That the cap and the
circle's seats may rest on the write conflict of one wallet is what these say. For the
limit of the day, a transaction that found room counted the rows since its own day
(*RoomOK*). If its snapshot is not stale these rows are the same at the commit, and the
rows of whatever day the gift is then booked on are among them. So a gift that begins
before midnight and is booked after it cannot pass the limit of either day.

**`CircleAdmissionProofs`** - `CircleInvariant`, `CircleBooksCorrect`, `RosterKept` (the
refinement of `CircleRoster`) and `ConsentKept`. The invariant has three parts: the
members and their number agree and fit (*SeatsOK*), the circle's settings are within
their ranges (*CircleOK*), and every row is well formed, counts no vote that is missing
and is decided when its count is full (*RowsOK*). That the count never exceeds the votes
is what survives the finding `circle_votes`; that it equals them is false. Two lemmas do
the work for all roads: `ActivateStep`, that the one helper which gives seats checks limit,
ban and dissolution itself, and `FinalizeStep`, that a row whose count is full leaves
PENDING in the same transaction. There is one lemma per handler above them.

**`SessionsProofs`** - `SingleLogin`, `RemovedStayOut`, `PasswordEnds`, from
`SessionInvariant`. The operations that remove devices are several transactions long, and
operations that take no lock run between them. None of these makes a row live, a device
trusted or a push token bound (*Reached*), so what the operation has achieved so far
(*OpKnows*) still holds at its next step. A login compares the password again under the
lock, so no session begins with one that has changed; *OldIsCut* says that what began
before the change was cut off or ended by it.

**`DeliveryProofs`, push outbox** - `PromiseKept`, the refinement of `PushDelivery`, from
`PushInvariant`. As long as no worker outlives its lease, at most one has the job in hand
(*Lone*), and the rows it is about to send to stay as it found them (*Ready*), since
everybody else only touches rows whose push is out. A deleted
announcement takes the lease away without stopping the worker, but then nobody goes on to
send (*Gone*).

**`DeliveryProofs`, friendship** - `ReplayedInOrder`, from `FriendInvariant`. A worker that
was overtaken has old knowledge of how far the copy is: that knowledge stays right because
nothing leaves the chat (*Knows*). The k-th clean message of a thread has one place in the
chat; either it is there, and the lookup finds it, or the chat ends just before its place.
A greeting has no fixed place, as the filter may stop it: of a request without messages
the theorem says that greeting and answer are there once each at most.

**`FancyNumberProofs`** - `NamesHeld` and `TitlesKept` (the refinement of `NameTitles`), from
`FancyInvariant`, and `MarketHolds`. All claims on a name are one person's (*OneClaim*), so
a transaction that moves names touches names of one user and free ones only. `MarketHolds`
adds the money: every order names a lease that an order opened or one from before the
market (*OrderBook*), so that the fresh key of a new order names a lease no month has been
paid for, and every other lease keeps its time.

**`Sums`** - the lemmas on sums over sets which the limit of the day and the market need.
`SumFunctionOnSet` is recursive over subsets and takes its elements by CHOOSE, so each fact
is an induction. The library's induction theorems have an operator as a parameter, which
the provers here cannot instantiate; the well-foundedness of the naturals, with a set in
place of the predicate, gives the same (`LeastNatural`, `SubsetInduction`). From there: the
sum is an integer, does not depend on the order (`SumAdd`), on what the function is
elsewhere (`SumSame`), is no larger over fewer naturals (`SumFewer`), and grows by what is
added (`SumGrows`).

Only model-checked are the liveness properties, since fairness and ENABLED are out of the
prover's reach: `DueIsSwept`, `DeviceCatchesUp`, `RingingEnds`, `CardArrives`, `PushEnds`,
`MembersAreSeated`, `AcceptedIsCopied`. The four findings are counterexamples of runs.

The type invariants of chat and calls are proved and therefore in no run.

## 6. Not modelled

The repository is a product with some fifty modules, most of whose lines are queries,
checks and shapes of single requests, DTOs, module wiring, back-office consoles and
administration. A TLA+ model of those would restate them: they keep rows of one owner,
in one transaction, and nothing that several steps or actors do together could break
them. That is why the models cover a small share of the lines and most of the places
where steps interleave, and why the parts in the last table of section 1 are left out.

Of the parts that are modelled, this is left out:

- *Chat*: roles are constant (ownership and promotion); creating, hiding, listing and
  searching conversations; clearing a direct chat for both sides by request and consent;
  read marks of circle groups; mentions and unread counters; the queue that deletes media
  objects; broadcasts, which sync makes up for; a cursor ahead of the server after a
  restore from backup (`chat.service.ts:3294`).
- *Calls*: changes of group membership while a call runs, the filter by call permission,
  the contents of tokens, broadcasts and pushes.
- *Coins*: whether the two are friends and active, the largest single gift, the creation
  of a wallet on first access, a change of the owner's membership, prices that changed
  since they were quoted, recharge orders for memberships and those without proof of
  payment, receipts and broadcasts, the turn of the month, the flag that keeps one process
  from sweeping referrals twice.
- *Push*: composing messages, batching, login and call alerts, publishing an announcement
  to all recipients.
- *Sessions*: addresses and their verification, counting of wrong codes, expiry of rows and
  challenges, the Redis markers that only shorten the database's answer, the
  administrators' audience.
- *Circles*: administrators besides the owner, restrictions on level, credit and number of
  circles, cards that ask verifiers, expiry of invitations, repairs of rows written by
  older versions, the owner's role and the notices of membership in the chat.
- *Friendship*: tags, remarks, permissions, reports, discovery rules and limits; a change
  of the word list while a thread is being copied (each process reloads it every minute).
- *Identifiers*: the days of a month (months are counted, so the shortening of a date to
  the last day of a shorter month is left out), memberships below the highest, recommendations, catalogue queries,
  deletion of accounts.
