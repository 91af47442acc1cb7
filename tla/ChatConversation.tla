-------------------------- MODULE ChatConversation --------------------------
(***************************************************************************)
(* One chat conversation: its message rows, its two counters (message      *)
(* heights and change revisions), its seats, and the requests that change  *)
(* them.  Every change of a message runs in a database transaction that    *)
(* first takes the row lock of the conversation (SELECT ... FOR UPDATE);   *)
(* what a handler read before the lock may be stale when it holds it.      *)
(* Devices follow the conversation through GET .../sync, whose answer is   *)
(* put together from three separate reads.                                 *)
(*                                                                         *)
(* A request is a job of a worker:                                         *)
(*   idle -> ready (checks made and values read without the lock)          *)
(*        -> writing (row lock held, rows written but not committed)       *)
(*        -> idle (committed, or rolled back)                              *)
(* Read receipts have two more phases, see markRead.                       *)
(***************************************************************************)
EXTENDS Naturals, FiniteSets, Sequences

CONSTANTS
    Users,        \* the accounts that have a seat in the conversation
    Managers,     \* the owner and the administrators of a group
    MsgIds,       \* ids of message rows (bounds the number of messages)
    Workers,      \* requests the server handles at the same time
    Clients,      \* devices that keep a copy of the conversation
    ClientUser,   \* [Clients -> Users]: the account of a device
    Kinds,        \* the conversation types looked at
    Ops,          \* the operations requests may ask for, by conversation type
    Ds,           \* delivery ids ("d") chosen by the senders
    Texts,        \* message bodies
    SelfDestruct, \* users whose privacy settings make their messages burn
    PageSize,     \* rows on one page of the sync endpoint
    Legacy,       \* messages older than the revision stream
    MaxRevision,  \* bound: no new request once this many revisions exist
    System,       \* sender of a system message (senderID null)
    Notice,       \* the body of a message the server writes
    Blank,        \* the empty body {} of a revoked or burned message
    None          \* SQL NULL

ASSUME UsersAssumption == IsFiniteSet(Users) /\ Managers \subseteq Users
ASSUME MsgIdsAssumption == IsFiniteSet(MsgIds) /\ None \notin MsgIds
ASSUME WorkersAssumption == None \notin Workers
ASSUME ClientsAssumption == ClientUser \in [Clients -> Users]
ASSUME KindsAssumption == Kinds \subseteq {"DIRECT", "GROUP", "TEMP"}
ASSUME BoundsAssumption == PageSize \in Nat \ {0} /\ MaxRevision \in Nat
                         /\ Legacy \in Nat
ASSUME BodiesAssumption ==
    /\ Texts \cap {Notice, Blank, None} = {}
    /\ Notice # Blank /\ System \notin Users

VARIABLES
    conv,      \* the committed ChatConversation row
    msgs,      \* the committed ChatMessage rows, by id
    seats,     \* ChatMember columns that are only written under the row lock
    marks,     \* ChatMember.lastReadHeight / lastDeliveredHeight
    blocked,   \* a Block row between the two accounts of a direct chat
    due,       \* ids of messages whose burnExpiresAt lies in the past
    lock,      \* the worker that holds the row lock, or None
    job,       \* the request each worker is handling
    acks,      \* acknowledgements of sends
    client     \* the devices

vars == <<conv, msgs, seats, marks, blocked, due, lock, job, acks, client>>
rows == <<conv, msgs, seats>>

-----------------------------------------------------------------------------
(* Data.                                                                    *)

Max2(a, b) == IF a >= b THEN a ELSE b
Min2(a, b) == IF a <= b THEN a ELSE b

Bodies == Texts \cup {Notice, Blank}

\* burn: "none" (no self-destruct), "armed" (a duration, no expiry yet) or
\* "running" (burnExpiresAt is set).
Row == [height: Nat \ {0}, revision: Nat, sender: Users \cup {System},
        type: {"text", "card", "system"}, d: Ds \cup {None}, requestHash: Texts \cup {None},
        content: Bodies, contentHistory: Seq(Bodies), revoked: BOOLEAN, deleted: BOOLEAN,
        burn: {"none", "armed", "running"}, reactions: SUBSET Users]

Conversation == [type: Kinds, nextHeight: Nat, nextRevision: Nat, cleared: Nat,
                 muteAll: BOOLEAN, pinned: MsgIds \cup {None}, preview: Bodies]

Seat == [open: BOOLEAN, silenced: BOOLEAN, burn: BOOLEAN, cleared: Nat]

\* What a message DTO shows of a row.
View(r) == [content |-> r.content, revoked |-> r.revoked,
            deleted |-> r.deleted, burn |-> r.burn,
            reactions |-> IF r.deleted THEN {} ELSE r.reactions]

\* The watermark of the revision stream.
conversationSyncRevision(c) == Max2(c.nextRevision, c.nextHeight)

Watermark == conversationSyncRevision(conv)

Kind == conv.type

\* Both levels of clearing count: the seat's and the conversation's.
ClearedFloor(u) == Max2(seats[u].cleared, conv.cleared)

Overlay(f, g) ==
    [m \in DOMAIN f \cup DOMAIN g |-> IF m \in DOMAIN f THEN f[m] ELSE g[m]]

-----------------------------------------------------------------------------
(* Guards shared by the handlers.                                           *)

assertGroupSpeechAllowed(u) ==
    Kind = "GROUP" => /\ ~seats[u].silenced
                      /\ conv.muteAll => u \in Managers

assertDirectNotBlocked == Kind = "DIRECT" => ~blocked

\* Evaluated before the lock, and again under it.
assertStillSendable(u) ==
    /\ seats[u].open
    /\ assertGroupSpeechAllowed(u)
    /\ assertDirectNotBlocked

isGroupModerator(u) == Kind = "GROUP" /\ u \in Managers /\ seats[u].open

Gone(m) == m \notin DOMAIN msgs \/ msgs[m].deleted

Editable(u, m) ==
    /\ ~Gone(m) /\ ~msgs[m].revoked /\ m \notin due
    /\ msgs[m].sender = u /\ msgs[m].type = "text"

\* A message that may hang on the banner of the conversation.
assertPinnable(m, floor) ==
    /\ ~Gone(m) /\ ~msgs[m].revoked
    /\ msgs[m].type # "system"
    /\ msgs[m].height > floor
    /\ msgs[m].burn = "none"

\* Fault: the newest message read is left out.
ReadBurnRows_OffByOne(u, h) ==
    {m \in DOMAIN msgs :
        /\ Kind = "DIRECT" /\ seats[u].open
        /\ msgs[m].height < h /\ msgs[m].height > ClearedFloor(u)
        /\ msgs[m].sender # u
        /\ msgs[m].burn = "armed"
        /\ ~msgs[m].deleted /\ ~msgs[m].revoked}

\* Messages whose timer starts when reader u reads up to height h.
ReadBurnRows(u, h) ==
    {m \in DOMAIN msgs :
        /\ Kind = "DIRECT" /\ seats[u].open
        /\ msgs[m].height <= h /\ msgs[m].height > ClearedFloor(u)
        /\ msgs[m].sender # u
        /\ msgs[m].burn = "armed"
        /\ ~msgs[m].deleted /\ ~msgs[m].revoked}

-----------------------------------------------------------------------------
(* Transactions.  A transaction body is the set of effects it can have when *)
(* it runs under the row lock on the committed state; the empty set means   *)
(* that a check under the lock refuses the request.  "rows" holds the rows  *)
(* written, "read" the heights lastReadHeight is raised to.                 *)

IsTx(tx) ==
    /\ DOMAIN tx = {"conv", "rows", "seats", "read", "acks"}
    /\ tx.conv \in Conversation
    /\ DOMAIN tx.rows \subseteq MsgIds /\ tx.rows \in [DOMAIN tx.rows -> Row]
    /\ tx.seats \in [Users -> Seat]
    /\ tx.read \in [Users -> Nat]
    /\ tx.acks \subseteq [user: Users, d: Ds, text: Texts, id: MsgIds]

NoEffect == [conv |-> conv, rows |-> [m \in {} |-> None], seats |-> seats,
             read |-> [u \in Users |-> 0], acks |-> {}]

\* The trigger on ChatMessage numbers the rows of one statement one by one,
\* each with the next free revision, in no particular order.
assign_revision(S) ==
    {f \in [S -> (Watermark + 1)..(Watermark + Cardinality(S))] :
        \A m1, m2 \in S : f[m1] = f[m2] => m1 = m2}

\* Fault: the numbers are used, the counter stays behind.
UpdateRows_KeepsCounter(new, tx) ==
    {[tx EXCEPT !.rows = [m \in DOMAIN new |->
                             [new[m] EXCEPT !.revision = f[m]]]]
        : f \in assign_revision(DOMAIN new)}

\* An update of the rows in DOMAIN new, with what else the transaction does.
UpdateRows(new, tx) ==
    IF DOMAIN new = {} THEN {tx}
    ELSE {[tx EXCEPT !.rows = [m \in DOMAIN new |->
                                  [new[m] EXCEPT !.revision = f[m]]],
                     !.conv.nextRevision = Watermark + Cardinality(DOMAIN new)]
             : f \in assign_revision(DOMAIN new)}

\* The next message: the trigger takes the revision while nextHeight still
\* has its old value, then the counter advances.
InsertRow(sender, type, d, hash, body, burn, tx) ==
    {[tx EXCEPT
        !.rows = [m \in {id} |->
            [height |-> conv.nextHeight + 1, revision |-> Watermark + 1,
             sender |-> sender, type |-> type, d |-> d, requestHash |-> hash,
             content |-> body, contentHistory |-> <<>>, revoked |-> FALSE,
             deleted |-> FALSE, burn |-> burn, reactions |-> {}]],
        !.conv.nextRevision = Watermark + 1,
        !.conv.nextHeight = conv.nextHeight + 1]
     : id \in MsgIds \ DOMAIN msgs}

insertSystemMessage(tx) ==
    InsertRow(System, "system", None, None, Notice, "none", tx)

\* Fault: the delivery id of another sender counts as one's own.
SentAs_AnySender(u, d) == {m \in DOMAIN msgs : msgs[m].d = d}

\* Rows with this delivery id: the key of the idempotency check.
SentAs(u, d) == {m \in DOMAIN msgs : msgs[m].sender = u /\ msgs[m].d = d}

Ack(c, m) == [user |-> c.user, d |-> c.d, text |-> c.text, id |-> m]

assertSameSendRequest(m, c) == msgs[m].requestHash \in {None, c.text}

\* The shorter of the seat's and the sender's own duration; a direct message
\* waits for its reader before the timer runs, temporary chats have none.
BurnOf(c) ==
    IF Kind = "TEMP" \/ ~(seats[c.user].burn \/ c.user \in SelfDestruct) THEN "none"
    ELSE IF Kind = "DIRECT" THEN "armed" ELSE "running"

sendMessage(c) ==
    IF ~assertStillSendable(c.user) THEN {}
    ELSE IF SentAs(c.user, c.d) # {}
    THEN {[NoEffect EXCEPT !.acks = {Ack(c, m)}]
             : m \in {k \in SentAs(c.user, c.d) : assertSameSendRequest(k, c)}}
    ELSE {[tx EXCEPT !.acks = {Ack(c, m) : m \in DOMAIN tx.rows}]
             : tx \in InsertRow(c.user, "text", c.d, c.text, c.text, BurnOf(c),
                                NoEffect)}

insertServerMessage(c) ==
    IF SentAs(c.user, c.d) # {} THEN {NoEffect}
    ELSE InsertRow(c.user, "card", c.d, None, Notice, "none", NoEffect)

\* Fault: the banner keeps showing the revoked message.
revokeMessage_KeepsBanner(c) ==
    IF msgs[c.id].revoked THEN {NoEffect}
    ELSE UpdateRows(
            [m \in {c.id} |-> [msgs[m] EXCEPT !.content = Blank, !.revoked = TRUE]],
            NoEffect)

\* The banner falls with the message it shows.
revokeMessage(c) ==
    IF msgs[c.id].revoked THEN {NoEffect}
    ELSE UpdateRows(
            [m \in {c.id} |-> [msgs[m] EXCEPT !.content = Blank, !.revoked = TRUE]],
            IF conv.pinned = c.id
            THEN [NoEffect EXCEPT !.conv.pinned = None, !.conv.preview = Blank]
            ELSE NoEffect)

\* Fault: the message is not looked at again under the lock.
editMessage_StaleCheck(c) ==
    IF ~assertStillSendable(c.user) THEN {}
    ELSE UpdateRows(
            [m \in {c.id} |-> [msgs[m] EXCEPT
                !.content = c.text,
                !.contentHistory = Append(msgs[m].contentHistory, msgs[m].content)]],
            NoEffect)

editMessage(c) ==
    IF ~assertStillSendable(c.user) \/ ~Editable(c.user, c.id) THEN {}
    ELSE UpdateRows(
            [m \in {c.id} |-> [msgs[m] EXCEPT
                !.content = c.text,
                !.contentHistory = Append(msgs[m].contentHistory, msgs[m].content)]],
            IF conv.pinned = c.id
            THEN [NoEffect EXCEPT !.conv.preview = c.text]
            ELSE NoEffect)

\* Fault: the right to speak is not checked again under the lock.
toggleReaction_StaleCheck(c) ==
    IF Gone(c.id) \/ msgs[c.id].revoked THEN {}
    ELSE UpdateRows(
            [m \in {c.id} |-> [msgs[m] EXCEPT
                !.reactions = IF c.add THEN @ \cup {c.user} ELSE @ \ {c.user}]],
            NoEffect)

\* Adding a reaction twice, or taking back one that is not there, changes
\* nothing; neither does a reaction to a revoked message.
toggleReaction(c) ==
    IF ~assertStillSendable(c.user) \/ Gone(c.id) THEN {}
    ELSE IF msgs[c.id].revoked \/ (c.user \in msgs[c.id].reactions) = c.add
    THEN {NoEffect}
    ELSE UpdateRows(
            [m \in {c.id} |-> [msgs[m] EXCEPT
                !.reactions = IF c.add THEN @ \cup {c.user} ELSE @ \ {c.user}]],
            NoEffect)

startReadBurnTimers(u, h, tx) ==
    UpdateRows([m \in ReadBurnRows(u, h) |-> [msgs[m] EXCEPT !.burn = "running"]], tx)

\* The branch of markRead that has timers to start.
markRead(c) ==
    IF ~seats[c.user].open THEN {}
    ELSE startReadBurnTimers(c.user, c.height,
            [NoEffect EXCEPT !.read[c.user] = c.height])

setBurnDuration(c) ==
    insertSystemMessage([NoEffect EXCEPT !.seats[c.user].burn = c.on])

RaiseCleared(S, h) ==
    [u \in Users |-> IF u \in S
                     THEN [seats[u] EXCEPT !.cleared = Max2(@, h)] ELSE seats[u]]

clearHistory(c) ==
    LET global == c.everyone /\ Kind = "GROUP"
        h == Min2(conv.nextHeight, c.height)
        targets == IF global THEN {u \in Users : seats[u].open} ELSE {c.user}
        tx == [NoEffect EXCEPT
                 !.seats = RaiseCleared(targets, h),
                 !.read = [u \in Users |-> IF u \in targets THEN h ELSE 0],
                 !.conv.cleared = IF global THEN Max2(@, h) ELSE @]
        changed == \E u \in targets : seats[u].cleared < h \/ marks[u].read < h
    IN  IF ~seats[c.user].open \/ (global /\ c.user \notin Managers) THEN {}
        ELSE IF h = 0 THEN {NoEffect}
        ELSE IF global THEN IF changed THEN insertSystemMessage(tx) ELSE {tx}
        ELSE startReadBurnTimers(c.user, h, tx)

\* messageId null takes the banner down.
setPinnedMessage(c) ==
    IF \/ Kind = "GROUP" /\ ~isGroupModerator(c.user)
       \/ ~assertDirectNotBlocked
       \/ c.id # None /\ ~assertPinnable(c.id, c.floor)
    THEN {}
    ELSE IF c.id = conv.pinned THEN {NoEffect}
    ELSE insertSystemMessage([NoEffect EXCEPT
            !.conv.pinned = c.id,
            !.conv.preview = IF c.id = None THEN Blank ELSE msgs[c.id].content])

\* Fault: the body becomes NULL instead of {}.
sweepConversation_NullBody(c) ==
    UpdateRows([m \in {k \in c.batch : ~msgs[k].deleted /\ k \in due} |->
                  [msgs[m] EXCEPT !.deleted = TRUE, !.content = None,
                                  !.contentHistory = <<>>]],
               NoEffect)

\* The sweeper: what of its batch is still there and still due is burned.
sweepConversation(c) ==
    UpdateRows([m \in {k \in c.batch : ~msgs[k].deleted /\ k \in due} |->
                  [msgs[m] EXCEPT !.deleted = TRUE, !.content = Blank,
                                  !.contentHistory = <<>>]],
               NoEffect)

\* Managers act on ordinary members that still sit.
CanManage(u, t) == isGroupModerator(u) /\ t \notin Managers /\ seats[t].open

silenceMember(c) ==
    IF ~CanManage(c.user, c.target) THEN {}
    ELSE IF ~c.on /\ ~seats[c.target].silenced THEN {NoEffect}
    ELSE insertSystemMessage([NoEffect EXCEPT !.seats[c.target].silenced = c.on])

removeStandaloneMember(c) ==
    IF ~CanManage(c.user, c.target) THEN {}
    ELSE insertSystemMessage([NoEffect EXCEPT !.seats[c.target].open = FALSE])

setMuteAll(c) ==
    IF ~isGroupModerator(c.user) THEN {}
    ELSE IF conv.muteAll = c.on THEN {NoEffect}
    ELSE insertSystemMessage([NoEffect EXCEPT !.conv.muteAll = c.on])

Effects(c) ==
    CASE c.op = "send"    -> sendMessage(c)
      [] c.op = "server"  -> insertServerMessage(c)
      [] c.op = "revoke"  -> revokeMessage(c)
      [] c.op = "edit"    -> editMessage(c)
      [] c.op = "react"   -> toggleReaction(c)
      [] c.op = "read"    -> markRead(c)
      [] c.op = "burn"    -> setBurnDuration(c)
      [] c.op = "clear"   -> clearHistory(c)
      [] c.op = "pin"     -> setPinnedMessage(c)
      [] c.op = "sweep"   -> sweepConversation(c)
      [] c.op = "silence" -> silenceMember(c)
      [] c.op = "remove"  -> removeStandaloneMember(c)
      [] c.op = "muteAll" -> setMuteAll(c)

-----------------------------------------------------------------------------
(* Requests: what a handler checks and reads before it takes the lock.      *)

Idle == [phase |-> "idle", call |-> None, tx |-> None]

CanStart(w, op) ==
    job[w].phase = "idle" /\ op \in Ops[Kind] /\ Watermark < MaxRevision

Ask(w, phase, c) ==
    /\ job' = [job EXCEPT ![w] = [phase |-> phase, call |-> c, tx |-> None]]
    /\ UNCHANGED <<rows, marks, blocked, due, lock, acks, client>>

RequestSend(w) ==
    /\ CanStart(w, "send")
    /\ \E u \in Users, d \in Ds, t \in Texts :
          /\ assertStillSendable(u)
          /\ Ask(w, "ready", [op |-> "send", user |-> u, d |-> d, text |-> t])

RequestServer(w) ==
    /\ CanStart(w, "server")
    /\ \E u \in Users, d \in Ds :
          Ask(w, "ready", [op |-> "server", user |-> u, d |-> d])

\* The author, or a moderator of a group; never a system message.
RequestRevoke(w) ==
    /\ CanStart(w, "revoke")
    /\ \E u \in Users, m \in DOMAIN msgs :
          /\ seats[u].open
          /\ ~msgs[m].deleted /\ ~msgs[m].revoked /\ msgs[m].type # "system"
          /\ msgs[m].sender = u \/ isGroupModerator(u)
          /\ Ask(w, "ready", [op |-> "revoke", user |-> u, id |-> m])

RequestEdit(w) ==
    /\ CanStart(w, "edit")
    /\ \E u \in Users, m \in DOMAIN msgs, t \in Texts :
          /\ assertStillSendable(u) /\ Editable(u, m)
          /\ Ask(w, "ready", [op |-> "edit", user |-> u, id |-> m, text |-> t])

RequestReact(w) ==
    /\ CanStart(w, "react")
    /\ \E u \in Users, m \in DOMAIN msgs, add \in BOOLEAN :
          /\ assertStillSendable(u)
          /\ Ask(w, "ready", [op |-> "react", user |-> u, id |-> m, add |-> add])

\* Receipts are clamped to the height the conversation had when its row was
\* read.  Outside direct chats a receipt needs no lock.
RequestRead(w) ==
    /\ CanStart(w, "read")
    /\ \E u \in Users, h \in 1..conv.nextHeight :
          /\ seats[u].open
          /\ Ask(w, IF Kind = "DIRECT" THEN "checking" ELSE "receipt",
                 [op |-> "read", user |-> u, height |-> h])

RequestDelivered(w) ==
    /\ CanStart(w, "delivered") /\ Kind # "GROUP"
    /\ \E u \in Users, h \in 1..conv.nextHeight :
          /\ seats[u].open
          /\ Ask(w, "receipt", [op |-> "delivered", user |-> u, height |-> h])

RequestBurn(w) ==
    /\ CanStart(w, "burn") /\ Kind # "TEMP"
    /\ \E u \in Users, on \in BOOLEAN :
          /\ seats[u].open /\ assertDirectNotBlocked
          /\ Ask(w, "ready", [op |-> "burn", user |-> u, on |-> on])

\* All checks of clearHistory are made under the lock.
RequestClear(w) ==
    /\ CanStart(w, "clear")
    /\ \E u \in Users, everyone \in BOOLEAN, h \in 1..Cardinality(MsgIds) :
          Ask(w, "ready", [op |-> "clear", user |-> u, everyone |-> everyone,
                           height |-> h])

\* The clear level that hides old messages from the banner is the one read
\* before the lock.
RequestPin(w) ==
    /\ CanStart(w, "pin") /\ Kind # "TEMP"
    /\ \E u \in Users, m \in DOMAIN msgs \cup {None} :
          /\ seats[u].open
          /\ m # None => assertPinnable(m, ClearedFloor(u))
          /\ Ask(w, "ready", [op |-> "pin", user |-> u, id |-> m,
                              floor |-> ClearedFloor(u)])

\* Fault: revoked messages are not looked for.
RequestSweep_SkipsRevoked(w) ==
    LET batch == {m \in DOMAIN msgs :
                    ~msgs[m].deleted /\ ~msgs[m].revoked /\ m \in due}
    IN  /\ job[w].phase = "idle" /\ "sweep" \in Ops[Kind] /\ batch # {}
        /\ Ask(w, "ready", [op |-> "sweep", batch |-> batch])

\* The sweeper is not counted against the bound on requests.
RequestSweep(w) ==
    LET batch == {m \in DOMAIN msgs : ~msgs[m].deleted /\ m \in due}
    IN  /\ job[w].phase = "idle" /\ "sweep" \in Ops[Kind] /\ batch # {}
        /\ Ask(w, "ready", [op |-> "sweep", batch |-> batch])

\* Governance of a standalone group: role checked, then checked again.
RequestGovern(w) ==
    \E u \in Users :
        /\ isGroupModerator(u)
        /\ \/ /\ CanStart(w, "silence")
              /\ \E t \in Users \ {u}, on \in BOOLEAN :
                    Ask(w, "ready", [op |-> "silence", user |-> u, target |-> t,
                                     on |-> on])
           \/ /\ CanStart(w, "remove")
              /\ \E t \in Users \ {u} :
                    Ask(w, "ready", [op |-> "remove", user |-> u, target |-> t])
           \/ /\ CanStart(w, "muteAll")
              /\ \E on \in BOOLEAN :
                    Ask(w, "ready", [op |-> "muteAll", user |-> u, on |-> on])

Request(w) ==
    \/ RequestSend(w) \/ RequestServer(w) \/ RequestRevoke(w) \/ RequestEdit(w)
    \/ RequestReact(w) \/ RequestRead(w) \/ RequestDelivered(w)
    \/ RequestBurn(w) \/ RequestClear(w) \/ RequestPin(w) \/ RequestSweep(w)
    \/ RequestGovern(w)

-----------------------------------------------------------------------------
(* The course of a request.                                                 *)

\* markRead: only a receipt that has timers to start takes the lock.
CheckReadTimers(w) ==
    /\ job[w].phase = "checking"
    /\ job' = [job EXCEPT ![w].phase =
                  IF ReadBurnRows(job[w].call.user, job[w].call.height) # {}
                  THEN "ready" ELSE "receipt"]
    /\ UNCHANGED <<rows, marks, blocked, due, lock, acks, client>>

\* Fault: the mark is set, whatever it was before.
WriteReceipt_Overwrites(w) ==
    LET c == job[w].call
    IN  /\ job[w].phase = "receipt"
        /\ marks' = IF c.op = "read"
                    THEN [marks EXCEPT ![c.user].read = c.height]
                    ELSE [marks EXCEPT ![c.user].delivered = c.height]
        /\ job' = [job EXCEPT ![w] = Idle]
        /\ UNCHANGED <<rows, blocked, due, lock, acks, client>>

\* One conditional UPDATE without the lock; a mark only moves forward.
WriteReceipt(w) ==
    LET c == job[w].call
    IN  /\ job[w].phase = "receipt"
        /\ marks' =
             IF c.op = "read" /\ (Kind = "DIRECT" => seats[c.user].open)
             THEN [marks EXCEPT ![c.user].read = Max2(@, c.height)]
             ELSE IF c.op = "delivered"
             THEN [marks EXCEPT ![c.user].delivered = Max2(@, c.height)]
             ELSE marks
        /\ job' = [job EXCEPT ![w] = Idle]
        /\ UNCHANGED <<rows, blocked, due, lock, acks, client>>

\* Fault: the row is read without FOR UPDATE.
LockRow_PlainSelect(w) ==
    /\ job[w].phase = "ready"
    /\ \E tx \in Effects(job[w].call) :
          job' = [job EXCEPT ![w].phase = "writing", ![w].tx = tx]
    /\ lock' = w
    /\ UNCHANGED <<rows, marks, blocked, due, acks, client>>

\* SELECT ... FOR UPDATE, the checks under the lock and the writes, which
\* nobody else sees yet.
LockRow(w) ==
    /\ job[w].phase = "ready" /\ lock = None
    /\ \E tx \in Effects(job[w].call) :
          job' = [job EXCEPT ![w].phase = "writing", ![w].tx = tx]
    /\ lock' = w
    /\ UNCHANGED <<rows, marks, blocked, due, acks, client>>

\* A check under the lock fails: the transaction ends without a trace.
Refuse(w) ==
    /\ job[w].phase = "ready" /\ lock = None
    /\ Effects(job[w].call) = {}
    /\ job' = [job EXCEPT ![w] = Idle]
    /\ UNCHANGED <<rows, marks, blocked, due, lock, acks, client>>

Commit(w) ==
    LET tx == job[w].tx
    IN  /\ job[w].phase = "writing"
        /\ conv' = tx.conv
        /\ msgs' = Overlay(tx.rows, msgs)
        /\ seats' = tx.seats
        /\ marks' = [u \in Users |->
                        [marks[u] EXCEPT !.read = Max2(@, tx.read[u])]]
        /\ acks' = acks \cup tx.acks
        /\ lock' = None
        /\ job' = [job EXCEPT ![w] = Idle]
        /\ UNCHANGED <<blocked, due, client>>

\* The process dies, the lease of the sweeper lapses or the database drops
\* the connection: what was not committed is gone.
Fail(w) ==
    /\ job[w].phase # "idle"
    /\ job' = [job EXCEPT ![w] = Idle]
    /\ lock' = IF lock = w THEN None ELSE lock
    /\ UNCHANGED <<rows, marks, blocked, due, acks, client>>

\* The clock passes burnExpiresAt.
Expire(m) ==
    /\ m \in DOMAIN msgs \ due /\ msgs[m].burn = "running"
    /\ due' = due \cup {m}
    /\ UNCHANGED <<rows, marks, blocked, lock, job, acks, client>>

\* blockUser and unblockUser do not take the lock of the conversation.
ToggleBlock ==
    /\ Kind = "DIRECT" /\ "block" \in Ops[Kind]
    /\ blocked' = ~blocked
    /\ UNCHANGED <<rows, marks, due, lock, job, acks, client>>

-----------------------------------------------------------------------------
(* GET /chat/conversations/:id/sync, and the device that calls it.          *)

\* First read: the seat with its conversation row.
SyncBegin(k) ==
    LET u == ClientUser[k]
    IN  /\ client[k].phase = "idle" /\ seats[u].open
        /\ client' = [client EXCEPT ![k].phase = "begun",
                                     ![k].through = Watermark,
                                     ![k].floor = ClearedFloor(u)]
        /\ UNCHANGED <<rows, marks, blocked, due, lock, job, acks>>

\* Fault: a full page moves the cursor to the watermark.
SyncPage_SkipsRest(k) ==
    LET s == client[k]
        found == {m \in DOMAIN msgs : /\ msgs[m].revision > s.cursor
                                      /\ msgs[m].revision <= s.through}
        page == {m \in found :
                   Cardinality({j \in found : msgs[j].revision < msgs[m].revision})
                      < PageSize}
        shown == {m \in page : /\ msgs[m].height > s.floor
                               /\ msgs[m].deleted \/ m \notin due}
    IN  /\ s.phase = "begun"
        /\ client' = [client EXCEPT ![k].phase = "paged", ![k].next = s.through,
                                    ![k].page = [m \in shown |-> View(msgs[m])]]
        /\ UNCHANGED <<rows, marks, blocked, due, lock, job, acks>>

\* Fault: the row at the cursor is sent again on every page.
SyncPage_Inclusive(k) ==
    LET s == client[k]
        found == {m \in DOMAIN msgs : /\ msgs[m].revision >= s.cursor
                                      /\ msgs[m].revision <= s.through}
        page == {m \in found :
                   Cardinality({j \in found : msgs[j].revision < msgs[m].revision})
                      < PageSize}
    IN  /\ s.phase = "begun"
        /\ \E next \in IF page = found THEN {s.through}
                        ELSE {msgs[m].revision : m \in page} :
              client' = [client EXCEPT ![k].phase = "paged", ![k].next = next,
                           ![k].page = [m \in page |-> View(msgs[m])]]
        /\ UNCHANGED <<rows, marks, blocked, due, lock, job, acks>>

\* Second read: the rows changed after the cursor, up to the watermark read
\* first.  A full page moves the cursor to its last row only.  Tombstones of
\* burned messages are sent, expired ones that are not swept yet are not.
SyncPage(k) ==
    LET s == client[k]
        found == {m \in DOMAIN msgs : /\ msgs[m].revision > s.cursor
                                      /\ msgs[m].revision <= s.through}
        page == {m \in found :
                   Cardinality({j \in found : msgs[j].revision < msgs[m].revision})
                      < PageSize}
        shown == {m \in page : /\ msgs[m].height > s.floor
                               /\ msgs[m].deleted \/ m \notin due}
    IN  /\ s.phase = "begun"
        /\ \E next \in IF page = found THEN {s.through}
                        ELSE {msgs[m].revision : m \in page} :
              /\ \A m \in page : msgs[m].revision <= next
              /\ client' = [client EXCEPT ![k].phase = "paged",
                              ![k].next = next,
                              ![k].page = [m \in shown |-> View(msgs[m])]]
        /\ UNCHANGED <<rows, marks, blocked, due, lock, job, acks>>

\* Third read: the reactions of the live messages on the page.
SyncReactions(k) ==
    LET page == client[k].page
    IN  /\ client[k].phase = "paged"
        /\ client' = [client EXCEPT ![k].phase = "answered",
               ![k].page = [m \in DOMAIN page |->
                   IF page[m].deleted THEN page[m]
                   ELSE [page[m] EXCEPT !.reactions = msgs[m].reactions]]]
        /\ UNCHANGED <<rows, marks, blocked, due, lock, job, acks>>

Between(s) == [s EXCEPT !.phase = "idle", !.through = 0, !.floor = 0,
                        !.next = 0, !.page = [m \in {} |-> None]]

\* The device applies the answer: rows replace its copies, messages below
\* the clear level go, the cursor advances.
SyncDeliver(k) ==
    LET s == client[k]
        kept == {m \in DOMAIN s.replica : msgs[m].height > s.floor}
    IN  /\ s.phase = "answered"
        /\ client' = [client EXCEPT ![k] =
              [Between(s) EXCEPT
                 !.cursor = s.next,
                 !.replica = Overlay(s.page, [m \in kept |-> s.replica[m]])]]
        /\ UNCHANGED <<rows, marks, blocked, due, lock, job, acks>>

\* The request or its answer is lost; the device asks again later.
SyncLost(k) ==
    /\ client[k].phase # "idle"
    /\ client' = [client EXCEPT ![k] = Between(client[k])]
    /\ UNCHANGED <<rows, marks, blocked, due, lock, job, acks>>

-----------------------------------------------------------------------------
\* The conversation may be older than the revision stream: its messages were
\* backfilled with revision = height and its nextRevision was left at 0.
backfill_revision ==
    \E ids \in SUBSET MsgIds, u \in Users, t \in Texts :
    \E h \in [ids -> 1..Legacy] :
        /\ {h[m] : m \in ids} = 1..Legacy
        /\ \A m1, m2 \in ids : h[m1] = h[m2] => m1 = m2
        /\ msgs = [m \in ids |->
              [height |-> h[m], revision |-> h[m], sender |-> u, type |-> "text",
               d |-> None, requestHash |-> None, content |-> t,
               contentHistory |-> <<>>, revoked |-> FALSE, deleted |-> FALSE,
               burn |-> "none", reactions |-> {}]]

Init ==
    /\ conv \in [type: Kinds, nextHeight: {Legacy}, nextRevision: {0},
                 cleared: {0}, muteAll: {FALSE}, pinned: {None}, preview: {Blank}]
    /\ backfill_revision
    /\ seats = [u \in Users |-> [open |-> TRUE, silenced |-> FALSE,
                                 burn |-> FALSE, cleared |-> 0]]
    /\ marks = [u \in Users |-> [read |-> 0, delivered |-> 0]]
    /\ blocked = FALSE
    /\ due = {}
    /\ lock = None
    /\ job = [w \in Workers |-> Idle]
    /\ acks = {}
    /\ client = [k \in Clients |->
                    [phase |-> "idle", cursor |-> 0, through |-> 0, floor |-> 0,
                     next |-> 0, page |-> [m \in {} |-> None],
                     replica |-> [m \in {} |-> None]]]

Next ==
    \/ \E w \in Workers :
          \/ Request(w) \/ CheckReadTimers(w) \/ WriteReceipt(w)
          \/ LockRow(w) \/ Refuse(w) \/ Commit(w) \/ Fail(w)
    \/ \E m \in MsgIds : Expire(m)
    \/ ToggleBlock
    \/ \E k \in Clients : \/ SyncBegin(k) \/ SyncPage(k) \/ SyncReactions(k)
                          \/ SyncDeliver(k) \/ SyncLost(k)

Spec == Init /\ [][Next]_vars

-----------------------------------------------------------------------------
(* Properties.                                                              *)

ViewType == [content: Bodies, revoked: BOOLEAN, deleted: BOOLEAN,
             burn: {"none", "armed", "running"}, reactions: SUBSET Users]

\* The shape of the state, pending transactions and devices included.
TypeOK ==
    /\ conv \in Conversation
    /\ DOMAIN msgs \subseteq MsgIds /\ msgs \in [DOMAIN msgs -> Row]
    /\ seats \in [Users -> Seat]
    /\ marks \in [Users -> [read: Nat, delivered: Nat]]
    /\ blocked \in BOOLEAN
    /\ due \subseteq DOMAIN msgs
    /\ lock \in Workers \cup {None}
    /\ job = [w \in Workers |-> job[w]]
    /\ \A w \in Workers :
          /\ DOMAIN job[w] = {"phase", "call", "tx"}
          /\ job[w].phase \in {"idle", "checking", "receipt", "ready", "writing"}
          /\ job[w].phase = "writing" => IsTx(job[w].tx)
    /\ client = [k \in Clients |-> client[k]]
    /\ \A k \in Clients :
          /\ DOMAIN client[k] = {"phase", "cursor", "through", "floor", "next",
                                 "page", "replica"}
          /\ client[k].phase \in {"idle", "begun", "paged", "answered"}
          /\ {client[k].cursor, client[k].through, client[k].floor,
              client[k].next} \subseteq Nat
          /\ DOMAIN client[k].replica \subseteq DOMAIN msgs
          /\ client[k].replica \in [DOMAIN client[k].replica -> ViewType]
          /\ DOMAIN client[k].page \subseteq DOMAIN msgs
          /\ client[k].page \in [DOMAIN client[k].page -> ViewType]

\* Message heights are allocated under the row lock without gaps or twins,
\* although requests roll back at any point: the committed rows carry
\* exactly the heights 1..nextHeight.
HeightsDense ==
    /\ \A m1, m2 \in DOMAIN msgs : msgs[m1].height = msgs[m2].height => m1 = m2
    /\ {msgs[m].height : m \in DOMAIN msgs} = 1..conv.nextHeight

\* A reader who sees the watermark N sees every change numbered up to N: no
\* two rows share a revision, none lies above the committed watermark, and
\* what a transaction still holds back is numbered above it.
WatermarkCoversCommitted ==
    /\ \A m1, m2 \in DOMAIN msgs : msgs[m1].revision = msgs[m2].revision => m1 = m2
    /\ \A m \in DOMAIN msgs : msgs[m].revision <= Watermark
    /\ \A w \in Workers : job[w].phase = "writing" =>
          \A m \in DOMAIN job[w].tx.rows : job[w].tx.rows[m].revision > Watermark

\* A device that has synced to its cursor shows every message whose last
\* change is at or below the cursor exactly as the database has it (unless
\* it is hidden by clearing, or expired and waiting for the sweeper), and its
\* cursor is never ahead of the server, which would throw its cache away.
SyncedPrefixExact ==
    \A k \in Clients :
        /\ client[k].cursor <= Watermark
        /\ \A m \in DOMAIN msgs :
              /\ msgs[m].revision <= client[k].cursor
              /\ msgs[m].height > ClearedFloor(ClientUser[k])
              /\ msgs[m].deleted \/ m \notin due
              => /\ m \in DOMAIN client[k].replica
                 /\ client[k].replica[m] = View(msgs[m])

\* An acknowledged send is in the database under the id it was acknowledged
\* with, with the body the sender asked for, and a delivery id never names
\* two messages, whatever retries and crashes happened.
AckedIsStored ==
    /\ \A a \in acks :
          /\ a.id \in DOMAIN msgs
          /\ msgs[a.id].sender = a.user /\ msgs[a.id].d = a.d
          /\ msgs[a.id].requestHash \in {None, a.text}
    /\ \A m1, m2 \in DOMAIN msgs :
          /\ msgs[m1].d # None /\ msgs[m1].d = msgs[m2].d
          /\ msgs[m1].sender = msgs[m2].sender
          => m1 = m2

\* The shortcut of markRead that skips the lock when no timer is waiting is
\* safe: whatever a reader has marked read has its timer running.
ReadStartsTimer ==
    \A u \in Users, m \in DOMAIN msgs :
        /\ msgs[m].sender # u /\ msgs[m].height <= marks[u].read
        /\ ~msgs[m].deleted /\ ~msgs[m].revoked
        => msgs[m].burn # "armed"

\* The banner shows a message that is neither revoked nor burned, with the
\* text the message has now, although pin, edit, revoke and sweep overlap.
PinnedIsLive ==
    conv.pinned # None =>
        /\ conv.pinned \in DOMAIN msgs
        /\ ~msgs[conv.pinned].revoked /\ ~msgs[conv.pinned].deleted
        /\ conv.preview = msgs[conv.pinned].content

\* A message that was revoked or burned has no text left, and a burned one no
\* earlier versions either, whichever of edit, revoke and sweep came last.
ErasedStaysErased ==
    \A m \in DOMAIN msgs :
        /\ msgs[m].revoked \/ msgs[m].deleted => msgs[m].content = Blank
        /\ msgs[m].deleted => msgs[m].contentHistory = <<>>

\* What a step may do to marks, clear levels and counters.
MarksMove ==
    /\ \A u \in Users : /\ marks'[u].read >= marks[u].read
                        /\ marks'[u].delivered >= marks[u].delivered
                        /\ seats'[u].cleared >= seats[u].cleared
                        /\ marks'[u].read <= conv'.nextHeight
                        /\ marks'[u].delivered <= conv'.nextHeight
                        /\ seats'[u].cleared <= conv'.nextHeight
    /\ conv'.cleared >= conv.cleared /\ conv'.type = conv.type
    /\ conv'.nextHeight >= conv.nextHeight
    /\ conv'.nextRevision >= conv.nextRevision

\* Read and delivery marks, clear levels and counters only move forward, and
\* no mark or clear level passes the newest message.
MarksMonotone == [][MarksMove]_<<conv, seats, marks>>

\* Silencing, muting and removal take effect at once: no message, edit or
\* reaction of a member who may no longer speak is committed afterwards.
SpeechGate ==
    \A w \in Workers :
        /\ job[w].phase = "writing"
        /\ job[w].call.op \in {"send", "edit", "react"}
        => /\ seats[job[w].call.user].open
           /\ assertGroupSpeechAllowed(job[w].call.user)

-----------------------------------------------------------------------------
(* Liveness.  The database serves the requests that wait for the row lock    *)
(* and a sweep that waits for it is not passed over forever; a cron job      *)
(* starts the sweeper again and again and from some time on its transactions *)
(* are not cut off; devices ask again after every reconnect and, although    *)
(* answers get lost, not every one does.                                     *)
Sweeping(w) == job[w].phase # "idle" /\ job[w].call.op = "sweep"

Fairness ==
    /\ WF_vars(\E w \in Workers :
                  \/ CheckReadTimers(w) \/ WriteReceipt(w)
                  \/ LockRow(w) \/ Refuse(w) \/ Commit(w))
    /\ SF_vars(\E w \in Workers : RequestSweep(w))
    /\ SF_vars(\E w \in Workers : Sweeping(w) /\ (LockRow(w) \/ Commit(w)))
    /\ <>[][\A w \in Workers : ~(Sweeping(w) /\ Fail(w))]_vars
    /\ \A k \in Clients :
          /\ WF_vars(SyncBegin(k)) /\ SF_vars(SyncPage(k))
          /\ SF_vars(SyncReactions(k)) /\ SF_vars(SyncDeliver(k))

FairSpec == Spec /\ Fairness

\* Expired messages are burned in the end, although the sweeper fails for a
\* while and other requests compete for the row lock: again and again none
\* is left.
DueIsSwept == []<>(\A m \in due : msgs[m].deleted)

\* A seated member's device catches up with the conversation, page by page,
\* although answers get lost.
DeviceCatchesUp ==
    \A k \in Clients :
        []<>(client[k].cursor = Watermark \/ ~seats[ClientUser[k]].open)

=============================================================================
