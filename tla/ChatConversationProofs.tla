----------------------- MODULE ChatConversationProofs -----------------------
(* Proofs about ChatConversation, for any number of users, messages,        *)
(* requests and devices: the type invariant, the density of the message     *)
(* heights, the meaning of the watermark, and that a device which has       *)
(* synced to its cursor has the messages as the database has them.          *)
(*                                                                          *)
(* The argument rests on the row lock.  At most one transaction is being    *)
(* written, what it will commit was computed from the committed state as it *)
(* still is (Prepared), and such an effect is Legal: it numbers its rows    *)
(* above the watermark and keeps heights dense.  So a row whose revision is *)
(* at or below a watermark read earlier has not changed since, which makes  *)
(* the three reads of the sync endpoint fit together (Pages).               *)
(*                                                                          *)
(* The second part is about the messages and the marks on them:             *)
(* acknowledged sends are stored, erased text stays erased, the banner      *)
(* shows a live message, who may not speak commits nothing, marks move      *)
(* forward, and no timer is left waiting below a read mark.  It is enough   *)
(* to say of an effect what the rows will be once it is committed (Sound),  *)
(* and to show it of each handler on the rows it locked; the commit then    *)
(* only makes it true.  Handlers that read something before the lock - a    *)
(* check for timers, the height of a receipt - are covered by what stays    *)
(* true of it while others commit (JobSound).                               *)
EXTENDS ChatConversation, FiniteSetTheorems, TLAPS

-----------------------------------------------------------------------------
(* The inductive invariant.                                                 *)

\* What a handler knows of its request once it has read the message.
CallOK(c) ==
    \/ c.op = "send" /\ c.user \in Users /\ c.d \in Ds /\ c.text \in Texts
    \/ c.op = "server" /\ c.user \in Users /\ c.d \in Ds
    \/ c.op = "revoke" /\ c.user \in Users /\ c.id \in DOMAIN msgs
    \/ c.op = "edit" /\ c.user \in Users /\ c.id \in DOMAIN msgs /\ c.text \in Texts
    \/ c.op = "react" /\ c.user \in Users /\ c.id \in DOMAIN msgs /\ c.add \in BOOLEAN
    \/ c.op \in {"read", "delivered"} /\ c.user \in Users /\ c.height \in Nat
    \/ c.op = "burn" /\ c.user \in Users /\ c.on \in BOOLEAN
    \/ c.op = "clear" /\ c.user \in Users /\ c.height \in Nat
    \/ c.op = "pin" /\ c.user \in Users /\ c.id \in DOMAIN msgs \cup {None}
    \/ c.op = "sweep" /\ c.batch \subseteq DOMAIN msgs
    \/ c.op = "silence" /\ c.user \in Users /\ c.target \in Users /\ c.on \in BOOLEAN
    \/ c.op = "remove" /\ c.user \in Users /\ c.target \in Users
    \/ c.op = "muteAll" /\ c.user \in Users /\ c.on \in BOOLEAN

\* No effect takes a counter or a clear level back.
Forward(tx) ==
    /\ tx.conv.type = conv.type
    /\ tx.conv.nextHeight >= conv.nextHeight
    /\ tx.conv.nextRevision >= conv.nextRevision
    /\ tx.conv.cleared >= conv.cleared
    /\ \A u \in Users : tx.seats[u].cleared >= seats[u].cleared

\* The rows written are numbered above the watermark, each once.
Numbered(tx) ==
    /\ \A m \in DOMAIN tx.rows :
          /\ tx.rows[m].revision > Watermark
          /\ tx.rows[m].revision <= conversationSyncRevision(tx.conv)
    /\ \A m1, m2 \in DOMAIN tx.rows :
          tx.rows[m1].revision = tx.rows[m2].revision => m1 = m2

\* Rows are changed in place, or one message takes the next height.
Stacked(tx) ==
    \/ /\ tx.conv.nextHeight = conv.nextHeight
       /\ DOMAIN tx.rows \subseteq DOMAIN msgs
       /\ \A m \in DOMAIN tx.rows : tx.rows[m].height = msgs[m].height
    \/ /\ tx.conv.nextHeight = conv.nextHeight + 1
       /\ \E id \in MsgIds \ DOMAIN msgs :
             DOMAIN tx.rows = {id} /\ tx.rows[id].height = conv.nextHeight + 1

Legal(tx) == IsTx(tx) /\ Forward(tx) /\ Numbered(tx) /\ Stacked(tx)

\* Requests are well formed; the one that writes holds the lock, and what it
\* writes is legal on the state that is committed now.
Prepared ==
    \A w \in Workers :
        /\ job[w].phase # "idle" => CallOK(job[w].call)
        /\ job[w].phase = "receipt" => job[w].call.op \in {"read", "delivered"}
        /\ job[w].phase \in {"ready", "writing"} => job[w].call.op # "delivered"
        /\ job[w].phase = "checking" => job[w].call.op = "read"
        /\ job[w].phase = "writing" => lock = w /\ Legal(job[w].tx)

\* Neither cleared away for the user of device k, nor expired and unswept.
Visible(k, m) ==
    /\ msgs[m].height > ClearedFloor(ClientUser[k])
    /\ msgs[m].deleted \/ m \notin due

\* What the sync request of a device has read so far, compared with the
\* database as it is now.  Between the second and the third read the reactions
\* may differ.
PageOK(k, s) ==
    /\ s.phase # "idle" => /\ s.cursor <= s.through
                           /\ s.through <= Watermark
                           /\ s.floor <= ClearedFloor(ClientUser[k])
    /\ s.phase \in {"paged", "answered"} =>
          /\ s.cursor <= s.next /\ s.next <= s.through
          /\ \A m \in DOMAIN s.page :
                /\ msgs[m].revision > s.cursor
                /\ s.page[m].deleted => s.page[m].reactions = {}
          /\ \A m \in DOMAIN msgs :
                /\ msgs[m].revision > s.cursor
                /\ msgs[m].revision <= s.next
                /\ Visible(k, m)
                => /\ m \in DOMAIN s.page
                   /\ s.page[m].content = msgs[m].content
                   /\ s.page[m].revoked = msgs[m].revoked
                   /\ s.page[m].deleted = msgs[m].deleted
                   /\ s.page[m].burn = msgs[m].burn
                   /\ s.phase = "answered" =>
                         s.page[m].reactions = View(msgs[m]).reactions

Pages == \A k \in Clients : PageOK(k, client[k])

\* The watermark clause of the committed rows alone.
Covered ==
    /\ \A m1, m2 \in DOMAIN msgs : msgs[m1].revision = msgs[m2].revision => m1 = m2
    /\ \A m \in DOMAIN msgs : msgs[m].revision <= Watermark

IInv == TypeOK /\ Prepared /\ Covered /\ HeightsDense /\ Pages /\ SyncedPrefixExact

-----------------------------------------------------------------------------
(* Effects are legal.                                                       *)

\* A transaction that has written no message row yet.
Base(tx) ==
    /\ IsTx(tx) /\ Forward(tx) /\ DOMAIN tx.rows = {}
    /\ tx.conv.nextHeight = conv.nextHeight
    /\ tx.conv.nextRevision = conv.nextRevision

\* The watermark is a number, and so is the number of messages.
LEMMA Numbers ==
    ASSUME TypeOK
    PROVE  /\ Watermark \in Nat /\ conv.nextHeight \in Nat /\ conv.nextRevision \in Nat
           /\ Watermark >= conv.nextHeight /\ Watermark >= conv.nextRevision
           /\ \A S \in SUBSET MsgIds : IsFiniteSet(S) /\ Cardinality(S) \in Nat
  <1>1. /\ Watermark \in Nat /\ conv.nextHeight \in Nat /\ conv.nextRevision \in Nat
        /\ Watermark >= conv.nextHeight /\ Watermark >= conv.nextRevision
    BY DEF TypeOK, Conversation, Watermark, conversationSyncRevision, Max2
  <1>2. \A S \in SUBSET MsgIds : IsFiniteSet(S) /\ Cardinality(S) \in Nat
    BY FS_Subset, FS_CardinalityType, MsgIdsAssumption
  <1> QED BY <1>1, <1>2

\* Changing nothing is a transaction that has written no row.
LEMMA NoEffectBase ==
    ASSUME TypeOK
    PROVE  Base(NoEffect)
  <1> DEFINE rws == [m \in {} |-> None]
  <1>1. DOMAIN rws = {} /\ rws \in [{} -> Row]
    OBVIOUS
  <1>2. IsTx(NoEffect)
    BY <1>1 DEF NoEffect, IsTx, TypeOK
  <1> QED BY <1>1, <1>2, Numbers DEF Base, Forward, NoEffect, TypeOK, Seat, Conversation

\* Setting a counter leaves the other columns of a conversation row alone.
LEMMA SetCounter ==
    ASSUME NEW c \in Conversation, NEW n \in Nat
    PROVE  /\ [c EXCEPT !.nextRevision = n] \in Conversation
           /\ [c EXCEPT !.nextRevision = n].nextRevision = n
           /\ [c EXCEPT !.nextRevision = n].type = c.type
           /\ [c EXCEPT !.nextRevision = n].nextHeight = c.nextHeight
           /\ [c EXCEPT !.nextRevision = n].cleared = c.cleared
           /\ [c EXCEPT !.nextHeight = n] \in Conversation
           /\ [c EXCEPT !.nextHeight = n].nextHeight = n
           /\ [c EXCEPT !.nextHeight = n].type = c.type
           /\ [c EXCEPT !.nextHeight = n].nextRevision = c.nextRevision
           /\ [c EXCEPT !.nextHeight = n].cleared = c.cleared
  BY DEF Conversation

\* So does numbering a message row.
LEMMA SetRevision ==
    ASSUME NEW r \in Row, NEW n \in Nat
    PROVE  /\ [r EXCEPT !.revision = n] \in Row
           /\ [r EXCEPT !.revision = n].revision = n
           /\ [r EXCEPT !.revision = n].height = r.height
  BY DEF Row

\* An update of existing rows that keeps their heights is legal, whatever
\* else the transaction has done to the conversation and the seats.
LEMMA UpdateRowsLegal ==
    ASSUME TypeOK, NEW base, Base(base), NEW new,
           DOMAIN new \subseteq DOMAIN msgs, new \in [DOMAIN new -> Row],
           \A m \in DOMAIN new : new[m].height = msgs[m].height,
           NEW tx \in UpdateRows(new, base)
    PROVE  /\ Legal(tx) /\ tx.acks = base.acks
           /\ tx.conv = [base.conv EXCEPT !.nextRevision = tx.conv.nextRevision]
  <1> DEFINE D == DOMAIN new
  <1>1. CASE D = {}
    <2>1. tx = base
      BY <1>1 DEF UpdateRows
    <2> QED BY <2>1 DEF Base, Legal, Numbered, Stacked, Forward, IsTx, Conversation
  <1>2. CASE D # {}
    <2> DEFINE n == Cardinality(D)
    <2>1. n \in Nat /\ Watermark \in Nat /\ conv.nextRevision <= Watermark
          /\ conv.nextHeight \in Nat /\ conv.nextRevision \in Nat
      BY Numbers DEF TypeOK
    <2>2. PICK f \in assign_revision(D) :
            tx = [base EXCEPT !.rows = [m \in D |-> [new[m] EXCEPT !.revision = f[m]]],
                              !.conv.nextRevision = Watermark + n]
      BY <1>2 DEF UpdateRows
    <2> DEFINE rws == [m \in D |-> [new[m] EXCEPT !.revision = f[m]]]
    <2>3. /\ f \in [D -> (Watermark + 1)..(Watermark + n)]
          /\ \A m1, m2 \in D : f[m1] = f[m2] => m1 = m2
      BY DEF assign_revision
    <2> HIDE DEF n
    <2>4. /\ DOMAIN rws = D /\ rws \in [D -> Row]
          /\ \A m \in D : /\ rws[m].revision = f[m]
                          /\ rws[m].height = msgs[m].height
      <3>1. \A m \in D : new[m] \in Row /\ f[m] \in Nat
        BY <2>1, <2>3
      <3>2. \A m \in D : /\ [new[m] EXCEPT !.revision = f[m]] \in Row
                         /\ [new[m] EXCEPT !.revision = f[m]].revision = f[m]
                         /\ [new[m] EXCEPT !.revision = f[m]].height = new[m].height
        BY <3>1, SetRevision
      <3> QED BY <3>2
    <2> HIDE DEF rws
    <2>5. /\ tx.rows = rws /\ tx.seats = base.seats /\ tx.read = base.read
          /\ tx.acks = base.acks
          /\ tx.conv = [base.conv EXCEPT !.nextRevision = Watermark + n]
          /\ DOMAIN tx = DOMAIN base
      BY <2>2 DEF Base, IsTx, rws
    <2> HIDE <2>2
    <2>6. /\ tx.conv \in Conversation /\ tx.conv.nextRevision = Watermark + n
          /\ tx.conv.type = base.conv.type
          /\ tx.conv.nextHeight = base.conv.nextHeight
          /\ tx.conv.cleared = base.conv.cleared
      <3>1. base.conv \in Conversation /\ Watermark + n \in Nat
        BY <2>1 DEF Base, IsTx
      <3> DEFINE e == [base.conv EXCEPT !.nextRevision = Watermark + n]
      <3>3. /\ e \in Conversation /\ e.nextRevision = Watermark + n
            /\ e.type = base.conv.type /\ e.nextHeight = base.conv.nextHeight
            /\ e.cleared = base.conv.cleared
        BY <3>1, SetCounter
      <3>4. tx.conv = e
        BY <2>5
      <3> HIDE DEF e
      <3> QED BY <3>3, <3>4
    <2>7. IsTx(tx)
      <3>1. D \subseteq MsgIds
        BY DEF TypeOK
      <3> QED BY <2>4, <2>5, <2>6, <3>1 DEF Base, IsTx
    <2>8. Forward(tx)
      <3>1. base.conv.nextRevision = conv.nextRevision
        BY DEF Base
      <3>2. tx.conv.nextRevision >= conv.nextRevision
        BY <2>1, <2>6
      <3>3. tx.seats = base.seats
        BY <2>5
      <3> HIDE <2>5
      <3> QED BY <2>6, <3>2, <3>3 DEF Base, Forward
    <2>9. Numbered(tx)
      <3>1. conversationSyncRevision(tx.conv) >= Watermark + n
        BY <2>1, <2>6 DEF conversationSyncRevision, Max2, Conversation
      <3>2. conversationSyncRevision(tx.conv) \in Nat
        BY <2>6 DEF conversationSyncRevision, Max2, Conversation
      <3> QED BY <2>1, <2>3, <2>4, <2>5, <3>1, <3>2 DEF Numbered
    <2>10. Stacked(tx)
      BY <2>4, <2>5, <2>6 DEF Base, Stacked
    <2> QED BY <2>5, <2>6, <2>7, <2>8, <2>9, <2>10 DEF Legal
  <1> QED BY <1>1, <1>2

\* A message that takes the next height is a legal effect.
LEMMA InsertRowLegal ==
    ASSUME TypeOK, NEW base, Base(base),
           NEW sender \in Users \cup {System}, NEW type \in {"text", "card", "system"},
           NEW d \in Ds \cup {None}, NEW hash \in Texts \cup {None},
           NEW body \in Bodies, NEW burn \in {"none", "armed", "running"},
           NEW tx \in InsertRow(sender, type, d, hash, body, burn, base)
    PROVE  /\ Legal(tx) /\ DOMAIN tx.rows \subseteq MsgIds
           /\ tx.acks = base.acks
  <1> DEFINE row == [height |-> conv.nextHeight + 1, revision |-> Watermark + 1,
             sender |-> sender, type |-> type, d |-> d, requestHash |-> hash,
             content |-> body, contentHistory |-> <<>>, revoked |-> FALSE,
             deleted |-> FALSE, burn |-> burn, reactions |-> {}]
  <1>1. PICK id \in MsgIds \ DOMAIN msgs :
            tx = [base EXCEPT !.rows = [m \in {id} |-> row],
                              !.conv.nextRevision = Watermark + 1,
                              !.conv.nextHeight = conv.nextHeight + 1]
    BY DEF InsertRow
  <1> DEFINE rws == [m \in {id} |-> row]
  <1>2. /\ Watermark \in Nat /\ conv.nextRevision <= Watermark
        /\ conv.nextHeight \in Nat /\ conv.nextRevision \in Nat
    BY Numbers
  <1>3. row \in Row /\ row.height = conv.nextHeight + 1 /\ row.revision = Watermark + 1
    <2>1. <<>> \in Seq(Bodies)
      OBVIOUS
    <2> QED BY <1>2, <2>1 DEF Row
  <1> HIDE DEF row
  <1>4. DOMAIN rws = {id} /\ rws \in [{id} -> Row] /\ rws[id] = row
    BY <1>3
  <1>5. /\ tx.rows = rws /\ tx.seats = base.seats /\ tx.read = base.read
        /\ tx.acks = base.acks /\ DOMAIN tx = DOMAIN base
        /\ tx.conv = [[base.conv EXCEPT !.nextRevision = Watermark + 1]
                        EXCEPT !.nextHeight = conv.nextHeight + 1]
    BY <1>1 DEF Base, IsTx
  <1> HIDE DEF rws
  <1> HIDE <1>1
  <1>6. /\ tx.conv \in Conversation /\ tx.conv.nextRevision = Watermark + 1
        /\ tx.conv.type = base.conv.type
        /\ tx.conv.nextHeight = conv.nextHeight + 1
        /\ tx.conv.cleared = base.conv.cleared
    <2>1. base.conv \in Conversation /\ Watermark + 1 \in Nat /\ conv.nextHeight + 1 \in Nat
      BY <1>2 DEF Base, IsTx
    <2>2. tx.conv = [[base.conv EXCEPT !.nextRevision = Watermark + 1]
                        EXCEPT !.nextHeight = conv.nextHeight + 1]
      BY <1>5
    <2> DEFINE c == [base.conv EXCEPT !.nextRevision = Watermark + 1]
    <2>3. /\ c \in Conversation /\ c.nextRevision = Watermark + 1
          /\ c.type = base.conv.type /\ c.cleared = base.conv.cleared
      BY <2>1, SetCounter
    <2> HIDE DEF c
    <2>4. tx.conv = [c EXCEPT !.nextHeight = conv.nextHeight + 1]
      BY <2>2 DEF c
    <2> DEFINE e == [c EXCEPT !.nextHeight = conv.nextHeight + 1]
    <2>5. /\ e \in Conversation /\ e.nextRevision = c.nextRevision
          /\ e.type = c.type /\ e.nextHeight = conv.nextHeight + 1
          /\ e.cleared = c.cleared
      BY <2>1, <2>3, SetCounter
    <2>6. tx.conv = e
      BY <2>4
    <2> HIDE DEF e
    <2> QED BY <2>3, <2>5, <2>6
  <1>7. IsTx(tx)
    BY <1>4, <1>5, <1>6 DEF Base, IsTx
  <1>8. Forward(tx)
    BY <1>2, <1>5, <1>6 DEF Base, Forward
  <1>9. Numbered(tx)
    <2>1. conversationSyncRevision(tx.conv) >= Watermark + 1
      BY <1>2, <1>6 DEF conversationSyncRevision, Max2
    <2> QED BY <1>2, <1>3, <1>4, <1>5, <2>1 DEF Numbered
  <1>10. Stacked(tx)
    BY <1>3, <1>4, <1>5, <1>6 DEF Stacked
  <1> QED BY <1>5, <1>4, <1>7, <1>8, <1>9, <1>10 DEF Legal

\* A transaction that writes no message row and moves no counter back.
LEMMA BaseOf ==
    ASSUME TypeOK, NEW t,
           DOMAIN t = {"conv", "rows", "seats", "read", "acks"},
           t.conv \in Conversation, t.conv.type = conv.type,
           t.conv.nextHeight = conv.nextHeight,
           t.conv.nextRevision = conv.nextRevision,
           t.conv.cleared >= conv.cleared,
           t.rows = NoEffect.rows,
           t.seats \in [Users -> Seat],
           \A u \in Users : t.seats[u].cleared >= seats[u].cleared,
           t.read \in [Users -> Nat], t.acks = {}
    PROVE  Base(t)
  <1>1. DOMAIN t.rows = {} /\ t.rows \in [DOMAIN t.rows -> Row]
    BY NoEffectBase DEF Base, IsTx
  <1>2. IsTx(t)
    BY <1>1 DEF IsTx
  <1>3. Forward(t)
    BY Numbers DEF Forward
  <1> QED BY <1>1, <1>2, <1>3 DEF Base

\* A base that writes nothing is a legal effect.
LEMMA BaseLegal ==
    ASSUME NEW t, Base(t)
    PROVE  Legal(t)
  BY DEF Base, Legal, Numbered, Stacked, IsTx

\* Acknowledging a send does not change what is written.
LEMMA AcksLegal ==
    ASSUME NEW t, Legal(t), NEW A \in SUBSET [user: Users, d: Ds, text: Texts, id: MsgIds]
    PROVE  Legal([t EXCEPT !.acks = A])
  <1> DEFINE e == [t EXCEPT !.acks = A]
  <1>1. /\ DOMAIN e = DOMAIN t /\ e.conv = t.conv /\ e.rows = t.rows
        /\ e.seats = t.seats /\ e.read = t.read /\ e.acks = A
    BY DEF Legal, IsTx
  <1> HIDE DEF e
  <1>2. IsTx(e)
    BY <1>1 DEF Legal, IsTx
  <1>3. Forward(e)
    BY <1>1 DEF Legal, Forward
  <1>4. Numbered(e)
    BY <1>1 DEF Legal, Numbered
  <1>5. Stacked(e)
    BY <1>1 DEF Legal, Stacked
  <1>6. Legal(e)
    BY <1>2, <1>3, <1>4, <1>5 DEF Legal
  <1> QED BY <1>6 DEF e

\* The fields of an empty effect.
LEMMA NoEffectFields ==
    ASSUME TypeOK
    PROVE  /\ DOMAIN NoEffect = {"conv", "rows", "seats", "read", "acks"}
           /\ NoEffect.conv = conv /\ NoEffect.seats = seats
           /\ NoEffect.read = [u \in Users |-> 0] /\ NoEffect.acks = {}
           /\ conv \in Conversation /\ seats \in [Users -> Seat]
  BY DEF NoEffect, TypeOK

\* System messages go through the same insertion.
LEMMA SystemMessageLegal ==
    ASSUME TypeOK, NEW base, Base(base), NEW tx \in insertSystemMessage(base)
    PROVE  Legal(tx)
  <1>1. Notice \in Bodies /\ System \in Users \cup {System}
    BY DEF Bodies
  <1>2. tx \in InsertRow(System, "system", None, None, Notice, "none", base)
    BY DEF insertSystemMessage
  <1>3. /\ None \in Ds \cup {None} /\ None \in Texts \cup {None}
        /\ "system" \in {"text", "card", "system"}
        /\ "none" \in {"none", "armed", "running"}
    OBVIOUS
  <1> QED BY <1>1, <1>2, <1>3, InsertRowLegal

\* sendMessage: refused, answered with the earlier message, or a new row.
LEMMA sendMessageLegal ==
    ASSUME TypeOK, NEW c, c.user \in Users, c.d \in Ds, c.text \in Texts,
           NEW tx \in sendMessage(c)
    PROVE  Legal(tx)
  <1> DEFINE AckSet == [user: Users, d: Ds, text: Texts, id: MsgIds]
  <1>1. \A m \in MsgIds : Ack(c, m) \in AckSet
    BY DEF Ack
  <1>2. CASE SentAs(c.user, c.d) # {}
    <2>1. PICK m \in SentAs(c.user, c.d) : tx = [NoEffect EXCEPT !.acks = {Ack(c, m)}]
      BY <1>2 DEF sendMessage
    <2>2. m \in MsgIds
      BY DEF SentAs, TypeOK
    <2>3. {Ack(c, m)} \in SUBSET AckSet
      BY <1>1, <2>2
    <2> QED BY <2>1, <2>3, AcksLegal, BaseLegal, NoEffectBase
  <1>3. CASE SentAs(c.user, c.d) = {}
    <2>1. PICK t \in InsertRow(c.user, "text", c.d, c.text, c.text, BurnOf(c), NoEffect) :
             tx = [t EXCEPT !.acks = {Ack(c, m) : m \in DOMAIN t.rows}]
      BY <1>3 DEF sendMessage
    <2>2. c.text \in Bodies /\ BurnOf(c) \in {"none", "armed", "running"}
      BY DEF Bodies, BurnOf
    <2>3. Legal(t)
      BY <2>2, NoEffectBase, InsertRowLegal
    <2>4. DOMAIN t.rows \subseteq MsgIds
      BY <2>3 DEF Legal, IsTx
    <2>5. {Ack(c, m) : m \in DOMAIN t.rows} \in SUBSET AckSet
      BY <1>1, <2>4
    <2> QED BY <2>1, <2>3, <2>5, AcksLegal
  <1> QED BY <1>2, <1>3

\* insertServerMessage, the cards the server sends for a user.
LEMMA insertServerMessageLegal ==
    ASSUME TypeOK, NEW c, c.user \in Users, c.d \in Ds,
           NEW tx \in insertServerMessage(c)
    PROVE  Legal(tx)
  <1>1. Notice \in Bodies
    BY DEF Bodies
  <1>2. tx = NoEffect \/ tx \in InsertRow(c.user, "card", c.d, None, Notice, "none", NoEffect)
    BY DEF insertServerMessage
  <1> QED BY <1>1, <1>2, NoEffectBase, BaseLegal, InsertRowLegal

\* The changes handlers make to a message row keep it a row and its height.
LEMMA RowChanges ==
    ASSUME NEW r \in Row
    PROVE  /\ LET e == [r EXCEPT !.content = Blank, !.revoked = TRUE]
              IN  e \in Row /\ e.height = r.height
           /\ \A t \in Texts :
                 LET e == [r EXCEPT !.content = t,
                              !.contentHistory = Append(r.contentHistory, r.content)]
                 IN  e \in Row /\ e.height = r.height
           /\ \A u \in Users :
                 /\ LET e == [r EXCEPT !.reactions = @ \cup {u}]
                    IN  e \in Row /\ e.height = r.height
                 /\ LET e == [r EXCEPT !.reactions = @ \ {u}]
                    IN  e \in Row /\ e.height = r.height
           /\ LET e == [r EXCEPT !.burn = "running"]
              IN  e \in Row /\ e.height = r.height
           /\ LET e == [r EXCEPT !.deleted = TRUE, !.content = Blank,
                                 !.contentHistory = <<>>]
              IN  e \in Row /\ e.height = r.height
  <1>1. Blank \in Bodies /\ Texts \subseteq Bodies /\ <<>> \in Seq(Bodies)
    BY DEF Bodies
  <1>2. Append(r.contentHistory, r.content) \in Seq(Bodies)
    BY DEF Row
  <1>3. LET e == [r EXCEPT !.content = Blank, !.revoked = TRUE]
        IN  e \in Row /\ e.height = r.height
    BY <1>1 DEF Row
  <1>4. ASSUME NEW t \in Texts
        PROVE  LET e == [r EXCEPT !.content = t,
                              !.contentHistory = Append(r.contentHistory, r.content)]
               IN  e \in Row /\ e.height = r.height
    BY <1>1, <1>2 DEF Row
  <1>5. ASSUME NEW u \in Users
        PROVE  /\ LET e == [r EXCEPT !.reactions = @ \cup {u}]
                  IN  e \in Row /\ e.height = r.height
               /\ LET e == [r EXCEPT !.reactions = @ \ {u}]
                  IN  e \in Row /\ e.height = r.height
    BY DEF Row
  <1>6. LET e == [r EXCEPT !.burn = "running"]
        IN  e \in Row /\ e.height = r.height
    BY DEF Row
  <1>7. LET e == [r EXCEPT !.deleted = TRUE, !.content = Blank, !.contentHistory = <<>>]
        IN  e \in Row /\ e.height = r.height
    BY <1>1 DEF Row
  <1> QED BY <1>3, <1>4, <1>5, <1>6, <1>7

\* revokeMessage: the body goes, and the banner if it shows the message.
LEMMA revokeMessageLegal ==
    ASSUME TypeOK, NEW c, c.id \in DOMAIN msgs, NEW tx \in revokeMessage(c)
    PROVE  Legal(tx)
  <1> DEFINE down == [NoEffect EXCEPT !.conv.pinned = None, !.conv.preview = Blank]
             base == IF conv.pinned = c.id THEN down ELSE NoEffect
             new == [m \in {c.id} |-> [msgs[m] EXCEPT !.content = Blank, !.revoked = TRUE]]
             e == [msgs[c.id] EXCEPT !.content = Blank, !.revoked = TRUE]
  <1>1. Base(down)
    <2>1. Blank \in Bodies
      BY DEF Bodies
    <2>2. /\ DOMAIN down = DOMAIN NoEffect
          /\ down.conv = [conv EXCEPT !.pinned = None, !.preview = Blank]
          /\ down.rows = NoEffect.rows /\ down.seats = seats
          /\ down.read = [u \in Users |-> 0] /\ down.acks = {}
      BY DEF NoEffect
    <2>3. /\ down.conv \in Conversation /\ down.conv.type = conv.type
          /\ down.conv.nextHeight = conv.nextHeight
          /\ down.conv.nextRevision = conv.nextRevision
          /\ down.conv.cleared = conv.cleared
      BY <2>1, <2>2, NoEffectFields DEF Conversation
    <2> HIDE DEF down
    <2>4. down.conv.cleared >= conv.cleared
      BY <2>3, NoEffectFields DEF Conversation
    <2>5. \A u \in Users : down.seats[u].cleared >= seats[u].cleared
      BY <2>2, NoEffectFields DEF Seat
    <2>6. /\ DOMAIN down = {"conv", "rows", "seats", "read", "acks"}
          /\ down.seats \in [Users -> Seat] /\ down.read \in [Users -> Nat]
      BY <2>2, NoEffectFields
    <2> QED BY <2>2, <2>3, <2>4, <2>5, <2>6, BaseOf
  <1> HIDE DEF down
  <1>2. Base(base)
    BY <1>1, NoEffectBase
  <1>3. /\ DOMAIN new \subseteq DOMAIN msgs /\ new \in [DOMAIN new -> Row]
        /\ \A m \in DOMAIN new : new[m].height = msgs[m].height
    <2>1. msgs[c.id] \in Row
      BY DEF TypeOK
    <2>2. e \in Row /\ e.height = msgs[c.id].height
      BY <2>1, RowChanges
    <2>3. new = [m \in {c.id} |-> e]
      OBVIOUS
    <2> HIDE DEF e, new
    <2> QED BY <2>2, <2>3
  <1>4. tx = NoEffect \/ tx \in UpdateRows(new, base)
    BY DEF revokeMessage, down
  <1> HIDE DEF new, base
  <1> QED BY <1>2, <1>3, <1>4, NoEffectBase, BaseLegal, UpdateRowsLegal

\* editMessage: a new body, the old one kept, the banner follows.
LEMMA editMessageLegal ==
    ASSUME TypeOK, NEW c, c.id \in DOMAIN msgs, c.text \in Texts,
           NEW tx \in editMessage(c)
    PROVE  Legal(tx)
  <1> DEFINE shown == [NoEffect EXCEPT !.conv.preview = c.text]
             base == IF conv.pinned = c.id THEN shown ELSE NoEffect
             new == [m \in {c.id} |-> [msgs[m] EXCEPT
                        !.content = c.text,
                        !.contentHistory = Append(msgs[m].contentHistory, msgs[m].content)]]
             e == [msgs[c.id] EXCEPT
                        !.content = c.text,
                        !.contentHistory =
                            Append(msgs[c.id].contentHistory, msgs[c.id].content)]
  <1>1. Base(shown)
    <2>1. c.text \in Bodies
      BY DEF Bodies
    <2>2. /\ DOMAIN shown = DOMAIN NoEffect
          /\ shown.conv = [conv EXCEPT !.preview = c.text]
          /\ shown.rows = NoEffect.rows /\ shown.seats = seats
          /\ shown.read = [u \in Users |-> 0] /\ shown.acks = {}
      BY DEF NoEffect
    <2>3. /\ shown.conv \in Conversation /\ shown.conv.type = conv.type
          /\ shown.conv.nextHeight = conv.nextHeight
          /\ shown.conv.nextRevision = conv.nextRevision
          /\ shown.conv.cleared = conv.cleared
      BY <2>1, <2>2, NoEffectFields DEF Conversation
    <2> HIDE DEF shown
    <2>4. shown.conv.cleared >= conv.cleared
      BY <2>3, NoEffectFields DEF Conversation
    <2>5. \A u \in Users : shown.seats[u].cleared >= seats[u].cleared
      BY <2>2, NoEffectFields DEF Seat
    <2>6. /\ DOMAIN shown = {"conv", "rows", "seats", "read", "acks"}
          /\ shown.seats \in [Users -> Seat] /\ shown.read \in [Users -> Nat]
      BY <2>2, NoEffectFields
    <2> QED BY <2>2, <2>3, <2>4, <2>5, <2>6, BaseOf
  <1> HIDE DEF shown
  <1>2. Base(base)
    BY <1>1, NoEffectBase
  <1>3. /\ DOMAIN new \subseteq DOMAIN msgs /\ new \in [DOMAIN new -> Row]
        /\ \A m \in DOMAIN new : new[m].height = msgs[m].height
    <2>1. msgs[c.id] \in Row
      BY DEF TypeOK
    <2>2. e \in Row /\ e.height = msgs[c.id].height
      BY <2>1, RowChanges
    <2>3. new = [m \in {c.id} |-> e]
      OBVIOUS
    <2> HIDE DEF e, new
    <2> QED BY <2>2, <2>3
  <1>4. tx \in UpdateRows(new, base)
    BY DEF editMessage, shown
  <1> HIDE DEF new, base
  <1> QED BY <1>2, <1>3, <1>4, UpdateRowsLegal

\* toggleReaction: one account more or less.
LEMMA toggleReactionLegal ==
    ASSUME TypeOK, NEW c, c.id \in DOMAIN msgs, c.user \in Users, c.add \in BOOLEAN,
           NEW tx \in toggleReaction(c)
    PROVE  Legal(tx)
  <1> DEFINE new == [m \in {c.id} |-> [msgs[m] EXCEPT
                        !.reactions = IF c.add THEN @ \cup {c.user} ELSE @ \ {c.user}]]
             e == [msgs[c.id] EXCEPT
                        !.reactions = IF c.add THEN @ \cup {c.user} ELSE @ \ {c.user}]
  <1>1. /\ DOMAIN new \subseteq DOMAIN msgs /\ new \in [DOMAIN new -> Row]
        /\ \A m \in DOMAIN new : new[m].height = msgs[m].height
    <2>1. msgs[c.id] \in Row
      BY DEF TypeOK
    <2>2. e \in Row /\ e.height = msgs[c.id].height
      <3>1. CASE c.add
        <4>1. e = [msgs[c.id] EXCEPT !.reactions = @ \cup {c.user}]
          BY <3>1
        <4> HIDE DEF e
        <4> QED BY <2>1, <4>1, RowChanges
      <3>2. CASE ~c.add
        <4>1. e = [msgs[c.id] EXCEPT !.reactions = @ \ {c.user}]
          BY <3>2
        <4> HIDE DEF e
        <4> QED BY <2>1, <4>1, RowChanges
      <3> QED BY <3>1, <3>2
    <2>3. new = [m \in {c.id} |-> e]
      OBVIOUS
    <2> HIDE DEF e, new
    <2> QED BY <2>2, <2>3
  <1>2. tx = NoEffect \/ tx \in UpdateRows(new, NoEffect)
    BY DEF toggleReaction
  <1> HIDE DEF new
  <1> QED BY <1>1, <1>2, NoEffectBase, BaseLegal, UpdateRowsLegal

\* startReadBurnTimers: the timers of messages that are there start.
LEMMA startReadBurnTimersLegal ==
    ASSUME TypeOK, NEW u, NEW h, NEW base, Base(base),
           NEW tx \in startReadBurnTimers(u, h, base)
    PROVE  Legal(tx)
  <1> DEFINE new == [m \in ReadBurnRows(u, h) |-> [msgs[m] EXCEPT !.burn = "running"]]
  <1>1. ReadBurnRows(u, h) \subseteq DOMAIN msgs
    BY DEF ReadBurnRows
  <1>2. /\ DOMAIN new \subseteq DOMAIN msgs /\ new \in [DOMAIN new -> Row]
        /\ \A m \in DOMAIN new : new[m].height = msgs[m].height
    BY <1>1, RowChanges DEF TypeOK
  <1>3. tx \in UpdateRows(new, base)
    BY DEF startReadBurnTimers
  <1> HIDE DEF new
  <1> QED BY <1>2, <1>3, UpdateRowsLegal

\* sweepConversation: what is still due becomes a tombstone.
LEMMA sweepConversationLegal ==
    ASSUME TypeOK, NEW c, c.batch \subseteq DOMAIN msgs,
           NEW tx \in sweepConversation(c)
    PROVE  Legal(tx)
  <1> DEFINE S == {k \in c.batch : ~msgs[k].deleted /\ k \in due}
             new == [m \in S |-> [msgs[m] EXCEPT !.deleted = TRUE, !.content = Blank,
                                                 !.contentHistory = <<>>]]
  <1>1. /\ DOMAIN new \subseteq DOMAIN msgs /\ new \in [DOMAIN new -> Row]
        /\ \A m \in DOMAIN new : new[m].height = msgs[m].height
    BY RowChanges DEF TypeOK
  <1>2. tx \in UpdateRows(new, NoEffect)
    BY DEF sweepConversation
  <1> HIDE DEF new
  <1> QED BY <1>1, <1>2, NoEffectBase, UpdateRowsLegal

\* markRead with timers to start.
LEMMA markReadLegal ==
    ASSUME TypeOK, NEW c, c.user \in Users, c.height \in Nat, NEW tx \in markRead(c)
    PROVE  Legal(tx)
  <1> DEFINE base == [NoEffect EXCEPT !.read[c.user] = c.height]
  <1>1. /\ DOMAIN base = {"conv", "rows", "seats", "read", "acks"}
        /\ base.conv = conv /\ base.rows = NoEffect.rows /\ base.seats = seats
        /\ base.read = [[u \in Users |-> 0] EXCEPT ![c.user] = c.height]
        /\ base.acks = {}
    BY NoEffectFields
  <1>3. tx \in startReadBurnTimers(c.user, c.height, base)
    BY DEF markRead
  <1> HIDE DEF base
  <1>2. base.read \in [Users -> Nat]
    BY <1>1
  <1>4. /\ base.conv.cleared >= conv.cleared /\ base.conv \in Conversation
        /\ base.seats \in [Users -> Seat]
        /\ \A u \in Users : base.seats[u].cleared >= seats[u].cleared
    BY <1>1, NoEffectFields DEF Conversation, Seat
  <1>5. Base(base)
    BY <1>1, <1>2, <1>4, BaseOf
  <1> QED BY <1>3, <1>5, startReadBurnTimersLegal

\* Changes of a seat that keep its clear level leave nothing written.
LEMMA SeatsBase ==
    ASSUME TypeOK, NEW base, NEW s \in [Users -> Seat],
           base = [NoEffect EXCEPT !.seats = s],
           \A u \in Users : s[u].cleared = seats[u].cleared
    PROVE  Base(base)
  <1>1. /\ DOMAIN base = {"conv", "rows", "seats", "read", "acks"}
        /\ base.conv = conv /\ base.rows = NoEffect.rows /\ base.seats = s
        /\ base.read = [u \in Users |-> 0] /\ base.acks = {}
    BY NoEffectFields
  <1>2. base.read \in [Users -> Nat]
    BY <1>1
  <1>3. /\ base.conv.cleared >= conv.cleared /\ base.conv \in Conversation
        /\ \A u \in Users : base.seats[u].cleared >= seats[u].cleared
    BY <1>1, NoEffectFields DEF Conversation, Seat
  <1> QED BY <1>1, <1>2, <1>3, BaseOf

\* Changes of the conversation row that keep its counters do too.
LEMMA ConvBase ==
    ASSUME TypeOK, NEW base, NEW cv \in Conversation,
           base = [NoEffect EXCEPT !.conv = cv],
           cv.type = conv.type, cv.nextHeight = conv.nextHeight,
           cv.nextRevision = conv.nextRevision, cv.cleared = conv.cleared
    PROVE  Base(base)
  <1>1. /\ DOMAIN base = {"conv", "rows", "seats", "read", "acks"}
        /\ base.conv = cv /\ base.rows = NoEffect.rows /\ base.seats = seats
        /\ base.read = [u \in Users |-> 0] /\ base.acks = {}
    BY NoEffectFields
  <1>2. base.read \in [Users -> Nat]
    BY <1>1
  <1>3. /\ base.conv.cleared >= conv.cleared /\ base.seats \in [Users -> Seat]
        /\ \A u \in Users : base.seats[u].cleared >= seats[u].cleared
    BY <1>1, NoEffectFields DEF Conversation, Seat
  <1> QED BY <1>1, <1>2, <1>3, BaseOf

\* setBurnDuration, silenceMember and removeStandaloneMember change one seat
\* and say so in a system message.
LEMMA SeatChangesLegal ==
    ASSUME TypeOK, NEW c,
           NEW tx,
           \/ c.user \in Users /\ c.on \in BOOLEAN /\ tx \in setBurnDuration(c)
           \/ c.target \in Users /\ c.on \in BOOLEAN /\ tx \in silenceMember(c)
           \/ c.target \in Users /\ tx \in removeStandaloneMember(c)
    PROVE  Legal(tx)
  <1>1. CASE c.user \in Users /\ c.on \in BOOLEAN /\ tx \in setBurnDuration(c)
    <2> DEFINE s == [seats EXCEPT ![c.user].burn = c.on]
               base == [NoEffect EXCEPT !.seats[c.user].burn = c.on]
    <2>1. s \in [Users -> Seat] /\ \A u \in Users : s[u].cleared = seats[u].cleared
      BY <1>1, NoEffectFields DEF Seat
    <2>2. base = [NoEffect EXCEPT !.seats = s]
      BY DEF NoEffect
    <2>3. tx \in insertSystemMessage(base)
      BY <1>1 DEF setBurnDuration
    <2> HIDE DEF s, base
    <2> QED BY <2>1, <2>2, <2>3, SeatsBase, SystemMessageLegal
  <1>2. CASE c.target \in Users /\ c.on \in BOOLEAN /\ tx \in silenceMember(c)
    <2> DEFINE s == [seats EXCEPT ![c.target].silenced = c.on]
               base == [NoEffect EXCEPT !.seats[c.target].silenced = c.on]
    <2>1. s \in [Users -> Seat] /\ \A u \in Users : s[u].cleared = seats[u].cleared
      BY <1>2, NoEffectFields DEF Seat
    <2>2. base = [NoEffect EXCEPT !.seats = s]
      BY DEF NoEffect
    <2>3. tx = NoEffect \/ tx \in insertSystemMessage(base)
      BY <1>2 DEF silenceMember
    <2> HIDE DEF s, base
    <2> QED BY <2>1, <2>2, <2>3, SeatsBase, SystemMessageLegal, NoEffectBase, BaseLegal
  <1>3. CASE c.target \in Users /\ tx \in removeStandaloneMember(c)
    <2> DEFINE s == [seats EXCEPT ![c.target].open = FALSE]
               base == [NoEffect EXCEPT !.seats[c.target].open = FALSE]
    <2>1. s \in [Users -> Seat] /\ \A u \in Users : s[u].cleared = seats[u].cleared
      BY <1>3, NoEffectFields DEF Seat
    <2>2. base = [NoEffect EXCEPT !.seats = s]
      BY DEF NoEffect
    <2>3. tx \in insertSystemMessage(base)
      BY <1>3 DEF removeStandaloneMember
    <2> HIDE DEF s, base
    <2> QED BY <2>1, <2>2, <2>3, SeatsBase, SystemMessageLegal
  <1> QED BY <1>1, <1>2, <1>3

\* setMuteAll and setPinnedMessage change the conversation row.
LEMMA ConversationChangesLegal ==
    ASSUME TypeOK, NEW c, NEW tx,
           \/ c.on \in BOOLEAN /\ tx \in setMuteAll(c)
           \/ c.id \in DOMAIN msgs \cup {None} /\ tx \in setPinnedMessage(c)
    PROVE  Legal(tx)
  <1>1. CASE c.on \in BOOLEAN /\ tx \in setMuteAll(c)
    <2> DEFINE cv == [conv EXCEPT !.muteAll = c.on]
               base == [NoEffect EXCEPT !.conv.muteAll = c.on]
    <2>1. /\ cv \in Conversation /\ cv.type = conv.type
          /\ cv.nextHeight = conv.nextHeight /\ cv.nextRevision = conv.nextRevision
          /\ cv.cleared = conv.cleared
      BY <1>1, NoEffectFields DEF Conversation
    <2>2. base = [NoEffect EXCEPT !.conv = cv]
      BY DEF NoEffect
    <2>3. tx = NoEffect \/ tx \in insertSystemMessage(base)
      BY <1>1 DEF setMuteAll
    <2> HIDE DEF cv, base
    <2> QED BY <2>1, <2>2, <2>3, ConvBase, SystemMessageLegal, NoEffectBase, BaseLegal
  <1>2. CASE c.id \in DOMAIN msgs \cup {None} /\ tx \in setPinnedMessage(c)
    <2> DEFINE text == IF c.id = None THEN Blank ELSE msgs[c.id].content
               cv == [conv EXCEPT !.pinned = c.id, !.preview = text]
               base == [NoEffect EXCEPT !.conv.pinned = c.id, !.conv.preview = text]
    <2>1. text \in Bodies /\ c.id \in MsgIds \cup {None}
      <3>1. CASE c.id = None
        BY <3>1 DEF Bodies
      <3>2. CASE c.id # None
        <4>1. c.id \in DOMAIN msgs /\ msgs[c.id] \in Row /\ c.id \in MsgIds
          BY <1>2, <3>2 DEF TypeOK
        <4> QED BY <3>2, <4>1 DEF Row
      <3> QED BY <3>1, <3>2
    <2>2. base = [NoEffect EXCEPT !.conv = cv]
      BY DEF NoEffect
    <2>3. tx = NoEffect \/ tx \in insertSystemMessage(base)
      BY <1>2 DEF setPinnedMessage
    <2> HIDE DEF text
    <2>4. /\ cv \in Conversation /\ cv.type = conv.type
          /\ cv.nextHeight = conv.nextHeight /\ cv.nextRevision = conv.nextRevision
          /\ cv.cleared = conv.cleared
      BY <2>1, NoEffectFields DEF Conversation
    <2> HIDE DEF cv, base
    <2> QED BY <2>2, <2>3, <2>4, ConvBase, SystemMessageLegal, NoEffectBase, BaseLegal
  <1> QED BY <1>1, <1>2

\* clearHistory raises clear levels, marks the cleared messages read and, in
\* a group cleared for everyone, says so.
LEMMA clearHistoryLegal ==
    ASSUME TypeOK, NEW c, c.user \in Users, c.height \in Nat, NEW tx \in clearHistory(c)
    PROVE  Legal(tx)
  <1> DEFINE global == c.everyone /\ Kind = "GROUP"
             h == Min2(conv.nextHeight, c.height)
             targets == IF global THEN {u \in Users : seats[u].open} ELSE {c.user}
             base == [NoEffect EXCEPT
                 !.seats = RaiseCleared(targets, h),
                 !.read = [u \in Users |-> IF u \in targets THEN h ELSE 0],
                 !.conv.cleared = IF global THEN Max2(@, h) ELSE @]
             cv == [conv EXCEPT !.cleared = IF global THEN Max2(conv.cleared, h)
                                             ELSE conv.cleared]
             s == RaiseCleared(targets, h)
             r == [u \in Users |-> IF u \in targets THEN h ELSE 0]
  <1>1. h \in Nat
    BY Numbers DEF Min2
  <1>2. \/ tx = NoEffect \/ tx = base \/ tx \in insertSystemMessage(base)
        \/ tx \in startReadBurnTimers(c.user, h, base)
    BY DEF clearHistory
  <1> HIDE DEF h
  <1>3. /\ DOMAIN base = {"conv", "rows", "seats", "read", "acks"}
        /\ base.conv = cv /\ base.rows = NoEffect.rows /\ base.seats = s
        /\ base.read = r /\ base.acks = {}
    BY DEF NoEffect
  <1> HIDE DEF targets, base
  <1>4. r \in [Users -> Nat]
    BY <1>1
  <1>5. /\ s \in [Users -> Seat]
        /\ \A u \in Users : s[u].cleared >= seats[u].cleared
    <2>1. ASSUME NEW u \in Users
          PROVE  LET e == [seats[u] EXCEPT !.cleared = Max2(@, h)]
                 IN  e \in Seat /\ e.cleared >= seats[u].cleared
      BY <1>1, NoEffectFields DEF Seat, Max2
    <2>2. \A u \in Users : seats[u] \in Seat /\ seats[u].cleared >= seats[u].cleared
      BY NoEffectFields DEF Seat
    <2>3. \A u \in Users : s[u] = IF u \in targets
                                  THEN [seats[u] EXCEPT !.cleared = Max2(@, h)]
                                  ELSE seats[u]
      BY DEF RaiseCleared
    <2>4. s = [u \in Users |-> s[u]]
      BY DEF RaiseCleared
    <2> HIDE DEF s
    <2>5. \A u \in Users : s[u] \in Seat /\ s[u].cleared >= seats[u].cleared
      BY <2>1, <2>2, <2>3
    <2> QED BY <2>4, <2>5
  <1> HIDE DEF r, s
  <1>6. /\ cv \in Conversation /\ cv.type = conv.type
        /\ cv.nextHeight = conv.nextHeight /\ cv.nextRevision = conv.nextRevision
        /\ cv.cleared >= conv.cleared
    BY <1>1, NoEffectFields DEF Conversation, Max2
  <1> HIDE DEF cv, global
  <1>7. Base(base)
    BY <1>3, <1>4, <1>5, <1>6, BaseOf
  <1> QED BY <1>2, <1>7, NoEffectBase, BaseLegal, SystemMessageLegal,
             startReadBurnTimersLegal

\* Whatever a well-formed request does under the lock is legal.
LEMMA EffectsLegal ==
    ASSUME TypeOK, NEW c, CallOK(c), c.op # "delivered", NEW tx \in Effects(c)
    PROVE  Legal(tx)
  <1>1. CASE c.op = "send" /\ c.user \in Users /\ c.d \in Ds /\ c.text \in Texts
    BY <1>1, sendMessageLegal DEF Effects
  <1>2. CASE c.op = "server" /\ c.user \in Users /\ c.d \in Ds
    BY <1>2, insertServerMessageLegal DEF Effects
  <1>3. CASE c.op = "revoke" /\ c.user \in Users /\ c.id \in DOMAIN msgs
    BY <1>3, revokeMessageLegal DEF Effects
  <1>4. CASE c.op = "edit" /\ c.user \in Users /\ c.id \in DOMAIN msgs /\ c.text \in Texts
    BY <1>4, editMessageLegal DEF Effects
  <1>5. CASE /\ c.op = "react" /\ c.user \in Users /\ c.id \in DOMAIN msgs
             /\ c.add \in BOOLEAN
    BY <1>5, toggleReactionLegal DEF Effects
  <1>6. CASE c.op \in {"read", "delivered"} /\ c.user \in Users /\ c.height \in Nat
    BY <1>6, markReadLegal DEF Effects
  <1>7. CASE c.op = "burn" /\ c.user \in Users /\ c.on \in BOOLEAN
    <2>1. tx \in setBurnDuration(c)
      BY <1>7 DEF Effects
    <2> QED BY <1>7, <2>1, SeatChangesLegal
  <1>8. CASE c.op = "clear" /\ c.user \in Users /\ c.height \in Nat
    BY <1>8, clearHistoryLegal DEF Effects
  <1>9. CASE c.op = "pin" /\ c.user \in Users /\ c.id \in DOMAIN msgs \cup {None}
    <2>1. tx \in setPinnedMessage(c)
      BY <1>9 DEF Effects
    <2> QED BY <1>9, <2>1, ConversationChangesLegal
  <1>10. CASE c.op = "sweep" /\ c.batch \subseteq DOMAIN msgs
    BY <1>10, sweepConversationLegal DEF Effects
  <1>11. CASE /\ c.op = "silence" /\ c.user \in Users /\ c.target \in Users
              /\ c.on \in BOOLEAN
    <2>1. tx \in silenceMember(c)
      BY <1>11 DEF Effects
    <2> QED BY <1>11, <2>1, SeatChangesLegal
  <1>12. CASE c.op = "remove" /\ c.user \in Users /\ c.target \in Users
    <2>1. tx \in removeStandaloneMember(c)
      BY <1>12 DEF Effects
    <2> QED BY <1>12, <2>1, SeatChangesLegal
  <1>13. CASE c.op = "muteAll" /\ c.user \in Users /\ c.on \in BOOLEAN
    <2>1. tx \in setMuteAll(c)
      BY <1>13 DEF Effects
    <2> QED BY <1>13, <2>1, ConversationChangesLegal
  <1> QED BY <1>1, <1>2, <1>3, <1>4, <1>5, <1>6, <1>7, <1>8, <1>9, <1>10,
             <1>11, <1>12, <1>13 DEF CallOK

-----------------------------------------------------------------------------
(* Steps that commit nothing.                                               *)

\* The guarantees about the committed rows and the devices depend on nothing
\* but the conversation, its rows, the seats, the clock and the devices.
LEMMA RowsFrame ==
    ASSUME IInv, UNCHANGED <<rows, due, client>>
    PROVE  Covered' /\ HeightsDense' /\ Pages' /\ SyncedPrefixExact'
  <1> USE DEF rows
  <1>1. Covered'
    BY DEF IInv, Covered, Watermark
  <1>2. HeightsDense'
    BY DEF IInv, HeightsDense
  <1>3. Pages'
    BY DEF IInv, Pages, PageOK, Visible, ClearedFloor, Watermark
  <1>4. SyncedPrefixExact'
    BY DEF IInv, SyncedPrefixExact, ClearedFloor, Watermark
  <1> QED BY <1>1, <1>2, <1>3, <1>4

\* What a step of a request may do while the committed rows stay.
LEMMA JobStep ==
    ASSUME IInv, NEW w \in Workers, UNCHANGED <<rows, blocked, due, acks, client>>,
           marks' \in [Users -> [read: Nat, delivered: Nat]],
           job' = [job EXCEPT ![w] = job'[w]],
           DOMAIN job'[w] = {"phase", "call", "tx"},
           job'[w].phase \in {"idle", "checking", "receipt", "ready", "writing"},
           lock' \in Workers \cup {None},
           \A v \in Workers \ {w} : lock = v => lock' = v,
           job'[w].phase # "idle" => CallOK(job'[w].call),
           job'[w].phase = "receipt" => job'[w].call.op \in {"read", "delivered"},
           job'[w].phase \in {"ready", "writing"} => job'[w].call.op # "delivered",
           job'[w].phase = "checking" => job'[w].call.op = "read",
           job'[w].phase = "writing" => lock' = w /\ Legal(job'[w].tx)
    PROVE  IInv'
  <1> USE DEF rows
  <1>1. job' = [v \in Workers |-> job'[v]] /\ \A v \in Workers \ {w} : job'[v] = job[v]
    BY DEF IInv, TypeOK
  <1>2. \A tx : Legal(tx)' <=> Legal(tx)
    BY DEF Legal, IsTx, Forward, Numbered, Stacked, Watermark
  <1>3. \A c : CallOK(c)' <=> CallOK(c)
    BY DEF CallOK
  <1>4. \A tx : Legal(tx) => IsTx(tx)
    BY DEF Legal
  <1>5. TypeOK'
    <2>1. ASSUME NEW v \in Workers
          PROVE  /\ DOMAIN job'[v] = {"phase", "call", "tx"}
                 /\ job'[v].phase \in {"idle", "checking", "receipt", "ready", "writing"}
                 /\ job'[v].phase = "writing" => IsTx(job'[v].tx)
      BY <1>1, <1>4 DEF IInv, TypeOK
    <2> QED BY <1>1, <2>1 DEF IInv, TypeOK
  <1>6. Prepared'
    <2> SUFFICES ASSUME NEW v \in Workers
                 PROVE  /\ job'[v].phase # "idle" => CallOK(job'[v].call)
                        /\ job'[v].phase = "receipt" =>
                               job'[v].call.op \in {"read", "delivered"}
                        /\ job'[v].phase \in {"ready", "writing"} =>
                               job'[v].call.op # "delivered"
                        /\ job'[v].phase = "checking" => job'[v].call.op = "read"
                        /\ job'[v].phase = "writing" => lock' = v /\ Legal(job'[v].tx)
      BY <1>2, <1>3 DEF Prepared
    <2>1. CASE v = w
      BY <2>1
    <2>2. CASE v # w
      BY <1>1, <2>2 DEF IInv, Prepared
    <2> QED BY <2>1, <2>2
  <1> QED BY <1>5, <1>6, RowsFrame DEF IInv

\* A new request.
LEMMA AskStep ==
    ASSUME IInv, NEW w \in Workers, NEW phase \in {"checking", "receipt", "ready"},
           NEW c, CallOK(c), Ask(w, phase, c),
           phase = "receipt" => c.op \in {"read", "delivered"},
           phase = "ready" => c.op # "delivered",
           phase = "checking" => c.op = "read"
    PROVE  IInv'
  <1>1. /\ job' = [job EXCEPT ![w] = [phase |-> phase, call |-> c, tx |-> None]]
        /\ UNCHANGED <<rows, marks, blocked, due, lock, acks, client>>
    BY DEF Ask
  <1>2. /\ job'[w] = [phase |-> phase, call |-> c, tx |-> None]
        /\ job' = [job EXCEPT ![w] = job'[w]]
    BY <1>1 DEF IInv, TypeOK
  <1>3. /\ marks' \in [Users -> [read: Nat, delivered: Nat]]
        /\ lock' \in Workers \cup {None}
        /\ \A v \in Workers \ {w} : lock = v => lock' = v
    BY <1>1 DEF IInv, TypeOK
  <1>4. /\ DOMAIN job'[w] = {"phase", "call", "tx"}
        /\ job'[w].phase = phase /\ job'[w].call = c
    BY <1>2
  <1> HIDE DEF IInv
  <1> QED BY <1>1, <1>2, <1>3, <1>4, JobStep

\* Every request is well formed.
LEMMA RequestStep ==
    ASSUME IInv, NEW w \in Workers, Request(w)
    PROVE  IInv'
  <1>0. conv.nextHeight \in Nat /\ Cardinality(MsgIds) \in Nat
    BY Numbers, FS_CardinalityType, MsgIdsAssumption DEF IInv
  <1>1. CASE RequestSend(w)
    <2>1. PICK u \in Users, d \in Ds, t \in Texts :
             Ask(w, "ready", [op |-> "send", user |-> u, d |-> d, text |-> t])
      BY <1>1 DEF RequestSend
    <2> QED BY <2>1, AskStep DEF CallOK
  <1>2. CASE RequestServer(w)
    <2>1. PICK u \in Users, d \in Ds :
             Ask(w, "ready", [op |-> "server", user |-> u, d |-> d])
      BY <1>2 DEF RequestServer
    <2> QED BY <2>1, AskStep DEF CallOK
  <1>3. CASE RequestRevoke(w)
    <2>1. PICK u \in Users, m \in DOMAIN msgs :
             Ask(w, "ready", [op |-> "revoke", user |-> u, id |-> m])
      BY <1>3 DEF RequestRevoke
    <2> QED BY <2>1, AskStep DEF CallOK
  <1>4. CASE RequestEdit(w)
    <2>1. PICK u \in Users, m \in DOMAIN msgs, t \in Texts :
             Ask(w, "ready", [op |-> "edit", user |-> u, id |-> m, text |-> t])
      BY <1>4 DEF RequestEdit
    <2> QED BY <2>1, AskStep DEF CallOK
  <1>5. CASE RequestReact(w)
    <2>1. PICK u \in Users, m \in DOMAIN msgs, add \in BOOLEAN :
             Ask(w, "ready", [op |-> "react", user |-> u, id |-> m, add |-> add])
      BY <1>5 DEF RequestReact
    <2> QED BY <2>1, AskStep DEF CallOK
  <1>6. CASE RequestRead(w)
    <2>1. PICK u \in Users, h \in 1..conv.nextHeight :
             Ask(w, IF Kind = "DIRECT" THEN "checking" ELSE "receipt",
                 [op |-> "read", user |-> u, height |-> h])
      BY <1>6 DEF RequestRead
    <2> QED BY <1>0, <2>1, AskStep DEF CallOK
  <1>7. CASE RequestDelivered(w)
    <2>1. PICK u \in Users, h \in 1..conv.nextHeight :
             Ask(w, "receipt", [op |-> "delivered", user |-> u, height |-> h])
      BY <1>7 DEF RequestDelivered
    <2> QED BY <1>0, <2>1, AskStep DEF CallOK
  <1>8. CASE RequestBurn(w)
    <2>1. PICK u \in Users, on \in BOOLEAN :
             Ask(w, "ready", [op |-> "burn", user |-> u, on |-> on])
      BY <1>8 DEF RequestBurn
    <2> QED BY <2>1, AskStep DEF CallOK
  <1>9. CASE RequestClear(w)
    <2>1. PICK u \in Users, everyone \in BOOLEAN, h \in 1..Cardinality(MsgIds) :
             Ask(w, "ready", [op |-> "clear", user |-> u, everyone |-> everyone,
                              height |-> h])
      BY <1>9 DEF RequestClear
    <2> QED BY <1>0, <2>1, AskStep DEF CallOK
  <1>10. CASE RequestPin(w)
    <2>1. PICK u \in Users, m \in DOMAIN msgs \cup {None} :
             Ask(w, "ready", [op |-> "pin", user |-> u, id |-> m,
                              floor |-> ClearedFloor(u)])
      BY <1>10 DEF RequestPin
    <2> QED BY <2>1, AskStep DEF CallOK
  <1>11. CASE RequestSweep(w)
    <2> DEFINE batch == {m \in DOMAIN msgs : ~msgs[m].deleted /\ m \in due}
    <2>1. Ask(w, "ready", [op |-> "sweep", batch |-> batch])
      BY <1>11 DEF RequestSweep
    <2>2. batch \subseteq DOMAIN msgs
      OBVIOUS
    <2> HIDE DEF batch
    <2> QED BY <2>1, <2>2, AskStep DEF CallOK
  <1>12. CASE RequestGovern(w)
    <2>1. PICK u \in Users :
             \/ \E t \in Users, on \in BOOLEAN :
                   Ask(w, "ready", [op |-> "silence", user |-> u, target |-> t, on |-> on])
             \/ \E t \in Users :
                   Ask(w, "ready", [op |-> "remove", user |-> u, target |-> t])
             \/ \E on \in BOOLEAN :
                   Ask(w, "ready", [op |-> "muteAll", user |-> u, on |-> on])
      BY <1>12 DEF RequestGovern
    <2> QED BY <2>1, AskStep DEF CallOK
  <1> QED BY <1>1, <1>2, <1>3, <1>4, <1>5, <1>6, <1>7, <1>8, <1>9, <1>10,
             <1>11, <1>12 DEF Request

\* The check of markRead without the lock.
LEMMA CheckReadTimersStep ==
    ASSUME IInv, NEW w \in Workers, CheckReadTimers(w)
    PROVE  IInv'
  <1>1. PICK p \in {"ready", "receipt"} : job' = [job EXCEPT ![w].phase = p]
    BY DEF CheckReadTimers
  <1>2. /\ UNCHANGED <<rows, marks, blocked, due, lock, acks, client>>
        /\ CallOK(job[w].call) /\ job[w].call.op = "read"
    BY DEF CheckReadTimers, IInv, Prepared
  <1>3. job' = [job EXCEPT ![w] = [job[w] EXCEPT !.phase = p]]
    BY <1>1
  <1>4. /\ job'[w] = [job[w] EXCEPT !.phase = p]
        /\ job' = [job EXCEPT ![w] = job'[w]]
    BY <1>3 DEF IInv, TypeOK
  <1>5. /\ DOMAIN job'[w] = {"phase", "call", "tx"}
        /\ job'[w].phase = p /\ job'[w].call = job[w].call
    BY <1>4 DEF IInv, TypeOK
  <1>6. /\ marks' \in [Users -> [read: Nat, delivered: Nat]]
        /\ lock' \in Workers \cup {None}
        /\ \A v \in Workers \ {w} : lock = v => lock' = v
    BY <1>2 DEF IInv, TypeOK
  <1> HIDE DEF IInv
  <1> QED BY <1>2, <1>4, <1>5, <1>6, JobStep

\* A request ends without having committed anything.
LEMMA IdleStep ==
    ASSUME IInv, NEW w \in Workers, UNCHANGED <<rows, blocked, due, acks, client>>,
           marks' \in [Users -> [read: Nat, delivered: Nat]],
           job' = [job EXCEPT ![w] = Idle],
           lock' = IF lock = w THEN None ELSE lock
    PROVE  IInv'
  <1>1. /\ job'[w] = Idle /\ job' = [job EXCEPT ![w] = job'[w]]
        /\ lock' \in Workers \cup {None}
        /\ \A v \in Workers \ {w} : lock = v => lock' = v
    BY DEF IInv, TypeOK
  <1>2. DOMAIN Idle = {"phase", "call", "tx"} /\ Idle.phase = "idle"
    BY DEF Idle
  <1> HIDE DEF IInv, Idle
  <1> QED BY <1>1, <1>2, JobStep

\* Receipts, refusals and failures end a request.
LEMMA EndStep ==
    ASSUME IInv, NEW w \in Workers, WriteReceipt(w) \/ Refuse(w) \/ Fail(w)
    PROVE  IInv'
  <1>1. CASE WriteReceipt(w)
    <2> DEFINE c == job[w].call
    <2>1. c.user \in Users /\ c.height \in Nat
      BY <1>1 DEF WriteReceipt, IInv, Prepared, CallOK
    <2>2. \A a, b \in Nat : Max2(a, b) \in Nat
      BY DEF Max2
    <2>3. marks' \in [Users -> [read: Nat, delivered: Nat]]
      BY <1>1, <2>1, <2>2 DEF WriteReceipt, IInv, TypeOK
    <2>4. /\ job' = [job EXCEPT ![w] = Idle]
          /\ UNCHANGED <<rows, blocked, due, lock, acks, client>>
      BY <1>1 DEF WriteReceipt
    <2>5. /\ job'[w] = Idle /\ job' = [job EXCEPT ![w] = job'[w]]
          /\ lock' \in Workers \cup {None}
      BY <2>4 DEF IInv, TypeOK
    <2>6. DOMAIN Idle = {"phase", "call", "tx"} /\ Idle.phase = "idle"
      BY DEF Idle
    <2> QED BY <2>3, <2>4, <2>5, <2>6, JobStep
  <1>2. CASE Refuse(w)
    <2>1. /\ job' = [job EXCEPT ![w] = Idle] /\ lock = None
          /\ UNCHANGED <<rows, marks, blocked, due, lock, acks, client>>
      BY <1>2 DEF Refuse
    <2>2. marks' \in [Users -> [read: Nat, delivered: Nat]]
      BY <2>1 DEF IInv, TypeOK
    <2> QED BY <2>1, <2>2, IdleStep
  <1>3. CASE Fail(w)
    <2>1. /\ job' = [job EXCEPT ![w] = Idle]
          /\ lock' = IF lock = w THEN None ELSE lock
          /\ UNCHANGED <<rows, marks, blocked, due, acks, client>>
      BY <1>3 DEF Fail
    <2>2. marks' \in [Users -> [read: Nat, delivered: Nat]]
      BY <2>1 DEF IInv, TypeOK
    <2> QED BY <2>1, <2>2, IdleStep
  <1> QED BY <1>1, <1>2, <1>3

\* The row lock is taken and a legal effect prepared.
LEMMA LockRowStep ==
    ASSUME IInv, NEW w \in Workers, LockRow(w)
    PROVE  IInv'
  <1>1. PICK tx \in Effects(job[w].call) :
            job' = [job EXCEPT ![w].phase = "writing", ![w].tx = tx]
    BY DEF LockRow
  <1>2. /\ UNCHANGED <<rows, marks, blocked, due, acks, client>>
        /\ lock = None /\ lock' = w
        /\ CallOK(job[w].call) /\ job[w].call.op # "delivered"
    BY DEF LockRow, IInv, Prepared
  <1>3. Legal(tx)
    BY <1>2, EffectsLegal DEF IInv
  <1>4. /\ job'[w] = [[job[w] EXCEPT !.phase = "writing"] EXCEPT !.tx = tx]
        /\ job' = [job EXCEPT ![w] = job'[w]]
    BY <1>1 DEF IInv, TypeOK
  <1>5. /\ DOMAIN job'[w] = {"phase", "call", "tx"}
        /\ job'[w].phase = "writing" /\ job'[w].call = job[w].call
        /\ job'[w].tx = tx
    BY <1>4 DEF IInv, TypeOK
  <1>6. /\ marks' \in [Users -> [read: Nat, delivered: Nat]]
        /\ lock' \in Workers \cup {None}
        /\ \A v \in Workers \ {w} : lock = v => lock' = v
    BY <1>2, WorkersAssumption DEF IInv, TypeOK
  <1> HIDE DEF IInv
  <1> QED BY <1>2, <1>3, <1>4, <1>5, <1>6, JobStep

-----------------------------------------------------------------------------
(* Steps that change the rows, the clock or a device.                       *)

\* What a commit does to the rows, in the terms the invariant speaks of.
LEMMA CommitRows ==
    ASSUME IInv, NEW w \in Workers, Commit(w)
    PROVE  LET tx == job[w].tx
           IN  /\ Legal(tx)
               /\ conv' = tx.conv /\ seats' = tx.seats
               /\ UNCHANGED <<blocked, due, client>>
               /\ DOMAIN msgs' = DOMAIN msgs \cup DOMAIN tx.rows
               /\ \A m \in DOMAIN tx.rows : msgs'[m] = tx.rows[m]
               /\ \A m \in DOMAIN msgs \ DOMAIN tx.rows : msgs'[m] = msgs[m]
               /\ msgs' = [m \in DOMAIN msgs' |-> msgs'[m]]
               /\ Watermark \in Nat /\ Watermark' \in Nat /\ Watermark' >= Watermark
               /\ Watermark' = conversationSyncRevision(tx.conv)
               /\ \A u \in Users : /\ ClearedFloor(u) \in Nat /\ ClearedFloor(u)' \in Nat
                                   /\ ClearedFloor(u)' >= ClearedFloor(u)
  <1> DEFINE tx == job[w].tx
  <1>1. Legal(tx)
    BY DEF Commit, IInv, Prepared
  <1>2. /\ conv' = tx.conv /\ seats' = tx.seats /\ msgs' = Overlay(tx.rows, msgs)
        /\ UNCHANGED <<blocked, due, client>>
    BY DEF Commit
  <1>3. /\ DOMAIN msgs' = DOMAIN msgs \cup DOMAIN tx.rows
        /\ \A m \in DOMAIN tx.rows : msgs'[m] = tx.rows[m]
        /\ \A m \in DOMAIN msgs \ DOMAIN tx.rows : msgs'[m] = msgs[m]
        /\ msgs' = [m \in DOMAIN msgs' |-> msgs'[m]]
    BY <1>2 DEF Overlay
  <1> HIDE DEF tx
  <1>4. Watermark' = conversationSyncRevision(tx.conv)
    BY <1>2 DEF Watermark
  <1>5. Watermark \in Nat /\ Watermark' \in Nat /\ Watermark' >= Watermark
    BY <1>1, <1>4 DEF Legal, IsTx, Forward, Watermark, conversationSyncRevision, Max2,
                      IInv, TypeOK, Conversation
  <1>6. \A u \in Users : /\ ClearedFloor(u) \in Nat /\ ClearedFloor(u)' \in Nat
                         /\ ClearedFloor(u)' >= ClearedFloor(u)
    <2> SUFFICES ASSUME NEW u \in Users
                 PROVE  /\ ClearedFloor(u) \in Nat /\ ClearedFloor(u)' \in Nat
                        /\ ClearedFloor(u)' >= ClearedFloor(u)
      OBVIOUS
    <2>1. /\ seats[u].cleared \in Nat /\ conv.cleared \in Nat
          /\ tx.seats[u].cleared \in Nat /\ tx.conv.cleared \in Nat
      BY <1>1 DEF Legal, IsTx, IInv, TypeOK, Conversation, Seat
    <2>2. tx.seats[u].cleared >= seats[u].cleared /\ tx.conv.cleared >= conv.cleared
      BY <1>1 DEF Legal, Forward
    <2> QED BY <1>2, <2>1, <2>2 DEF ClearedFloor, Max2
  <1> QED BY <1>1, <1>2, <1>3, <1>4, <1>5, <1>6 DEF tx

\* The rows a commit leaves alone, and those it writes, lie on either side of
\* the watermark it found.
LEMMA CommitStep ==
    ASSUME IInv, NEW w \in Workers, Commit(w)
    PROVE  IInv'
  <1> DEFINE tx == job[w].tx
  <1>1. /\ Legal(tx)
        /\ conv' = tx.conv /\ seats' = tx.seats
        /\ UNCHANGED <<blocked, due, client>>
        /\ DOMAIN msgs' = DOMAIN msgs \cup DOMAIN tx.rows
        /\ \A m \in DOMAIN tx.rows : msgs'[m] = tx.rows[m]
        /\ \A m \in DOMAIN msgs \ DOMAIN tx.rows : msgs'[m] = msgs[m]
        /\ msgs' = [m \in DOMAIN msgs' |-> msgs'[m]]
        /\ Watermark \in Nat /\ Watermark' \in Nat /\ Watermark' >= Watermark
        /\ Watermark' = conversationSyncRevision(tx.conv)
        /\ \A u \in Users : /\ ClearedFloor(u) \in Nat /\ ClearedFloor(u)' \in Nat
                            /\ ClearedFloor(u)' >= ClearedFloor(u)
    BY CommitRows
  <1>2. /\ job[w].phase = "writing" /\ lock = w /\ lock' = None
        /\ job' = [job EXCEPT ![w] = Idle]
        /\ marks' = [u \in Users |-> [marks[u] EXCEPT !.read = Max2(@, tx.read[u])]]
    BY DEF Commit, IInv, Prepared
  <1>3. /\ job' = [v \in Workers |-> job'[v]] /\ job'[w] = Idle
        /\ \A v \in Workers \ {w} : job'[v] = job[v] /\ job[v].phase # "writing"
    BY <1>2 DEF IInv, TypeOK, Prepared
  <1>4. /\ TypeOK /\ Prepared /\ Covered /\ HeightsDense /\ Pages /\ SyncedPrefixExact
    BY DEF IInv
  <1>5. /\ DOMAIN tx.rows \subseteq MsgIds /\ \A m \in DOMAIN tx.rows : tx.rows[m] \in Row
        /\ \A m \in DOMAIN tx.rows : /\ tx.rows[m].revision > Watermark
                                     /\ tx.rows[m].revision <= Watermark'
    BY <1>1 DEF Legal, IsTx, Numbered
  <1> HIDE DEF tx
  <1>6. /\ DOMAIN msgs' \subseteq MsgIds /\ msgs' \in [DOMAIN msgs' -> Row]
    <2>1. \A m \in DOMAIN msgs' : msgs'[m] \in Row
      BY <1>1, <1>4, <1>5 DEF TypeOK
    <2>2. DOMAIN msgs' \subseteq MsgIds
      BY <1>1, <1>4, <1>5 DEF TypeOK
    <2> QED BY <1>1, <2>1, <2>2
  <1>7. TypeOK'
    <2>1. conv' \in Conversation /\ seats' \in [Users -> Seat]
      BY <1>1 DEF Legal, IsTx
    <2>2. marks' \in [Users -> [read: Nat, delivered: Nat]]
      <3>1. \A a, b \in Nat : Max2(a, b) \in Nat
        BY DEF Max2
      <3>2. tx.read \in [Users -> Nat]
        BY <1>1 DEF Legal, IsTx
      <3>3. \A u \in Users : [marks[u] EXCEPT !.read = Max2(@, tx.read[u])]
                                  \in [read: Nat, delivered: Nat]
        BY <1>4, <3>1, <3>2 DEF TypeOK
      <3> QED BY <1>2, <3>3
    <2>3. blocked' \in BOOLEAN /\ due' \subseteq DOMAIN msgs' /\ lock' \in Workers \cup {None}
      BY <1>1, <1>2, <1>4 DEF TypeOK
    <2>4. /\ DOMAIN Idle = {"phase", "call", "tx"} /\ Idle.phase = "idle"
      BY DEF Idle
    <2>5. \A v \in Workers :
             /\ DOMAIN job'[v] = {"phase", "call", "tx"}
             /\ job'[v].phase \in {"idle", "checking", "receipt", "ready", "writing"}
             /\ job'[v].phase # "writing"
      BY <1>3, <1>4, <2>4 DEF TypeOK
    <2>6. /\ client' = [k \in Clients |-> client'[k]]
          /\ \A k \in Clients :
                /\ DOMAIN client'[k] = {"phase", "cursor", "through", "floor", "next",
                                        "page", "replica"}
                /\ client'[k].phase \in {"idle", "begun", "paged", "answered"}
                /\ {client'[k].cursor, client'[k].through, client'[k].floor,
                    client'[k].next} \subseteq Nat
                /\ DOMAIN client'[k].replica \subseteq DOMAIN msgs'
                /\ client'[k].replica \in [DOMAIN client'[k].replica -> ViewType]
                /\ DOMAIN client'[k].page \subseteq DOMAIN msgs'
                /\ client'[k].page \in [DOMAIN client'[k].page -> ViewType]
      BY <1>1, <1>4 DEF TypeOK
    <2> QED BY <1>3, <1>6, <2>1, <2>2, <2>3, <2>5, <2>6 DEF TypeOK
  <1>8. Prepared'
    <2>1. \A c : CallOK(c) => CallOK(c)'
      BY <1>1 DEF CallOK
    <2>2. Idle.phase = "idle"
      BY DEF Idle
    <2> SUFFICES ASSUME NEW v \in Workers
                 PROVE  /\ job'[v].phase # "idle" => CallOK(job'[v].call)
                        /\ job'[v].phase = "receipt" =>
                               job'[v].call.op \in {"read", "delivered"}
                        /\ job'[v].phase \in {"ready", "writing"} =>
                               job'[v].call.op # "delivered"
                        /\ job'[v].phase = "checking" => job'[v].call.op = "read"
                        /\ job'[v].phase # "writing"
      BY <2>1 DEF Prepared
    <2>3. CASE v = w
      BY <1>3, <2>2, <2>3
    <2>4. CASE v # w
      BY <1>3, <1>4, <2>4 DEF Prepared
    <2> QED BY <2>3, <2>4
  <1>9. \A m \in DOMAIN msgs : msgs[m].revision \in Nat /\ msgs[m].revision <= Watermark
    BY <1>4 DEF TypeOK, Row, Covered
  <1>10. \A m \in DOMAIN tx.rows : tx.rows[m].revision \in Nat
    BY <1>5 DEF Row
  <1>11. Covered'
    <2>1. \A m1, m2 \in DOMAIN msgs' : msgs'[m1].revision = msgs'[m2].revision => m1 = m2
      <3> SUFFICES ASSUME NEW m1 \in DOMAIN msgs', NEW m2 \in DOMAIN msgs',
                          msgs'[m1].revision = msgs'[m2].revision
                   PROVE  m1 = m2
        OBVIOUS
      <3>1. CASE m1 \in DOMAIN tx.rows /\ m2 \in DOMAIN tx.rows
        BY <1>1, <3>1 DEF Legal, Numbered
      <3>2. CASE m1 \notin DOMAIN tx.rows /\ m2 \notin DOMAIN tx.rows
        BY <1>1, <1>4, <3>2 DEF Covered
      <3>3. CASE m1 \in DOMAIN tx.rows /\ m2 \notin DOMAIN tx.rows
        BY <1>1, <1>5, <1>9, <1>10, <3>3
      <3>4. CASE m1 \notin DOMAIN tx.rows /\ m2 \in DOMAIN tx.rows
        BY <1>1, <1>5, <1>9, <1>10, <3>4
      <3> QED BY <3>1, <3>2, <3>3, <3>4
    <2>2. \A m \in DOMAIN msgs' : msgs'[m].revision <= Watermark'
      BY <1>1, <1>5, <1>9, <1>10
    <2> QED BY <2>1, <2>2 DEF Covered
  <1>12. HeightsDense'
    <2>1. conv.nextHeight \in Nat /\ \A m \in DOMAIN msgs : msgs[m].height \in 1..conv.nextHeight
      BY <1>4, Numbers DEF HeightsDense
    <2>2. CASE /\ tx.conv.nextHeight = conv.nextHeight
               /\ DOMAIN tx.rows \subseteq DOMAIN msgs
               /\ \A m \in DOMAIN tx.rows : tx.rows[m].height = msgs[m].height
      <3>1. /\ DOMAIN msgs' = DOMAIN msgs
            /\ \A m \in DOMAIN msgs : msgs'[m].height = msgs[m].height
        BY <1>1, <2>2
      <3>2. \A m1, m2 \in DOMAIN msgs' : msgs'[m1].height = msgs'[m2].height => m1 = m2
        BY <1>4, <3>1 DEF HeightsDense
      <3>3. {msgs'[m].height : m \in DOMAIN msgs'} = {msgs[m].height : m \in DOMAIN msgs}
        BY <3>1
      <3> QED BY <1>1, <1>4, <2>2, <3>2, <3>3 DEF HeightsDense
    <2>3. CASE /\ tx.conv.nextHeight = conv.nextHeight + 1
               /\ \E id \in MsgIds \ DOMAIN msgs :
                     DOMAIN tx.rows = {id} /\ tx.rows[id].height = conv.nextHeight + 1
      <3>1. PICK id \in MsgIds \ DOMAIN msgs :
               DOMAIN tx.rows = {id} /\ tx.rows[id].height = conv.nextHeight + 1
        BY <2>3
      <3>2. /\ DOMAIN msgs' = DOMAIN msgs \cup {id} /\ msgs'[id].height = conv.nextHeight + 1
            /\ \A m \in DOMAIN msgs : msgs'[m] = msgs[m]
        BY <1>1, <3>1
      <3>3. \A m1, m2 \in DOMAIN msgs' : msgs'[m1].height = msgs'[m2].height => m1 = m2
        BY <1>4, <2>1, <3>1, <3>2 DEF HeightsDense
      <3>4. {msgs'[m].height : m \in DOMAIN msgs'}
              = {msgs[m].height : m \in DOMAIN msgs} \cup {conv.nextHeight + 1}
        BY <3>1, <3>2
      <3>5. {msgs[m].height : m \in DOMAIN msgs} = 1..conv.nextHeight
        BY <1>4 DEF HeightsDense
      <3>6. (1..conv.nextHeight) \cup {conv.nextHeight + 1} = 1..(conv.nextHeight + 1)
        BY <2>1
      <3>7. conv'.nextHeight = conv.nextHeight + 1
        BY <1>1, <2>3
      <3> QED BY <3>3, <3>4, <3>5, <3>6, <3>7 DEF HeightsDense
    <2> QED BY <1>1, <2>2, <2>3 DEF Legal, Stacked
  <1>13. \A m \in DOMAIN msgs', n \in Nat :
            n <= Watermark /\ msgs'[m].revision <= n =>
               m \in DOMAIN msgs /\ m \notin DOMAIN tx.rows /\ msgs'[m] = msgs[m]
    BY <1>1, <1>5, <1>10
  <1>14. \A k \in Clients : ClientUser[k] \in Users
    BY ClientsAssumption
  <1>15. SyncedPrefixExact'
    <2> SUFFICES ASSUME NEW k \in Clients
                 PROVE  /\ client'[k].cursor <= Watermark'
                        /\ \A m \in DOMAIN msgs' :
                              /\ msgs'[m].revision <= client'[k].cursor
                              /\ msgs'[m].height > ClearedFloor(ClientUser[k])'
                              /\ msgs'[m].deleted \/ m \notin due'
                              => /\ m \in DOMAIN client'[k].replica
                                 /\ client'[k].replica[m] = View(msgs'[m])
      BY DEF SyncedPrefixExact
    <2>1. client[k].cursor \in Nat /\ client[k].cursor <= Watermark
      BY <1>4 DEF TypeOK, SyncedPrefixExact
    <2>2. ASSUME NEW m \in DOMAIN msgs', msgs'[m].revision <= client[k].cursor,
                 msgs'[m].height > ClearedFloor(ClientUser[k])',
                 msgs'[m].deleted \/ m \notin due'
          PROVE  /\ m \in DOMAIN client[k].replica
                 /\ client[k].replica[m] = View(msgs'[m])
      <3>1. m \in DOMAIN msgs /\ msgs'[m] = msgs[m]
        BY <1>13, <2>1, <2>2
      <3>2. msgs[m].height > ClearedFloor(ClientUser[k])
        <4>1. msgs[m].height \in Nat
          BY <1>4, <3>1 DEF TypeOK, Row
        <4> QED BY <1>1, <1>14, <2>2, <3>1, <4>1
      <3> QED BY <1>1, <1>4, <2>2, <3>1, <3>2 DEF SyncedPrefixExact
    <2> QED BY <1>1, <2>1, <2>2
  <1>16. Pages'
    <2> SUFFICES ASSUME NEW k \in Clients
                 PROVE  LET s == client[k]
                        IN  /\ s.phase # "idle" =>
                                 /\ s.cursor <= s.through
                                 /\ s.through <= Watermark'
                                 /\ s.floor <= ClearedFloor(ClientUser[k])'
                            /\ s.phase \in {"paged", "answered"} =>
                                 /\ s.cursor <= s.next /\ s.next <= s.through
                                 /\ \A m \in DOMAIN s.page :
                                       /\ msgs'[m].revision > s.cursor
                                       /\ s.page[m].deleted => s.page[m].reactions = {}
                                 /\ \A m \in DOMAIN msgs' :
                                       /\ msgs'[m].revision > s.cursor
                                       /\ msgs'[m].revision <= s.next
                                       /\ Visible(k, m)'
                                       => /\ m \in DOMAIN s.page
                                          /\ s.page[m].content = msgs'[m].content
                                          /\ s.page[m].revoked = msgs'[m].revoked
                                          /\ s.page[m].deleted = msgs'[m].deleted
                                          /\ s.page[m].burn = msgs'[m].burn
                                          /\ s.phase = "answered" =>
                                                s.page[m].reactions = View(msgs'[m]).reactions
      BY <1>1 DEF Pages, PageOK
    <2> DEFINE s == client[k]
    <2>1. /\ s.cursor \in Nat /\ s.through \in Nat /\ s.floor \in Nat /\ s.next \in Nat
          /\ DOMAIN s.page \subseteq DOMAIN msgs
      BY <1>4 DEF TypeOK
    <2>2. ASSUME s.phase # "idle"
          PROVE  /\ s.cursor <= s.through /\ s.through <= Watermark /\ s.through <= Watermark'
                 /\ s.floor <= ClearedFloor(ClientUser[k])'
      BY <1>1, <1>4, <1>14, <2>1, <2>2 DEF Pages, PageOK
    <2>3. ASSUME s.phase \in {"paged", "answered"}
          PROVE  /\ s.cursor <= s.next /\ s.next <= s.through
                 /\ \A m \in DOMAIN s.page :
                       /\ msgs[m].revision > s.cursor
                       /\ s.page[m].deleted => s.page[m].reactions = {}
      BY <1>4, <2>3 DEF Pages, PageOK
    <2>4. ASSUME s.phase \in {"paged", "answered"}, NEW m \in DOMAIN s.page
          PROVE  msgs'[m].revision > s.cursor
      <3>1. m \in DOMAIN msgs /\ msgs[m].revision > s.cursor
        BY <2>1, <2>3, <2>4
      <3>2. s.cursor <= Watermark
        BY <1>1, <2>1, <2>2, <2>3, <2>4
      <3>3. CASE m \in DOMAIN tx.rows
        BY <1>1, <1>5, <1>10, <2>1, <3>2, <3>3
      <3>4. CASE m \notin DOMAIN tx.rows
        BY <1>1, <3>1, <3>4
      <3> QED BY <3>3, <3>4
    <2>5. ASSUME s.phase \in {"paged", "answered"}, NEW m \in DOMAIN msgs',
                 msgs'[m].revision > s.cursor, msgs'[m].revision <= s.next, Visible(k, m)'
          PROVE  /\ m \in DOMAIN s.page
                 /\ s.page[m].content = msgs'[m].content
                 /\ s.page[m].revoked = msgs'[m].revoked
                 /\ s.page[m].deleted = msgs'[m].deleted
                 /\ s.page[m].burn = msgs'[m].burn
                 /\ s.phase = "answered" => s.page[m].reactions = View(msgs'[m]).reactions
      <3>1. s.next <= Watermark
        BY <1>1, <2>1, <2>2, <2>3, <2>5
      <3>2. m \in DOMAIN msgs /\ msgs'[m] = msgs[m]
        BY <1>13, <2>1, <2>5, <3>1
      <3>3. Visible(k, m)
        <4>1. msgs[m].height \in Nat
          BY <1>4, <3>2 DEF TypeOK, Row
        <4> QED BY <1>1, <1>14, <2>5, <3>2, <4>1 DEF Visible
      <3> QED BY <1>4, <2>5, <3>2, <3>3 DEF Pages, PageOK
    <2> HIDE DEF s
    <2>6. QED BY <2>2, <2>3, <2>4, <2>5 DEF s
  <1> QED BY <1>7, <1>8, <1>11, <1>12, <1>15, <1>16 DEF IInv

\* The clock passes an expiry: an unswept message is not shown any more.
LEMMA ExpireStep ==
    ASSUME IInv, NEW e \in MsgIds, Expire(e)
    PROVE  IInv'
  <1> USE DEF rows
  <1>1. /\ due' = due \cup {e} /\ e \in DOMAIN msgs
        /\ UNCHANGED <<rows, marks, blocked, lock, job, acks, client>>
    BY DEF Expire
  <1>2. TypeOK'
    BY <1>1 DEF IInv, TypeOK, IsTx
  <1>3. Prepared'
    <2>1. \A tx : Legal(tx)' <=> Legal(tx)
      BY <1>1 DEF Legal, IsTx, Forward, Numbered, Stacked, Watermark
    <2>2. \A c : CallOK(c)' <=> CallOK(c)
      BY <1>1 DEF CallOK
    <2> QED BY <1>1, <2>1, <2>2 DEF IInv, Prepared
  <1>4. Covered'
    BY <1>1 DEF IInv, Covered, Watermark
  <1>5. HeightsDense'
    BY <1>1 DEF IInv, HeightsDense
  <1>6. \A k, m : Visible(k, m)' => Visible(k, m)
    BY <1>1 DEF Visible, ClearedFloor
  <1>7. \A k, s : PageOK(k, s) => PageOK(k, s)'
    BY <1>1, <1>6 DEF PageOK, ClearedFloor, Watermark, View
  <1>8. Pages'
    BY <1>1, <1>7 DEF IInv, Pages
  <1>9. SyncedPrefixExact'
    BY <1>1 DEF IInv, SyncedPrefixExact, ClearedFloor, Watermark, View
  <1> QED BY <1>2, <1>3, <1>4, <1>5, <1>8, <1>9 DEF IInv

\* Blocking changes nothing the invariant speaks of.
LEMMA ToggleBlockStep ==
    ASSUME IInv, ToggleBlock
    PROVE  IInv'
  <1> USE DEF rows
  <1>1. /\ blocked' = ~blocked
        /\ UNCHANGED <<rows, marks, due, lock, job, acks, client>>
    BY DEF ToggleBlock
  <1>2. blocked' \in BOOLEAN
    BY <1>1 DEF IInv, TypeOK
  <1>3. TypeOK'
    BY <1>1, <1>2 DEF IInv, TypeOK, IsTx
  <1>4. Prepared'
    <2>1. \A tx : Legal(tx)' <=> Legal(tx)
      BY <1>1 DEF Legal, IsTx, Forward, Numbered, Stacked, Watermark
    <2>2. \A c : CallOK(c)' <=> CallOK(c)
      BY <1>1 DEF CallOK
    <2> QED BY <1>1, <2>1, <2>2 DEF IInv, Prepared
  <1> QED BY <1>1, <1>3, <1>4, RowsFrame DEF IInv

\* The shape of one device.
DeviceOK(s) ==
    /\ DOMAIN s = {"phase", "cursor", "through", "floor", "next", "page", "replica"}
    /\ s.phase \in {"idle", "begun", "paged", "answered"}
    /\ s.cursor \in Nat /\ s.through \in Nat /\ s.floor \in Nat /\ s.next \in Nat
    /\ DOMAIN s.replica \subseteq DOMAIN msgs
    /\ s.replica \in [DOMAIN s.replica -> ViewType]
    /\ DOMAIN s.page \subseteq DOMAIN msgs
    /\ s.page \in [DOMAIN s.page -> ViewType]

\* SyncedPrefixExact for one device.
PrefixOK(k, s) ==
    /\ s.cursor <= Watermark
    /\ \A m \in DOMAIN msgs :
          msgs[m].revision <= s.cursor /\ Visible(k, m) =>
             m \in DOMAIN s.replica /\ s.replica[m] = View(msgs[m])

\* The invariant of one device.
LEMMA DeviceInv ==
    ASSUME IInv, NEW k \in Clients
    PROVE  /\ DeviceOK(client[k]) /\ PageOK(k, client[k]) /\ PrefixOK(k, client[k])
           /\ Watermark \in Nat /\ ClientUser[k] \in Users
           /\ ClearedFloor(ClientUser[k]) \in Nat
           /\ \A m \in DOMAIN msgs : /\ msgs[m] \in Row
                                     /\ msgs[m].revision \in Nat /\ msgs[m].height \in Nat
                                     /\ View(msgs[m]) \in ViewType
  <1>1. DeviceOK(client[k])
    BY DEF IInv, TypeOK, DeviceOK
  <1>2. PageOK(k, client[k])
    BY DEF IInv, Pages
  <1>3. PrefixOK(k, client[k])
    BY DEF IInv, SyncedPrefixExact, PrefixOK, Visible
  <1>4. ClientUser[k] \in Users
    BY ClientsAssumption
  <1>5. ClearedFloor(ClientUser[k]) \in Nat
    BY <1>4 DEF IInv, TypeOK, Conversation, Seat, ClearedFloor, Max2
  <1>6. \A m \in DOMAIN msgs : /\ msgs[m] \in Row
                               /\ msgs[m].revision \in Nat /\ msgs[m].height \in Nat
                               /\ View(msgs[m]) \in ViewType
    BY DEF IInv, TypeOK, Row, View, ViewType
  <1> QED BY <1>1, <1>2, <1>3, <1>4, <1>5, <1>6, Numbers DEF IInv

\* A step of one device.
LEMMA DeviceStep ==
    ASSUME IInv, NEW k \in Clients,
           UNCHANGED <<rows, marks, blocked, due, lock, job, acks>>,
           client' = [client EXCEPT ![k] = client'[k]],
           DeviceOK(client'[k]), PageOK(k, client'[k]), PrefixOK(k, client'[k])
    PROVE  IInv'
  <1> USE DEF rows
  <1>1. /\ client' = [j \in Clients |-> client'[j]]
        /\ \A j \in Clients \ {k} : client'[j] = client[j]
    BY DEF IInv, TypeOK
  <1>2. \A j \in Clients : /\ DeviceOK(client'[j]) /\ PageOK(j, client'[j])
                           /\ PrefixOK(j, client'[j])
    BY <1>1, DeviceInv
  <1>3. \A j, s : /\ PageOK(j, s)' <=> PageOK(j, s)
                  /\ PrefixOK(j, s)' <=> PrefixOK(j, s)
    <2>1. \A j, s : PageOK(j, s)' <=> PageOK(j, s)
      BY DEF PageOK, Visible, ClearedFloor, Watermark
    <2>2. \A j, s : PrefixOK(j, s)' <=> PrefixOK(j, s)
      BY DEF PrefixOK, Visible, ClearedFloor, Watermark
    <2> QED BY <2>1, <2>2
  <1>4. Covered' /\ HeightsDense'
    BY DEF IInv, Covered, HeightsDense, Watermark
  <1>5. Prepared'
    <2>1. \A tx : Legal(tx)' <=> Legal(tx)
      BY DEF Legal, IsTx, Forward, Numbered, Stacked, Watermark
    <2>2. \A c : CallOK(c)' <=> CallOK(c)
      BY DEF CallOK
    <2> QED BY <2>1, <2>2 DEF IInv, Prepared
  <1>6. Pages'
    BY <1>2, <1>3 DEF Pages
  <1>7. SyncedPrefixExact'
    BY <1>2, <1>3 DEF SyncedPrefixExact, PrefixOK, Visible
  <1>8. TypeOK'
    <2>1. \A j \in Clients : DeviceOK(client'[j])
      BY <1>2
    <2>2. \A w \in Workers :
             /\ DOMAIN job'[w] = {"phase", "call", "tx"}
             /\ job'[w].phase \in {"idle", "checking", "receipt", "ready", "writing"}
             /\ job'[w].phase = "writing" => IsTx(job'[w].tx)
      BY DEF IInv, TypeOK
    <2> QED BY <1>1, <2>1, <2>2 DEF IInv, TypeOK, DeviceOK
  <1> QED BY <1>4, <1>5, <1>6, <1>7, <1>8 DEF IInv

\* The seat and the watermark are read.
LEMMA SyncBeginStep ==
    ASSUME IInv, NEW k \in Clients, SyncBegin(k)
    PROVE  IInv'
  <1> DEFINE s == client[k]
             t == [[[s EXCEPT !.phase = "begun"] EXCEPT !.through = Watermark]
                     EXCEPT !.floor = ClearedFloor(ClientUser[k])]
  <1>1. /\ DeviceOK(s) /\ PageOK(k, s) /\ PrefixOK(k, s)
        /\ Watermark \in Nat /\ ClearedFloor(ClientUser[k]) \in Nat
    BY DeviceInv
  <1>2. /\ client' = [client EXCEPT ![k] = t]
        /\ UNCHANGED <<rows, marks, blocked, due, lock, job, acks>>
    BY DEF SyncBegin
  <1>3. client'[k] = t /\ client' = [client EXCEPT ![k] = client'[k]]
    BY <1>2 DEF IInv, TypeOK
  <1>4. /\ DOMAIN t = DOMAIN s /\ t.phase = "begun" /\ t.through = Watermark
        /\ t.floor = ClearedFloor(ClientUser[k]) /\ t.cursor = s.cursor
        /\ t.next = s.next /\ t.page = s.page /\ t.replica = s.replica
    BY <1>1 DEF DeviceOK
  <1> HIDE DEF s, t
  <1>5. DeviceOK(t)
    BY <1>1, <1>4 DEF DeviceOK
  <1>6. PrefixOK(k, t)
    BY <1>1, <1>4 DEF PrefixOK
  <1>7. PageOK(k, t)
    BY <1>1, <1>4 DEF PageOK, PrefixOK
  <1> QED BY <1>2, <1>3, <1>5, <1>6, <1>7, DeviceStep

\* The rows changed after the cursor are read: none that the answer vouches
\* for is left out, although the page may be full.
LEMMA SyncPageStep ==
    ASSUME IInv, NEW k \in Clients, SyncPage(k)
    PROVE  IInv'
  <1> DEFINE s == client[k]
             found == {m \in DOMAIN msgs : /\ msgs[m].revision > s.cursor
                                           /\ msgs[m].revision <= s.through}
             before(m) == {j \in found : msgs[j].revision < msgs[m].revision}
             page == {m \in found : Cardinality(before(m)) < PageSize}
             shown == {m \in page : /\ msgs[m].height > s.floor
                                    /\ msgs[m].deleted \/ m \notin due}
             copy == [m \in shown |-> View(msgs[m])]
  <1>1. PICK next \in IF page = found THEN {s.through}
                       ELSE {msgs[m].revision : m \in page} :
            /\ \A m \in page : msgs[m].revision <= next
            /\ client' = [client EXCEPT ![k].phase = "paged", ![k].next = next,
                                        ![k].page = copy]
    BY DEF SyncPage
  <1>2. /\ s.phase = "begun" /\ UNCHANGED <<rows, marks, blocked, due, lock, job, acks>>
    BY DEF SyncPage
  <1> DEFINE t == [[[s EXCEPT !.phase = "paged"] EXCEPT !.next = next] EXCEPT !.page = copy]
  <1>3. client'[k] = t /\ client' = [client EXCEPT ![k] = client'[k]]
    BY <1>1 DEF IInv, TypeOK
  <1>4. /\ DeviceOK(s) /\ PageOK(k, s) /\ PrefixOK(k, s)
        /\ Watermark \in Nat /\ ClearedFloor(ClientUser[k]) \in Nat
        /\ \A m \in DOMAIN msgs : /\ msgs[m].revision \in Nat /\ msgs[m].height \in Nat
                                  /\ View(msgs[m]) \in ViewType
    BY DeviceInv
  <1>5. /\ s.cursor \in Nat /\ s.through \in Nat /\ s.floor \in Nat
        /\ s.cursor <= s.through /\ s.through <= Watermark
        /\ s.floor <= ClearedFloor(ClientUser[k])
    BY <1>2, <1>4 DEF DeviceOK, PageOK
  <1>6. /\ DOMAIN t = DOMAIN s /\ t.phase = "paged" /\ t.next = next /\ t.page = copy
        /\ t.cursor = s.cursor /\ t.through = s.through /\ t.floor = s.floor
        /\ t.replica = s.replica
    BY <1>4 DEF DeviceOK
  <1>7. next \in Nat /\ s.cursor <= next /\ next <= s.through
    <2>1. CASE page = found
      BY <1>1, <1>5, <2>1
    <2>2. CASE page # found
      <3>1. PICK n \in page : next = msgs[n].revision
        BY <1>1, <2>2
      <3>2. n \in found
        OBVIOUS
      <3> QED BY <1>4, <1>5, <3>1, <3>2
    <2> QED BY <2>1, <2>2
  <1>8. ASSUME NEW m \in found, msgs[m].revision <= next
        PROVE  m \in page
    <2>1. CASE page = found
      BY <2>1
    <2>2. CASE page # found
      <3>1. PICK n \in page : next = msgs[n].revision
        BY <1>1, <2>2
      <3>2. before(m) \subseteq before(n)
        BY <1>4, <1>8, <3>1
      <3>3. before(n) \in SUBSET MsgIds
        BY DEF IInv, TypeOK
      <3>4. /\ IsFiniteSet(before(n)) /\ Cardinality(before(n)) \in Nat
            /\ Cardinality(before(m)) \in Nat
        BY <3>2, <3>3, Numbers DEF IInv
      <3>5. Cardinality(before(m)) <= Cardinality(before(n))
        BY <3>2, <3>4, FS_Subset
      <3>6. Cardinality(before(n)) < PageSize
        OBVIOUS
      <3> QED BY <3>4, <3>5, <3>6, BoundsAssumption
    <2> QED BY <2>1, <2>2
  <1>9. /\ shown \subseteq found /\ shown \subseteq DOMAIN msgs
        /\ DOMAIN copy = shown /\ copy \in [shown -> ViewType]
        /\ \A m \in shown : copy[m] = View(msgs[m])
    BY <1>4
  <1>10. ASSUME NEW m \in DOMAIN msgs, msgs[m].revision > s.cursor,
                msgs[m].revision <= next, Visible(k, m)
         PROVE  m \in shown
    <2>1. m \in found
      BY <1>4, <1>5, <1>7, <1>10
    <2>2. m \in page
      BY <1>8, <1>10, <2>1
    <2>3. msgs[m].height > s.floor /\ (msgs[m].deleted \/ m \notin due)
      BY <1>4, <1>5, <1>10 DEF Visible
    <2> QED BY <2>2, <2>3
  <1>11. \A m \in shown : msgs[m].revision > s.cursor
    OBVIOUS
  <1> HIDE DEF s, t, copy, shown, page, found
  <1>12. DeviceOK(t)
    BY <1>4, <1>6, <1>7, <1>9 DEF DeviceOK
  <1>13. PrefixOK(k, t)
    BY <1>4, <1>6 DEF PrefixOK
  <1>14. PageOK(k, t)
    <2>1. \A m \in shown : /\ copy[m].content = msgs[m].content
                           /\ copy[m].revoked = msgs[m].revoked
                           /\ copy[m].deleted = msgs[m].deleted
                           /\ copy[m].burn = msgs[m].burn
                           /\ copy[m].deleted => copy[m].reactions = {}
      BY <1>9 DEF View
    <2> QED BY <1>5, <1>6, <1>7, <1>9, <1>10, <1>11, <2>1 DEF PageOK
  <1> QED BY <1>2, <1>3, <1>12, <1>13, <1>14, DeviceStep

\* The reactions of the page are read.
LEMMA SyncReactionsStep ==
    ASSUME IInv, NEW k \in Clients, SyncReactions(k)
    PROVE  IInv'
  <1> DEFINE s == client[k]
             copy == [m \in DOMAIN s.page |->
                         IF s.page[m].deleted THEN s.page[m]
                         ELSE [s.page[m] EXCEPT !.reactions = msgs[m].reactions]]
             t == [[s EXCEPT !.phase = "answered"] EXCEPT !.page = copy]
  <1>1. /\ client' = [client EXCEPT ![k] = t] /\ s.phase = "paged"
        /\ UNCHANGED <<rows, marks, blocked, due, lock, job, acks>>
    BY DEF SyncReactions
  <1>2. client'[k] = t /\ client' = [client EXCEPT ![k] = client'[k]]
    BY <1>1 DEF IInv, TypeOK
  <1>3. /\ DeviceOK(s) /\ PageOK(k, s) /\ PrefixOK(k, s)
        /\ \A m \in DOMAIN msgs : msgs[m] \in Row
    BY DeviceInv
  <1>4. /\ DOMAIN t = DOMAIN s /\ t.phase = "answered" /\ t.page = copy
        /\ t.cursor = s.cursor /\ t.through = s.through /\ t.floor = s.floor
        /\ t.next = s.next /\ t.replica = s.replica
    BY <1>3 DEF DeviceOK
  <1>5. ASSUME NEW m \in DOMAIN s.page
        PROVE  /\ copy[m] \in ViewType
               /\ copy[m].content = s.page[m].content
               /\ copy[m].revoked = s.page[m].revoked
               /\ copy[m].deleted = s.page[m].deleted
               /\ copy[m].burn = s.page[m].burn
               /\ copy[m].reactions = IF s.page[m].deleted THEN s.page[m].reactions
                                      ELSE msgs[m].reactions
    <2>1. s.page[m] \in ViewType /\ msgs[m] \in Row
      BY <1>3 DEF DeviceOK
    <2>2. msgs[m].reactions \in SUBSET Users
      BY <2>1 DEF Row
    <2>3. copy[m] = IF s.page[m].deleted THEN s.page[m]
                    ELSE [s.page[m] EXCEPT !.reactions = msgs[m].reactions]
      OBVIOUS
    <2> HIDE DEF s, copy
    <2> QED BY <2>1, <2>2, <2>3 DEF ViewType
  <1>6. DOMAIN copy = DOMAIN s.page /\ copy = [m \in DOMAIN s.page |-> copy[m]]
    OBVIOUS
  <1> HIDE DEF s, t, copy
  <1>7. copy \in [DOMAIN copy -> ViewType]
    BY <1>5, <1>6
  <1>8. DeviceOK(t)
    BY <1>3, <1>4, <1>6, <1>7 DEF DeviceOK
  <1>9. PrefixOK(k, t)
    BY <1>3, <1>4 DEF PrefixOK
  <1>10. PageOK(k, t)
    <2>1. \A m \in DOMAIN copy : /\ msgs[m].revision > s.cursor
                                 /\ copy[m].deleted => copy[m].reactions = {}
      BY <1>1, <1>3, <1>5, <1>6 DEF PageOK
    <2>2. ASSUME NEW m \in DOMAIN msgs, msgs[m].revision > s.cursor,
                 msgs[m].revision <= s.next, Visible(k, m)
          PROVE  /\ m \in DOMAIN copy
                 /\ copy[m].content = msgs[m].content
                 /\ copy[m].revoked = msgs[m].revoked
                 /\ copy[m].deleted = msgs[m].deleted
                 /\ copy[m].burn = msgs[m].burn
                 /\ copy[m].reactions = View(msgs[m]).reactions
      <3>1. /\ m \in DOMAIN s.page
            /\ s.page[m].content = msgs[m].content
            /\ s.page[m].revoked = msgs[m].revoked
            /\ s.page[m].deleted = msgs[m].deleted
            /\ s.page[m].burn = msgs[m].burn
            /\ s.page[m].deleted => s.page[m].reactions = {}
        BY <1>1, <1>3, <2>2 DEF PageOK
      <3>2. View(msgs[m]).reactions = IF msgs[m].deleted THEN {} ELSE msgs[m].reactions
        BY DEF View
      <3> QED BY <1>5, <1>6, <3>1, <3>2
    <2> QED BY <1>1, <1>3, <1>4, <2>1, <2>2 DEF PageOK
  <1> QED BY <1>1, <1>2, <1>8, <1>9, <1>10, DeviceStep

\* The answer is lost.
LEMMA SyncLostStep ==
    ASSUME IInv, NEW k \in Clients, SyncLost(k)
    PROVE  IInv'
  <1> DEFINE s == client[k]
             t == Between(s)
  <1>1. /\ client' = [client EXCEPT ![k] = t]
        /\ UNCHANGED <<rows, marks, blocked, due, lock, job, acks>>
    BY DEF SyncLost
  <1>2. client'[k] = t /\ client' = [client EXCEPT ![k] = client'[k]]
    BY <1>1 DEF IInv, TypeOK
  <1>3. DeviceOK(s) /\ PrefixOK(k, s)
    BY DeviceInv
  <1>4. /\ DOMAIN t = DOMAIN s /\ t.phase = "idle" /\ DOMAIN t.page = {}
        /\ t.page \in [{} -> ViewType]
        /\ t.cursor = s.cursor /\ t.through = 0 /\ t.floor = 0 /\ t.next = 0
        /\ t.replica = s.replica
    BY <1>3 DEF DeviceOK, Between
  <1> HIDE DEF s, t
  <1>5. DeviceOK(t)
    BY <1>3, <1>4 DEF DeviceOK
  <1>6. PrefixOK(k, t)
    BY <1>3, <1>4 DEF PrefixOK
  <1>7. PageOK(k, t)
    BY <1>4 DEF PageOK
  <1> QED BY <1>1, <1>2, <1>5, <1>6, <1>7, DeviceStep

\* The answer is applied: together with the copy the device had, the page
\* covers every row up to the new cursor.
LEMMA SyncDeliverStep ==
    ASSUME IInv, NEW k \in Clients, SyncDeliver(k)
    PROVE  IInv'
  <1> DEFINE s == client[k]
             kept == {m \in DOMAIN s.replica : msgs[m].height > s.floor}
             new == Overlay(s.page, [m \in kept |-> s.replica[m]])
             t == [[Between(s) EXCEPT !.cursor = s.next] EXCEPT !.replica = new]
  <1>1. /\ client' = [client EXCEPT ![k] = t] /\ s.phase = "answered"
        /\ UNCHANGED <<rows, marks, blocked, due, lock, job, acks>>
    BY DEF SyncDeliver
  <1>2. client'[k] = t /\ client' = [client EXCEPT ![k] = client'[k]]
    BY <1>1 DEF IInv, TypeOK
  <1>3. /\ DeviceOK(s) /\ PageOK(k, s) /\ PrefixOK(k, s)
        /\ Watermark \in Nat /\ ClearedFloor(ClientUser[k]) \in Nat
        /\ \A m \in DOMAIN msgs : /\ msgs[m] \in Row
                                  /\ msgs[m].revision \in Nat /\ msgs[m].height \in Nat
    BY DeviceInv
  <1>4. /\ DOMAIN t = DOMAIN s /\ t.phase = "idle" /\ DOMAIN t.page = {}
        /\ t.page \in [{} -> ViewType]
        /\ t.cursor = s.next /\ t.through = 0 /\ t.floor = 0 /\ t.next = 0
        /\ t.replica = new
    BY <1>3 DEF DeviceOK, Between
  <1>5. /\ DOMAIN new = DOMAIN s.page \cup kept
        /\ \A m \in DOMAIN s.page : new[m] = s.page[m]
        /\ \A m \in kept \ DOMAIN s.page : new[m] = s.replica[m]
        /\ new = [m \in DOMAIN new |-> new[m]]
    BY DEF Overlay
  <1>6. kept \subseteq DOMAIN s.replica
    OBVIOUS
  <1>7. /\ s.cursor <= s.next /\ s.next <= s.through /\ s.through <= Watermark
        /\ s.floor <= ClearedFloor(ClientUser[k])
        /\ s.cursor \in Nat /\ s.next \in Nat /\ s.through \in Nat /\ s.floor \in Nat
    BY <1>1, <1>3 DEF PageOK, DeviceOK
  <1>8. ASSUME NEW m \in DOMAIN msgs, msgs[m].revision <= s.next, Visible(k, m)
        PROVE  m \in DOMAIN new /\ new[m] = View(msgs[m])
    <2>1. CASE msgs[m].revision > s.cursor
      <3>1. /\ m \in DOMAIN s.page
            /\ s.page[m].content = msgs[m].content
            /\ s.page[m].revoked = msgs[m].revoked
            /\ s.page[m].deleted = msgs[m].deleted
            /\ s.page[m].burn = msgs[m].burn
            /\ s.page[m].reactions = View(msgs[m]).reactions
        BY <1>1, <1>3, <1>8, <2>1 DEF PageOK
      <3>2. s.page[m] \in ViewType
        BY <1>3, <3>1 DEF DeviceOK
      <3>3. s.page[m] = View(msgs[m])
        BY <3>1, <3>2 DEF View, ViewType
      <3> QED BY <1>5, <3>1, <3>3
    <2>2. CASE ~(msgs[m].revision > s.cursor)
      <3>1. msgs[m].revision <= s.cursor
        BY <1>3, <1>7, <2>2
      <3>2. m \in DOMAIN s.replica /\ s.replica[m] = View(msgs[m])
        BY <1>3, <1>8, <3>1 DEF PrefixOK
      <3>3. m \notin DOMAIN s.page
        BY <1>1, <1>3, <2>2 DEF PageOK
      <3>4. m \in kept
        BY <1>3, <1>7, <1>8, <3>2 DEF Visible
      <3> QED BY <1>5, <3>2, <3>3, <3>4
    <2> QED BY <2>1, <2>2
  <1> HIDE DEF s, t, new, kept
  <1>9. DOMAIN new \subseteq DOMAIN msgs /\ new \in [DOMAIN new -> ViewType]
    <2>1. \A m \in DOMAIN new : new[m] \in ViewType
      BY <1>3, <1>5, <1>6 DEF DeviceOK
    <2> QED BY <1>3, <1>5, <1>6, <2>1 DEF DeviceOK
  <1>10. DeviceOK(t)
    BY <1>3, <1>4, <1>7, <1>9 DEF DeviceOK
  <1>11. PrefixOK(k, t)
    BY <1>3, <1>4, <1>7, <1>8 DEF PrefixOK
  <1>12. PageOK(k, t)
    BY <1>4 DEF PageOK
  <1> QED BY <1>1, <1>2, <1>10, <1>11, <1>12, DeviceStep

-----------------------------------------------------------------------------
(* The invariant holds, and with it what the runs check.                    *)

\* A conversation starts with nobody at work and the messages it had before
\* the revision stream existed.
LEMMA InitIInv ==
    ASSUME Init
    PROVE  IInv
  <1>0. PICK ids \in SUBSET MsgIds, u \in Users, t \in Texts :
            \E h \in [ids -> 1..Legacy] :
               /\ {h[m] : m \in ids} = 1..Legacy
               /\ \A m1, m2 \in ids : h[m1] = h[m2] => m1 = m2
               /\ msgs = [m \in ids |->
                     [height |-> h[m], revision |-> h[m], sender |-> u, type |-> "text",
                      d |-> None, requestHash |-> None, content |-> t,
                      contentHistory |-> <<>>, revoked |-> FALSE, deleted |-> FALSE,
                      burn |-> "none", reactions |-> {}]]
    BY DEF Init, backfill_revision
  <1>1. PICK h \in [ids -> 1..Legacy] :
            /\ {h[m] : m \in ids} = 1..Legacy
            /\ \A m1, m2 \in ids : h[m1] = h[m2] => m1 = m2
            /\ msgs = [m \in ids |->
                  [height |-> h[m], revision |-> h[m], sender |-> u, type |-> "text",
                   d |-> None, requestHash |-> None, content |-> t,
                   contentHistory |-> <<>>, revoked |-> FALSE, deleted |-> FALSE,
                   burn |-> "none", reactions |-> {}]]
    BY <1>0
  <1>2. /\ DOMAIN msgs = ids /\ ids \subseteq MsgIds
        /\ \A m \in ids : /\ msgs[m].height = h[m] /\ msgs[m].revision = h[m]
                          /\ h[m] \in 1..Legacy
    BY <1>1
  <1>3. msgs \in [DOMAIN msgs -> Row]
    <2>1. <<>> \in Seq(Bodies) /\ t \in Bodies /\ Legacy \in Nat
      BY BoundsAssumption DEF Bodies
    <2>2. \A m \in ids : h[m] \in Nat \ {0} /\ h[m] \in Nat
      BY <1>2, <2>1
    <2>3. \A m \in ids :
             [height |-> h[m], revision |-> h[m], sender |-> u, type |-> "text",
              d |-> None, requestHash |-> None, content |-> t,
              contentHistory |-> <<>>, revoked |-> FALSE, deleted |-> FALSE,
              burn |-> "none", reactions |-> {}] \in Row
      BY <2>1, <2>2 DEF Row
    <2> QED BY <1>1, <2>3
  <1> HIDE <1>0
  <1> HIDE <1>1
  <1>4. /\ conv \in Conversation /\ conv.nextHeight = Legacy /\ conv.nextRevision = 0
        /\ Watermark = Legacy /\ Legacy \in Nat
    <2>1. Blank \in Bodies
      BY DEF Bodies
    <2>2. /\ conv \in Conversation /\ conv.nextHeight = Legacy /\ conv.nextRevision = 0
      <3>1. conv \in [type: Kinds, nextHeight: {Legacy}, nextRevision: {0},
                      cleared: {0}, muteAll: {FALSE}, pinned: {None}, preview: {Blank}]
        BY DEF Init
      <3>2. /\ conv.type \in Kinds /\ conv.nextHeight = Legacy /\ conv.nextRevision = 0
            /\ conv.cleared = 0 /\ conv.muteAll = FALSE /\ conv.pinned = None
            /\ conv.preview = Blank
        BY <3>1
      <3>3. conv = [type |-> conv.type, nextHeight |-> conv.nextHeight,
                    nextRevision |-> conv.nextRevision, cleared |-> conv.cleared,
                    muteAll |-> conv.muteAll, pinned |-> conv.pinned,
                    preview |-> conv.preview]
        BY <3>1
      <3>4. Legacy \in Nat /\ 0 \in Nat /\ FALSE \in BOOLEAN
        BY BoundsAssumption
      <3> QED BY <2>1, <3>2, <3>3, <3>4 DEF Conversation
    <2> QED BY <2>2, BoundsAssumption DEF Watermark, conversationSyncRevision, Max2
  <1>5. \A w \in Workers : job[w] = Idle /\ Idle.phase = "idle"
                           /\ DOMAIN Idle = {"phase", "call", "tx"}
    BY DEF Init, Idle
  <1>6. \A k \in Clients :
           /\ DOMAIN client[k] = {"phase", "cursor", "through", "floor", "next",
                                  "page", "replica"}
           /\ client[k].phase = "idle" /\ client[k].cursor = 0 /\ client[k].through = 0
           /\ client[k].floor = 0 /\ client[k].next = 0
           /\ DOMAIN client[k].page = {} /\ DOMAIN client[k].replica = {}
           /\ client[k].page \in [{} -> ViewType]
           /\ client[k].replica \in [{} -> ViewType]
    BY DEF Init
  <1>7. TypeOK
    <2>1. seats \in [Users -> Seat] /\ marks \in [Users -> [read: Nat, delivered: Nat]]
      BY DEF Init, Seat
    <2>2. /\ blocked \in BOOLEAN /\ due \subseteq DOMAIN msgs /\ lock \in Workers \cup {None}
          /\ job = [w \in Workers |-> job[w]] /\ client = [k \in Clients |-> client[k]]
      BY DEF Init
    <2> QED BY <1>2, <1>3, <1>4, <1>5, <1>6, <2>1, <2>2 DEF TypeOK
  <1>8. Prepared
    BY <1>5 DEF Prepared
  <1>9. \A m1, m2 \in ids : h[m1] = h[m2] => m1 = m2
    BY <1>1
  <1>10. {h[m] : m \in ids} = 1..Legacy
    BY <1>1
  <1>11. Covered
    BY <1>2, <1>4, <1>9 DEF Covered
  <1>12. HeightsDense
    <2>1. {msgs[m].height : m \in DOMAIN msgs} = {h[m] : m \in ids}
      BY <1>2
    <2> QED BY <1>2, <1>4, <1>9, <1>10, <2>1 DEF HeightsDense
  <1>13. Pages
    BY <1>6 DEF Pages, PageOK
  <1>14. SyncedPrefixExact
    <2>1. \A m \in DOMAIN msgs : ~(msgs[m].revision <= 0)
      BY <1>2, <1>4
    <2> QED BY <1>4, <1>6, <2>1 DEF SyncedPrefixExact
  <1> QED BY <1>7, <1>8, <1>11, <1>12, <1>13, <1>14 DEF IInv

\* Every step keeps the invariant.
LEMMA NextIInv ==
    ASSUME IInv, [Next]_vars
    PROVE  IInv'
  <1>1. ASSUME NEW w \in Workers, Request(w)
        PROVE  IInv'
    BY <1>1, RequestStep
  <1>2. ASSUME NEW w \in Workers, CheckReadTimers(w)
        PROVE  IInv'
    BY <1>2, CheckReadTimersStep
  <1>3. ASSUME NEW w \in Workers, WriteReceipt(w) \/ Refuse(w) \/ Fail(w)
        PROVE  IInv'
    BY <1>3, EndStep
  <1>4. ASSUME NEW w \in Workers, LockRow(w)
        PROVE  IInv'
    BY <1>4, LockRowStep
  <1>5. ASSUME NEW w \in Workers, Commit(w)
        PROVE  IInv'
    BY <1>5, CommitStep
  <1>6. ASSUME NEW m \in MsgIds, Expire(m)
        PROVE  IInv'
    BY <1>6, ExpireStep
  <1>7. CASE ToggleBlock
    BY <1>7, ToggleBlockStep
  <1>8. ASSUME NEW k \in Clients, SyncBegin(k)
        PROVE  IInv'
    BY <1>8, SyncBeginStep
  <1>9. ASSUME NEW k \in Clients, SyncPage(k)
        PROVE  IInv'
    BY <1>9, SyncPageStep
  <1>10. ASSUME NEW k \in Clients, SyncReactions(k)
         PROVE  IInv'
    BY <1>10, SyncReactionsStep
  <1>11. ASSUME NEW k \in Clients, SyncDeliver(k)
         PROVE  IInv'
    BY <1>11, SyncDeliverStep
  <1>12. ASSUME NEW k \in Clients, SyncLost(k)
         PROVE  IInv'
    BY <1>12, SyncLostStep
  <1>13. CASE UNCHANGED vars
    <2>1. /\ UNCHANGED <<rows, due, client>> /\ UNCHANGED <<marks, blocked, lock, job, acks>>
      BY <1>13 DEF vars, rows
    <2>2. TypeOK'
      BY <2>1 DEF IInv, TypeOK, IsTx, rows
    <2>3. Prepared'
      <3>1. \A tx : Legal(tx)' <=> Legal(tx)
        BY <2>1 DEF rows, Legal, IsTx, Forward, Numbered, Stacked, Watermark
      <3>2. \A c : CallOK(c)' <=> CallOK(c)
        BY <2>1 DEF rows, CallOK
      <3> QED BY <2>1, <3>1, <3>2 DEF IInv, Prepared
    <2> QED BY <2>1, <2>2, <2>3, RowsFrame DEF IInv
  <1> QED BY <1>1, <1>2, <1>3, <1>4, <1>5, <1>6, <1>7, <1>8, <1>9, <1>10,
             <1>11, <1>12, <1>13 DEF Next

\* The state always has its shape, pending transactions included.
THEOREM TypeCorrect == Spec => []TypeOK
  <1>1. IInv => TypeOK
    BY DEF IInv
  <1> QED BY <1>1, InitIInv, NextIInv, PTL DEF Spec

\* Heights are allocated without gaps or twins (nextHeight under the row lock).
THEOREM HeightsAreDense == Spec => []HeightsDense
  <1>1. IInv => HeightsDense
    BY DEF IInv
  <1> QED BY <1>1, InitIInv, NextIInv, PTL DEF Spec

\* The watermark read by a sync request covers every committed change up to
\* it, and nothing uncommitted will ever be numbered at or below it.
THEOREM WatermarkIsSafe == Spec => []WatermarkCoversCommitted
  <1>1. IInv => WatermarkCoversCommitted
    BY DEF IInv, Covered, Prepared, Legal, Numbered, WatermarkCoversCommitted
  <1> QED BY <1>1, InitIInv, NextIInv, PTL DEF Spec

\* A device that synced to its cursor has the prefix exactly as it is, for
\* any page size, any overlap of the three reads with other requests, and any
\* answers lost.
THEOREM DevicesAreExact == Spec => []SyncedPrefixExact
  <1>1. IInv => SyncedPrefixExact
    BY DEF IInv
  <1> QED BY <1>1, InitIInv, NextIInv, PTL DEF Spec



-----------------------------------------------------------------------------
(* The messages and the marks on them.                                      *)

\* The message rows as they will be when tx is committed.
After(tx) == Overlay(tx.rows, msgs)

\* What any change of a message keeps of its earlier row s: its identity,
\* that it was revoked or burned and has no text then, and the course of its
\* timer.
Succeeds(r, s) ==
    /\ r.height = s.height /\ r.sender = s.sender /\ r.d = s.d
    /\ r.requestHash = s.requestHash
    /\ s.revoked => r.revoked
    /\ s.deleted => r.deleted
    /\ s.burn = "running" => r.burn = "running"
    /\ s.burn = "none" => r.burn = "none"
    /\ r.revoked \/ r.deleted => r.content = Blank
    /\ r.deleted => r.contentHistory = <<>>

\* A message just written: the next one, alive, armed only in a direct chat,
\* and the only one of its sender with its delivery id.
Fresh(r) ==
    /\ r.height = conv.nextHeight + 1
    /\ ~r.revoked /\ ~r.deleted
    /\ r.burn = "armed" => Kind = "DIRECT"
    /\ r.d # None => SentAs(r.sender, r.d) = {}

\* The banner of c shows a row of M that lives and cannot burn.
Shows(c, M) ==
    c.pinned # None =>
        /\ c.pinned \in DOMAIN M
        /\ ~M[c.pinned].revoked /\ ~M[c.pinned].deleted
        /\ M[c.pinned].burn = "none"
        /\ c.preview = M[c.pinned].content

Stored(a, M) ==
    /\ a.id \in DOMAIN M
    /\ M[a.id].sender = a.user /\ M[a.id].d = a.d
    /\ M[a.id].requestHash \in {None, a.text}

\* A reader's timer for row r still waits.
Waits(u, r) == r.sender # u /\ ~r.deleted /\ ~r.revoked /\ r.burn = "armed"

\* The message rows of an effect.
SoundRows(tx) ==
    /\ DOMAIN msgs \subseteq DOMAIN After(tx)
    /\ \A m \in DOMAIN msgs : Succeeds(After(tx)[m], msgs[m])
    /\ \A m \in DOMAIN After(tx) \ DOMAIN msgs : Fresh(After(tx)[m])
    /\ Shows(tx.conv, After(tx))
    /\ \A a \in tx.acks : Stored(a, After(tx))

\* The marks and clear levels of an effect: no timer that a mark passes is
\* left waiting.
SoundMarks(tx) ==
    /\ Kind = "DIRECT" => tx.conv.cleared = 0
    /\ \A u \in Users :
          /\ tx.read[u] <= conv.nextHeight
          /\ tx.seats[u].cleared <= conv.nextHeight
          /\ Kind = "DIRECT" => /\ tx.seats[u].open
                                /\ tx.seats[u].cleared <= Max2(marks[u].read, tx.read[u])
          /\ \A m \in DOMAIN msgs :
                msgs[m].height <= tx.read[u] => ~Waits(u, After(tx)[m])

Sound(tx) == SoundRows(tx) /\ SoundMarks(tx)

\* What the job of a worker has found out, or will commit.
JobSound(j) ==
    /\ j.phase # "idle" /\ j.call.op \in {"read", "delivered"} =>
          j.call.height <= conv.nextHeight
    /\ j.phase = "receipt" /\ j.call.op = "read" =>
          \A m \in DOMAIN msgs :
             msgs[m].height <= j.call.height => ~Waits(j.call.user, msgs[m])
    /\ j.phase = "writing" => Sound(j.tx)
    /\ j.phase = "writing" /\ j.call.op \in {"send", "edit", "react"} =>
          seats[j.call.user].open /\ assertGroupSpeechAllowed(j.call.user)

Jobs == \A w \in Workers : JobSound(job[w])

\* Only a timer that runs can have run out.
DueRuns == \A m \in due : msgs[m].burn = "running"

\* Marks and clear levels lie within the conversation.  In a direct chat all
\* seats stay, clearing is reading, and only there messages wait for readers.
MarksWithin ==
    /\ \A u \in Users :
          /\ marks[u].read <= conv.nextHeight /\ marks[u].delivered <= conv.nextHeight
          /\ seats[u].cleared <= conv.nextHeight
          /\ Kind = "DIRECT" => seats[u].open /\ seats[u].cleared <= marks[u].read
    /\ Kind = "DIRECT" => conv.cleared = 0
    /\ \A m \in DOMAIN msgs : msgs[m].burn = "armed" => Kind = "DIRECT"

MInv == /\ ErasedStaysErased /\ Shows(conv, msgs) /\ AckedIsStored
        /\ ReadStartsTimer /\ DueRuns /\ MarksWithin /\ Jobs

-----------------------------------------------------------------------------
(* What the two ways to write rows do to the messages.                      *)

\* Two rows that differ in their revision at most.
Alike(r, s) ==
    /\ r.height = s.height /\ r.sender = s.sender /\ r.type = s.type /\ r.d = s.d
    /\ r.requestHash = s.requestHash /\ r.content = s.content
    /\ r.contentHistory = s.contentHistory /\ r.revoked = s.revoked
    /\ r.deleted = s.deleted /\ r.burn = s.burn /\ r.reactions = s.reactions

\* What else an effect does, apart from counters and rows.
SameElse(tx, base) ==
    /\ tx.conv.type = base.conv.type /\ tx.conv.pinned = base.conv.pinned
    /\ tx.conv.preview = base.conv.preview /\ tx.conv.cleared = base.conv.cleared
    /\ tx.seats = base.seats /\ tx.read = base.read

\* Rows that an effect does not write stay as they are.
LEMMA AfterRows ==
    ASSUME NEW tx
    PROVE  /\ DOMAIN After(tx) = DOMAIN tx.rows \cup DOMAIN msgs
           /\ \A m \in DOMAIN tx.rows : After(tx)[m] = tx.rows[m]
           /\ \A m \in DOMAIN msgs \ DOMAIN tx.rows : After(tx)[m] = msgs[m]
  BY DEF After, Overlay

\* A row that gets a new revision keeps everything else.
LEMMA Renumbered ==
    ASSUME NEW r \in Row, NEW n
    PROVE  Alike([r EXCEPT !.revision = n], r)
  BY DEF Row, Alike

\* UpdateRows writes the rows it is given, numbered afresh.
LEMMA Rewritten ==
    ASSUME TypeOK, NEW base, Base(base), NEW new,
           DOMAIN new \subseteq DOMAIN msgs, new \in [DOMAIN new -> Row],
           NEW tx \in UpdateRows(new, base)
    PROVE  /\ DOMAIN After(tx) = DOMAIN msgs
           /\ \A m \in DOMAIN new : Alike(After(tx)[m], new[m])
           /\ \A m \in DOMAIN msgs \ DOMAIN new : After(tx)[m] = msgs[m]
           /\ SameElse(tx, base) /\ tx.acks = base.acks
  <1> DEFINE D == DOMAIN new
  <1>1. CASE D = {}
    <2>1. tx = base /\ DOMAIN tx.rows = {}
      BY <1>1 DEF UpdateRows, Base
    <2> QED BY <1>1, <2>1, AfterRows DEF SameElse
  <1>2. CASE D # {}
    <2>1. PICK f \in assign_revision(D) :
            tx = [base EXCEPT !.rows = [m \in D |-> [new[m] EXCEPT !.revision = f[m]]],
                              !.conv.nextRevision = Watermark + Cardinality(D)]
      BY <1>2 DEF UpdateRows
    <2> DEFINE rws == [m \in D |-> [new[m] EXCEPT !.revision = f[m]]]
               cv == [base.conv EXCEPT !.nextRevision = Watermark + Cardinality(D)]
    <2>2. \A m \in D : Alike(rws[m], new[m])
      BY Renumbered
    <2>3. DOMAIN rws = D
      OBVIOUS
    <2>4. /\ cv.type = base.conv.type /\ cv.pinned = base.conv.pinned
          /\ cv.preview = base.conv.preview /\ cv.cleared = base.conv.cleared
      BY DEF Base, IsTx, Conversation
    <2> HIDE DEF rws, cv
    <2>5. /\ tx.rows = rws /\ tx.seats = base.seats /\ tx.read = base.read
          /\ tx.acks = base.acks /\ tx.conv = cv
      BY <2>1 DEF Base, IsTx, rws, cv
    <2> HIDE <2>1
    <2> QED BY <2>2, <2>3, <2>4, <2>5, AfterRows DEF SameElse
  <1> QED BY <1>1, <1>2

\* InsertRow adds the next message.
LEMMA Inserted ==
    ASSUME TypeOK, NEW base, Base(base), NEW sender, NEW type, NEW d, NEW hash,
           NEW body, NEW burn,
           NEW tx \in InsertRow(sender, type, d, hash, body, burn, base)
    PROVE  /\ \E id \in MsgIds \ DOMAIN msgs :
                /\ DOMAIN tx.rows = {id}
                /\ DOMAIN After(tx) = DOMAIN msgs \cup {id}
                /\ LET r == After(tx)[id]
                   IN  /\ r.height = conv.nextHeight + 1 /\ r.sender = sender
                       /\ r.d = d /\ r.requestHash = hash /\ r.burn = burn
                       /\ ~r.revoked /\ ~r.deleted
           /\ \A m \in DOMAIN msgs : After(tx)[m] = msgs[m]
           /\ SameElse(tx, base) /\ tx.acks = base.acks /\ DOMAIN tx = DOMAIN base
  <1> DEFINE row == [height |-> conv.nextHeight + 1, revision |-> Watermark + 1,
             sender |-> sender, type |-> type, d |-> d, requestHash |-> hash,
             content |-> body, contentHistory |-> <<>>, revoked |-> FALSE,
             deleted |-> FALSE, burn |-> burn, reactions |-> {}]
  <1>1. PICK id \in MsgIds \ DOMAIN msgs :
            tx = [base EXCEPT !.rows = [m \in {id} |-> row],
                              !.conv.nextRevision = Watermark + 1,
                              !.conv.nextHeight = conv.nextHeight + 1]
    BY DEF InsertRow
  <1> DEFINE rws == [m \in {id} |-> row]
             cv == [[base.conv EXCEPT !.nextRevision = Watermark + 1]
                        EXCEPT !.nextHeight = conv.nextHeight + 1]
  <1>2. /\ row.height = conv.nextHeight + 1 /\ row.sender = sender
        /\ row.d = d /\ row.requestHash = hash /\ row.burn = burn
        /\ ~row.revoked /\ ~row.deleted
    OBVIOUS
  <1> HIDE DEF row
  <1>3. DOMAIN rws = {id} /\ rws[id] = row
    OBVIOUS
  <1>4. /\ cv.type = base.conv.type /\ cv.pinned = base.conv.pinned
        /\ cv.preview = base.conv.preview /\ cv.cleared = base.conv.cleared
    BY DEF Base, IsTx, Conversation
  <1> HIDE DEF rws, cv
  <1>5. /\ tx.rows = rws /\ tx.seats = base.seats /\ tx.read = base.read
        /\ tx.acks = base.acks /\ tx.conv = cv /\ DOMAIN tx = DOMAIN base
    BY <1>1 DEF Base, IsTx, rws, cv
  <1> HIDE <1>1
  <1>6. /\ DOMAIN After(tx) = DOMAIN msgs \cup {id} /\ After(tx)[id] = row
        /\ \A m \in DOMAIN msgs : After(tx)[m] = msgs[m]
    BY <1>3, <1>5, AfterRows
  <1> QED BY <1>2, <1>3, <1>4, <1>5, <1>6 DEF SameElse

-----------------------------------------------------------------------------
(* Effects are sound.                                                       *)

Now == IInv /\ MInv

\* A row as the invariants have it.
LEMMA RowNow ==
    ASSUME Now, NEW m \in DOMAIN msgs
    PROVE  /\ msgs[m] \in Row /\ m \in MsgIds /\ m # None
           /\ msgs[m].height \in Nat /\ msgs[m].height > 0
           /\ msgs[m].burn \in {"none", "armed", "running"}
           /\ msgs[m].deleted \in BOOLEAN /\ msgs[m].revoked \in BOOLEAN
           /\ Succeeds(msgs[m], msgs[m])
           /\ msgs[m].burn = "armed" => Kind = "DIRECT"
           /\ msgs[m].height <= conv.nextHeight
  <1>1. msgs[m] \in Row /\ m \in MsgIds /\ m # None
    BY MsgIdsAssumption DEF Now, IInv, TypeOK
  <1>2. Succeeds(msgs[m], msgs[m]) /\ (msgs[m].burn = "armed" => Kind = "DIRECT")
    BY DEF Now, MInv, Succeeds, ErasedStaysErased, MarksWithin
  <1>3. msgs[m].height \in 1..conv.nextHeight
    BY DEF Now, IInv, HeightsDense
  <1> QED BY <1>1, <1>2, <1>3 DEF Row

\* What a row succeeds does not depend on its revision.
LEMMA AlikeSucceeds ==
    ASSUME NEW r, NEW s, NEW t, Alike(r, s), Succeeds(s, t)
    PROVE  Succeeds(r, t)
  BY DEF Alike, Succeeds

\* An effect that writes no row.
LEMMA QuietSound ==
    ASSUME Now, NEW tx, DOMAIN tx.rows = {}, Shows(tx.conv, msgs),
           \A k \in tx.acks : Stored(k, msgs)
    PROVE  /\ SoundRows(tx) /\ DOMAIN After(tx) = DOMAIN msgs
           /\ \A m \in DOMAIN msgs : After(tx)[m] = msgs[m]
  <1>1. /\ DOMAIN After(tx) = DOMAIN msgs
        /\ \A m \in DOMAIN msgs : After(tx)[m] = msgs[m]
    BY AfterRows
  <1>2. \A m \in DOMAIN msgs : Succeeds(After(tx)[m], msgs[m])
    BY <1>1, RowNow
  <1> QED BY <1>1, <1>2 DEF SoundRows, Shows, Stored

\* An effect that changes rows in place.
LEMMA ChangeSound ==
    ASSUME Now, NEW base, Base(base), base.acks = {}, NEW new,
           DOMAIN new \subseteq DOMAIN msgs, new \in [DOMAIN new -> Row],
           \A m \in DOMAIN new : Succeeds(new[m], msgs[m]),
           Shows(base.conv, Overlay(new, msgs)),
           NEW tx \in UpdateRows(new, base)
    PROVE  /\ SoundRows(tx) /\ SameElse(tx, base)
           /\ \A m \in DOMAIN new : Alike(After(tx)[m], new[m])
           /\ \A m \in DOMAIN msgs \ DOMAIN new : After(tx)[m] = msgs[m]
  <1>1. /\ DOMAIN After(tx) = DOMAIN msgs
        /\ \A m \in DOMAIN new : Alike(After(tx)[m], new[m])
        /\ \A m \in DOMAIN msgs \ DOMAIN new : After(tx)[m] = msgs[m]
        /\ SameElse(tx, base) /\ tx.acks = {}
    BY Rewritten DEF Now, IInv
  <1>2. \A m \in DOMAIN msgs : Succeeds(After(tx)[m], msgs[m])
    BY <1>1, RowNow, AlikeSucceeds
  <1>3. /\ DOMAIN Overlay(new, msgs) = DOMAIN msgs
        /\ \A m \in DOMAIN new : Overlay(new, msgs)[m] = new[m]
        /\ \A m \in DOMAIN msgs \ DOMAIN new : Overlay(new, msgs)[m] = msgs[m]
    BY DEF Overlay
  <1>4. \A m \in DOMAIN msgs : /\ After(tx)[m].revoked = Overlay(new, msgs)[m].revoked
                               /\ After(tx)[m].deleted = Overlay(new, msgs)[m].deleted
                               /\ After(tx)[m].burn = Overlay(new, msgs)[m].burn
                               /\ After(tx)[m].content = Overlay(new, msgs)[m].content
    BY <1>1, <1>3 DEF Alike
  <1>5. Shows(tx.conv, After(tx))
    BY <1>1, <1>3, <1>4 DEF Shows, SameElse
  <1> QED BY <1>1, <1>2, <1>5 DEF SoundRows

\* An effect that adds a message.
LEMMA InsertSound ==
    ASSUME Now, NEW base, Base(base), Shows(base.conv, msgs), base.acks = {},
           NEW sender, NEW type, NEW d, NEW hash, NEW body, NEW burn,
           d # None => SentAs(sender, d) = {},
           burn = "armed" => Kind = "DIRECT",
           NEW tx \in InsertRow(sender, type, d, hash, body, burn, base)
    PROVE  /\ SoundRows(tx) /\ SameElse(tx, base) /\ DOMAIN tx = DOMAIN base
           /\ \A m \in DOMAIN msgs : After(tx)[m] = msgs[m]
           /\ \A m \in DOMAIN tx.rows :
                 /\ m \in DOMAIN After(tx) /\ After(tx)[m].sender = sender
                 /\ After(tx)[m].d = d /\ After(tx)[m].requestHash = hash
  <1>1. PICK id \in MsgIds \ DOMAIN msgs :
                /\ DOMAIN tx.rows = {id}
                /\ DOMAIN After(tx) = DOMAIN msgs \cup {id}
                /\ LET r == After(tx)[id]
                   IN  /\ r.height = conv.nextHeight + 1 /\ r.sender = sender
                       /\ r.d = d /\ r.requestHash = hash /\ r.burn = burn
                       /\ ~r.revoked /\ ~r.deleted
    BY Inserted DEF Now, IInv
  <1>2. /\ \A m \in DOMAIN msgs : After(tx)[m] = msgs[m]
        /\ SameElse(tx, base) /\ tx.acks = {} /\ DOMAIN tx = DOMAIN base
    BY Inserted DEF Now, IInv
  <1>3. \A m \in DOMAIN msgs : Succeeds(After(tx)[m], msgs[m])
    BY <1>2, RowNow
  <1>4. \A m \in DOMAIN After(tx) \ DOMAIN msgs : Fresh(After(tx)[m])
    BY <1>1 DEF Fresh
  <1>5. Shows(tx.conv, After(tx))
    BY <1>1, <1>2 DEF Shows, SameElse
  <1> QED BY <1>1, <1>2, <1>3, <1>4, <1>5 DEF SoundRows

\* A timer that waits after an effect waited before it.
LEMMA WaitsBefore ==
    ASSUME Now, NEW tx, SoundRows(tx), NEW u, NEW m \in DOMAIN msgs, Waits(u, After(tx)[m])
    PROVE  Waits(u, msgs[m]) /\ Kind = "DIRECT"
  <1>1. Succeeds(After(tx)[m], msgs[m])
    BY DEF SoundRows
  <1>2. msgs[m].burn = "armed"
    BY <1>1, RowNow DEF Succeeds, Waits
  <1> QED BY <1>1, <1>2, RowNow DEF Succeeds, Waits

\* An effect that raises no mark and no clear level.
LEMMA LevelSound ==
    ASSUME Now, NEW tx, SoundRows(tx), NEW base, SameElse(tx, base),
           base.conv.cleared = conv.cleared, base.read = [u \in Users |-> 0],
           \A u \in Users : /\ base.seats[u].cleared = seats[u].cleared
                            /\ Kind = "DIRECT" => base.seats[u].open
    PROVE  Sound(tx)
  <1>1. /\ Kind = "DIRECT" => tx.conv.cleared = 0
        /\ tx.read = [u \in Users |-> 0]
        /\ \A u \in Users : /\ tx.seats[u].cleared = seats[u].cleared
                            /\ Kind = "DIRECT" => tx.seats[u].open
    BY DEF SameElse, Now, MInv, MarksWithin
  <1>2. conv.nextHeight \in Nat
    BY Numbers DEF Now, IInv
  <1>3. ASSUME NEW u \in Users
        PROVE  /\ tx.read[u] <= conv.nextHeight
               /\ tx.seats[u].cleared <= conv.nextHeight
               /\ Kind = "DIRECT" => /\ tx.seats[u].open
                                     /\ tx.seats[u].cleared <= Max2(marks[u].read, tx.read[u])
               /\ \A m \in DOMAIN msgs :
                     msgs[m].height <= tx.read[u] => ~Waits(u, After(tx)[m])
    <2>1. tx.read[u] = 0 /\ marks[u].read \in Nat /\ seats[u].cleared \in Nat
      BY <1>1 DEF Now, IInv, TypeOK, Seat
    <2>2. /\ seats[u].cleared <= conv.nextHeight
          /\ Kind = "DIRECT" => seats[u].cleared <= marks[u].read
      BY DEF Now, MInv, MarksWithin
    <2>3. \A m \in DOMAIN msgs : ~(msgs[m].height <= tx.read[u])
      BY <2>1, RowNow
    <2> QED BY <1>1, <1>2, <2>1, <2>2, <2>3 DEF Max2
  <1>4. SoundMarks(tx)
    BY <1>1, <1>3 DEF SoundMarks
  <1> QED BY <1>4 DEF Sound

\* Changing nothing.
LEMMA NoEffectSound ==
    ASSUME Now, NEW tx, tx = NoEffect \/ \E A : /\ \A k \in A : Stored(k, msgs)
                                                /\ tx = [NoEffect EXCEPT !.acks = A]
    PROVE  Sound(tx)
  <1>1. /\ DOMAIN tx.rows = {} /\ SameElse(tx, NoEffect)
        /\ \A k \in tx.acks : Stored(k, msgs)
    BY DEF NoEffect, SameElse
  <1>2. Shows(tx.conv, msgs)
    BY <1>1 DEF SameElse, NoEffect, Shows, Now, MInv
  <1>3. SoundRows(tx)
    BY <1>1, <1>2, QuietSound
  <1>4. \A u \in Users : Kind = "DIRECT" => seats[u].open
    BY DEF Now, MInv, MarksWithin
  <1> QED BY <1>1, <1>3, <1>4, LevelSound DEF NoEffect

-----------------------------------------------------------------------------
(* One lemma for each handler.                                              *)

\* NoEffect with other seats.
LEMMA OtherSeats ==
    ASSUME Now, NEW s \in [Users -> Seat],
           \A u \in Users : /\ s[u].cleared = seats[u].cleared
                            /\ Kind = "DIRECT" => s[u].open
    PROVE  LET base == [NoEffect EXCEPT !.seats = s]
           IN  /\ Base(base) /\ base.acks = {} /\ Shows(base.conv, msgs)
               /\ \A tx : SoundRows(tx) /\ SameElse(tx, base) => Sound(tx)
  <1> DEFINE base == [NoEffect EXCEPT !.seats = s]
  <1>1. Base(base)
    BY SeatsBase DEF Now, IInv
  <1>2. /\ base.acks = {} /\ base.conv = conv /\ base.read = [u \in Users |-> 0]
        /\ base.seats = s
    BY DEF NoEffect
  <1> HIDE DEF base
  <1>3. Shows(base.conv, msgs)
    BY <1>2 DEF Now, MInv
  <1>4. \A tx : SoundRows(tx) /\ SameElse(tx, base) => Sound(tx)
    BY <1>2, LevelSound
  <1> QED BY <1>1, <1>2, <1>3, <1>4 DEF base

\* NoEffect with another conversation row.
LEMMA OtherConv ==
    ASSUME Now, NEW cv \in Conversation, cv.type = conv.type,
           cv.nextHeight = conv.nextHeight, cv.nextRevision = conv.nextRevision,
           cv.cleared = conv.cleared
    PROVE  LET base == [NoEffect EXCEPT !.conv = cv]
           IN  /\ Base(base) /\ base.acks = {} /\ base.conv = cv
               /\ \A tx : SoundRows(tx) /\ SameElse(tx, base) => Sound(tx)
  <1> DEFINE base == [NoEffect EXCEPT !.conv = cv]
  <1>1. Base(base)
    BY ConvBase DEF Now, IInv
  <1>2. /\ base.acks = {} /\ base.conv = cv /\ base.read = [u \in Users |-> 0]
        /\ base.seats = seats
    BY DEF NoEffect
  <1> HIDE DEF base
  <1>3. \A u \in Users : Kind = "DIRECT" => seats[u].open
    BY DEF Now, MInv, MarksWithin
  <1>4. \A tx : SoundRows(tx) /\ SameElse(tx, base) => Sound(tx)
    BY <1>2, <1>3, LevelSound
  <1> QED BY <1>1, <1>2, <1>4 DEF base

\* NoEffect itself.
LEMMA NoOther ==
    ASSUME Now
    PROVE  /\ Base(NoEffect) /\ NoEffect.acks = {} /\ NoEffect.conv = conv
           /\ Shows(NoEffect.conv, msgs)
           /\ \A tx : SoundRows(tx) /\ SameElse(tx, NoEffect) => Sound(tx)
  <1>1. Base(NoEffect)
    BY NoEffectBase DEF Now, IInv
  <1>2. /\ NoEffect.acks = {} /\ NoEffect.conv = conv
        /\ NoEffect.read = [u \in Users |-> 0] /\ NoEffect.seats = seats
    BY DEF NoEffect
  <1>3. \A u \in Users : Kind = "DIRECT" => seats[u].open
    BY DEF Now, MInv, MarksWithin
  <1> QED BY <1>1, <1>2, <1>3, LevelSound DEF Now, MInv

\* sendMessage: the earlier message is acknowledged, or the new one.
LEMMA sendMessageSound ==
    ASSUME Now, NEW c, NEW tx \in sendMessage(c)
    PROVE  Sound(tx)
  <1>1. CASE SentAs(c.user, c.d) # {}
    <2>1. PICK m \in SentAs(c.user, c.d) :
             tx = [NoEffect EXCEPT !.acks = {Ack(c, m)}] /\ assertSameSendRequest(m, c)
      BY <1>1 DEF sendMessage
    <2>2. Stored(Ack(c, m), msgs)
      BY <2>1 DEF Stored, Ack, SentAs, assertSameSendRequest
    <2> QED BY <2>1, <2>2, NoEffectSound
  <1>2. CASE SentAs(c.user, c.d) = {}
    <2>1. PICK t \in InsertRow(c.user, "text", c.d, c.text, c.text, BurnOf(c), NoEffect) :
             tx = [t EXCEPT !.acks = {Ack(c, m) : m \in DOMAIN t.rows}]
      BY <1>2 DEF sendMessage
    <2>2. BurnOf(c) = "armed" => Kind = "DIRECT"
      BY DEF BurnOf
    <2>3. /\ SoundRows(t) /\ SameElse(t, NoEffect) /\ DOMAIN t = DOMAIN NoEffect
          /\ \A m \in DOMAIN t.rows :
                 /\ m \in DOMAIN After(t) /\ After(t)[m].sender = c.user
                 /\ After(t)[m].d = c.d /\ After(t)[m].requestHash = c.text
      BY <1>2, <2>2, NoOther, InsertSound
    <2>4. Sound(t)
      BY <2>3, NoOther
    <2>5. /\ tx.rows = t.rows /\ tx.conv = t.conv /\ tx.seats = t.seats /\ tx.read = t.read
          /\ \A k \in tx.acks : \E m \in DOMAIN t.rows : k = Ack(c, m)
      BY <2>1, <2>3, NoOther DEF Base, IsTx
    <2>6. After(tx) = After(t)
      BY <2>5 DEF After
    <2>7. \A k \in tx.acks : Stored(k, After(tx))
      BY <2>3, <2>5, <2>6 DEF Stored, Ack
    <2> QED BY <2>4, <2>5, <2>6, <2>7 DEF Sound, SoundRows, SoundMarks
  <1> QED BY <1>1, <1>2

\* insertServerMessage: nothing, or a message that does not burn.
LEMMA insertServerMessageSound ==
    ASSUME Now, NEW c, NEW tx \in insertServerMessage(c)
    PROVE  Sound(tx)
  <1>1. CASE SentAs(c.user, c.d) # {}
    BY <1>1, NoEffectSound DEF insertServerMessage
  <1>2. CASE SentAs(c.user, c.d) = {}
    <2>1. tx \in InsertRow(c.user, "card", c.d, None, Notice, "none", NoEffect)
      BY <1>2 DEF insertServerMessage
    <2>2. SoundRows(tx) /\ SameElse(tx, NoEffect)
      BY <1>2, <2>1, NoOther, InsertSound
    <2> QED BY <2>2, NoOther
  <1> QED BY <1>1, <1>2

\* A system message beside other changes.
LEMMA SystemSound ==
    ASSUME Now, NEW base, Base(base), base.acks = {}, Shows(base.conv, msgs),
           NEW tx \in insertSystemMessage(base)
    PROVE  /\ SoundRows(tx) /\ SameElse(tx, base)
           /\ \A m \in DOMAIN msgs : After(tx)[m] = msgs[m]
  BY InsertSound DEF insertSystemMessage

\* The changes handlers make to a message succeed its earlier row.
LEMMA ChangesSucceed ==
    ASSUME NEW r \in Row, Succeeds(r, r)
    PROVE  /\ Succeeds([r EXCEPT !.content = Blank, !.revoked = TRUE], r)
           /\ r.burn = "armed" => Succeeds([r EXCEPT !.burn = "running"], r)
           /\ [r EXCEPT !.burn = "running"].burn = "running"
           /\ Succeeds([r EXCEPT !.deleted = TRUE, !.content = Blank,
                                 !.contentHistory = <<>>], r)
  <1>1. Succeeds([r EXCEPT !.content = Blank, !.revoked = TRUE], r)
    BY DEF Row, Succeeds
  <1>2. /\ r.burn = "armed" => Succeeds([r EXCEPT !.burn = "running"], r)
        /\ [r EXCEPT !.burn = "running"].burn = "running"
    BY DEF Row, Succeeds
  <1>3. Succeeds([r EXCEPT !.deleted = TRUE, !.content = Blank,
                           !.contentHistory = <<>>], r)
    BY DEF Row, Succeeds
  <1> QED BY <1>1, <1>2, <1>3

\* A reaction.
LEMMA ReactionSucceeds ==
    ASSUME NEW r \in Row, Succeeds(r, r), NEW R
    PROVE  LET e == [r EXCEPT !.reactions = R]
           IN  /\ Succeeds(e, r) /\ e.revoked = r.revoked /\ e.deleted = r.deleted
               /\ e.burn = r.burn /\ e.content = r.content
  BY DEF Row, Succeeds

\* The banner when one row has changed.
LEMMA OneRowShows ==
    ASSUME NEW cv, NEW id, NEW e,
           cv.pinned # None => cv.pinned \in DOMAIN msgs,
           cv.pinned # None /\ cv.pinned # id => Shows(cv, msgs),
           cv.pinned # None /\ cv.pinned = id =>
              ~e.revoked /\ ~e.deleted /\ e.burn = "none" /\ cv.preview = e.content
    PROVE  Shows(cv, Overlay([k \in {id} |-> e], msgs))
  BY DEF Overlay, Shows

\* revokeMessage takes the text, and the banner down if it showed it.
LEMMA revokeMessageSound ==
    ASSUME Now, NEW c, c.id \in DOMAIN msgs, NEW tx \in revokeMessage(c)
    PROVE  Sound(tx)
  <1> DEFINE cv == [conv EXCEPT !.pinned = None, !.preview = Blank]
             down == [NoEffect EXCEPT !.conv.pinned = None, !.conv.preview = Blank]
             base == IF conv.pinned = c.id THEN down ELSE NoEffect
             e == [msgs[c.id] EXCEPT !.content = Blank, !.revoked = TRUE]
             new == [m \in {c.id} |-> [msgs[m] EXCEPT !.content = Blank, !.revoked = TRUE]]
  <1>1. conv \in Conversation
    BY DEF Now, IInv, TypeOK
  <1>2. /\ cv \in Conversation /\ cv.type = conv.type /\ cv.pinned = None
        /\ cv.nextHeight = conv.nextHeight /\ cv.nextRevision = conv.nextRevision
        /\ cv.cleared = conv.cleared
    BY <1>1 DEF Conversation, Bodies
  <1>3. down = [NoEffect EXCEPT !.conv = cv]
    BY DEF NoEffect
  <1> HIDE DEF cv
  <1>4. /\ Base(down) /\ down.acks = {} /\ down.conv = cv
        /\ \A t : SoundRows(t) /\ SameElse(t, down) => Sound(t)
    BY <1>2, <1>3, OtherConv
  <1> HIDE DEF down
  <1>5. /\ Base(base) /\ base.acks = {}
        /\ \A t : SoundRows(t) /\ SameElse(t, base) => Sound(t)
    BY <1>4, NoOther
  <1>6. e \in Row /\ Succeeds(e, msgs[c.id])
    BY RowNow, RowChanges, ChangesSucceed
  <1> HIDE DEF e
  <1>7. Shows(base.conv, Overlay([k \in {c.id} |-> e], msgs))
    <2>1. Shows(conv, msgs)
      BY DEF Now, MInv
    <2>2. base.conv = conv \/ base.conv.pinned = None
      BY <1>2, <1>4, NoOther
    <2>3. conv.pinned = c.id => base.conv.pinned = None
      BY <1>2, <1>4
    <2> DEFINE cw == base.conv
    <2> HIDE DEF base
    <2>4. /\ cw.pinned # None => cw.pinned \in DOMAIN msgs
          /\ cw.pinned # None => Shows(cw, msgs)
          /\ ~(cw.pinned # None /\ cw.pinned = c.id)
      BY <2>1, <2>2, <2>3 DEF Shows
    <2> HIDE DEF cw
    <2>5. Shows(cw, Overlay([k \in {c.id} |-> e], msgs))
      BY <2>4, OneRowShows
    <2> QED BY <2>5 DEF cw
  <1>8. new = [k \in {c.id} |-> e] /\ DOMAIN new = {c.id} /\ new[c.id] = e
    BY DEF e
  <1>9. tx = NoEffect \/ tx \in UpdateRows(new, base)
    BY DEF revokeMessage, down
  <1> HIDE DEF new, base
  <1>10. CASE tx = NoEffect
    BY <1>10, NoEffectSound
  <1>11. CASE tx \in UpdateRows(new, base)
    <2>1. SoundRows(tx) /\ SameElse(tx, base)
      BY <1>5, <1>6, <1>7, <1>8, <1>11, ChangeSound
    <2> QED BY <1>5, <2>1
  <1> QED BY <1>9, <1>10, <1>11

\* editMessage changes a message that is neither revoked nor burned when the
\* lock is held, and the banner with it.
LEMMA editMessageSound ==
    ASSUME Now, NEW c, c.id \in DOMAIN msgs, c.text \in Texts, NEW tx \in editMessage(c)
    PROVE  Sound(tx)
  <1> DEFINE cv == [conv EXCEPT !.preview = c.text]
             shown == [NoEffect EXCEPT !.conv.preview = c.text]
             base == IF conv.pinned = c.id THEN shown ELSE NoEffect
             e == [msgs[c.id] EXCEPT
                        !.content = c.text,
                        !.contentHistory =
                            Append(msgs[c.id].contentHistory, msgs[c.id].content)]
             new == [m \in {c.id} |-> [msgs[m] EXCEPT
                        !.content = c.text,
                        !.contentHistory = Append(msgs[m].contentHistory, msgs[m].content)]]
  <1>1. conv \in Conversation
    BY DEF Now, IInv, TypeOK
  <1>2. /\ cv \in Conversation /\ cv.type = conv.type /\ cv.pinned = conv.pinned
        /\ cv.nextHeight = conv.nextHeight /\ cv.nextRevision = conv.nextRevision
        /\ cv.cleared = conv.cleared /\ cv.preview = c.text
    BY <1>1 DEF Conversation, Bodies
  <1>3. shown = [NoEffect EXCEPT !.conv = cv]
    BY DEF NoEffect
  <1> HIDE DEF cv
  <1>4. /\ Base(shown) /\ shown.acks = {} /\ shown.conv = cv
        /\ \A t : SoundRows(t) /\ SameElse(t, shown) => Sound(t)
    BY <1>2, <1>3, OtherConv
  <1> HIDE DEF shown
  <1>5. /\ Base(base) /\ base.acks = {}
        /\ \A t : SoundRows(t) /\ SameElse(t, base) => Sound(t)
    BY <1>4, NoOther
  <1>6. Editable(c.user, c.id) /\ tx \in UpdateRows(new, base)
    BY DEF editMessage, shown
  <1>7. ~msgs[c.id].revoked /\ ~msgs[c.id].deleted
    BY <1>6 DEF Editable, Gone
  <1>8. /\ e \in Row /\ Succeeds(e, msgs[c.id]) /\ ~e.revoked /\ ~e.deleted
        /\ e.burn = msgs[c.id].burn /\ e.content = c.text
    <2>1. msgs[c.id] \in Row /\ Succeeds(msgs[c.id], msgs[c.id])
      BY RowNow
    <2>2. e \in Row
      BY <2>1, RowChanges
    <2> DEFINE H == Append(msgs[c.id].contentHistory, msgs[c.id].content)
               r == msgs[c.id]
    <2>3. e = [r EXCEPT !.content = c.text, !.contentHistory = H]
      OBVIOUS
    <2>4. /\ r \in Row /\ Succeeds(r, r) /\ ~r.revoked /\ ~r.deleted
      BY <1>7, <2>1
    <2> HIDE DEF H, e, r
    <2>5. Succeeds(e, r) /\ ~e.revoked /\ ~e.deleted /\ e.burn = r.burn /\ e.content = c.text
      BY <2>3, <2>4 DEF Row, Succeeds
    <2> QED BY <2>2, <2>5 DEF r
  <1> HIDE DEF e
  <1>9. Shows(base.conv, Overlay([k \in {c.id} |-> e], msgs))
    <2>1. Shows(conv, msgs)
      BY DEF Now, MInv
    <2>2. /\ conv.pinned # c.id => base.conv = conv
          /\ base.conv.pinned = conv.pinned
          /\ conv.pinned = c.id => base.conv.preview = c.text
      BY <1>2, <1>4, NoOther
    <2> DEFINE cw == base.conv
    <2> HIDE DEF base
    <2>3. /\ cw.pinned # None => cw.pinned \in DOMAIN msgs
          /\ cw.pinned # None /\ cw.pinned # c.id => Shows(cw, msgs)
          /\ cw.pinned # None /\ cw.pinned = c.id =>
                ~e.revoked /\ ~e.deleted /\ e.burn = "none" /\ cw.preview = e.content
      BY <1>8, <2>1, <2>2 DEF Shows
    <2> HIDE DEF cw
    <2>4. Shows(cw, Overlay([k \in {c.id} |-> e], msgs))
      BY <2>3, OneRowShows
    <2> QED BY <2>4 DEF cw
  <1>10. new = [k \in {c.id} |-> e] /\ DOMAIN new = {c.id} /\ new[c.id] = e
    BY DEF e
  <1> HIDE DEF new, base
  <1>11. SoundRows(tx) /\ SameElse(tx, base)
    BY <1>5, <1>6, <1>8, <1>9, <1>10, ChangeSound
  <1> QED BY <1>5, <1>11

\* toggleReaction leaves text and banner alone.
LEMMA toggleReactionSound ==
    ASSUME Now, NEW c, c.id \in DOMAIN msgs, c.user \in Users, c.add \in BOOLEAN,
           NEW tx \in toggleReaction(c)
    PROVE  Sound(tx)
  <1> DEFINE R == IF c.add THEN msgs[c.id].reactions \cup {c.user}
                           ELSE msgs[c.id].reactions \ {c.user}
             e == [msgs[c.id] EXCEPT !.reactions = R]
             new == [m \in {c.id} |-> [msgs[m] EXCEPT
                        !.reactions = IF c.add THEN @ \cup {c.user} ELSE @ \ {c.user}]]
  <1>1. e \in Row
    <2>1. R \in SUBSET Users
      BY RowNow DEF Row
    <2> QED BY <2>1, RowNow DEF Row
  <1>2. /\ Succeeds(e, msgs[c.id]) /\ e.revoked = msgs[c.id].revoked
        /\ e.deleted = msgs[c.id].deleted /\ e.burn = msgs[c.id].burn
        /\ e.content = msgs[c.id].content
    <2>1. msgs[c.id] \in Row /\ Succeeds(msgs[c.id], msgs[c.id])
      BY RowNow
    <2> HIDE DEF R
    <2> QED BY <2>1, ReactionSucceeds
  <1>3. new = [k \in {c.id} |-> e] /\ DOMAIN new = {c.id} /\ new[c.id] = e
    OBVIOUS
  <1>4. tx = NoEffect \/ tx \in UpdateRows(new, NoEffect)
    BY DEF toggleReaction
  <1> HIDE DEF e, new
  <1>5. Shows(NoEffect.conv, Overlay(new, msgs))
    <2>1. Shows(conv, msgs) /\ NoEffect.conv = conv
      BY NoOther DEF Now, MInv
    <2>2. /\ conv.pinned # None => conv.pinned \in DOMAIN msgs
          /\ conv.pinned # None /\ conv.pinned # c.id => Shows(conv, msgs)
          /\ conv.pinned # None /\ conv.pinned = c.id =>
                ~e.revoked /\ ~e.deleted /\ e.burn = "none" /\ conv.preview = e.content
      BY <1>2, <2>1 DEF Shows
    <2>3. Shows(conv, Overlay([k \in {c.id} |-> e], msgs))
      BY <2>2, OneRowShows
    <2>4. Shows(conv, Overlay(new, msgs))
      BY <1>3, <2>3
    <2> QED BY <2>1, <2>4
  <1>6. CASE tx = NoEffect
    BY <1>6, NoEffectSound
  <1>7. CASE tx \in UpdateRows(new, NoEffect)
    <2>1. SoundRows(tx) /\ SameElse(tx, NoEffect)
      BY <1>1, <1>2, <1>3, <1>5, <1>7, NoOther, ChangeSound
    <2> QED BY <2>1, NoOther
  <1> QED BY <1>4, <1>6, <1>7

\* The sweeper burns rows that are due: their timer runs, so the banner, whose
\* row has none, stays as it is.
LEMMA sweepConversationSound ==
    ASSUME Now, NEW c, c.batch \subseteq DOMAIN msgs, NEW tx \in sweepConversation(c)
    PROVE  Sound(tx)
  <1> DEFINE S == {k \in c.batch : ~msgs[k].deleted /\ k \in due}
             new == [m \in S |-> [msgs[m] EXCEPT !.deleted = TRUE, !.content = Blank,
                                                 !.contentHistory = <<>>]]
  <1>1. \A m \in S : /\ new[m] \in Row /\ Succeeds(new[m], msgs[m])
                     /\ msgs[m].burn = "running"
    BY RowNow, RowChanges, ChangesSucceed DEF Now, MInv, DueRuns
  <1>2. tx \in UpdateRows(new, NoEffect) /\ DOMAIN new = S /\ S \subseteq DOMAIN msgs
    BY DEF sweepConversation
  <1>3. new \in [S -> Row]
    BY <1>1
  <1> HIDE DEF new
  <1>4. Shows(NoEffect.conv, Overlay(new, msgs))
    <2>1. Shows(conv, msgs) /\ NoEffect.conv = conv
      BY NoOther DEF Now, MInv
    <2>2. conv.pinned # None => conv.pinned \notin S
      BY <1>1, <2>1 DEF Shows
    <2> QED BY <1>2, <2>1, <2>2 DEF Shows, Overlay
  <1>5. SoundRows(tx) /\ SameElse(tx, NoEffect)
    BY <1>1, <1>2, <1>3, <1>4, NoOther, ChangeSound
  <1> QED BY <1>5, NoOther

\* The seats' shared columns stay when one seat changes.
LEMMA SeatChangesSound ==
    ASSUME Now, NEW c, NEW tx,
           \/ c.user \in Users /\ c.on \in BOOLEAN /\ tx \in setBurnDuration(c)
           \/ c.target \in Users /\ c.on \in BOOLEAN /\ tx \in silenceMember(c)
           \/ c.target \in Users /\ tx \in removeStandaloneMember(c)
    PROVE  Sound(tx)
  <1>0. /\ seats \in [Users -> Seat]
        /\ \A u \in Users : Kind = "DIRECT" => seats[u].open
    BY DEF Now, IInv, TypeOK, MInv, MarksWithin
  <1>1. CASE c.user \in Users /\ c.on \in BOOLEAN /\ tx \in setBurnDuration(c)
    <2> DEFINE s == [seats EXCEPT ![c.user].burn = c.on]
               base == [NoEffect EXCEPT !.seats[c.user].burn = c.on]
    <2>1. /\ s \in [Users -> Seat]
          /\ \A u \in Users : /\ s[u].cleared = seats[u].cleared
                              /\ Kind = "DIRECT" => s[u].open
      BY <1>0, <1>1 DEF Seat
    <2>2. base = [NoEffect EXCEPT !.seats = s]
      BY DEF NoEffect
    <2>3. tx \in insertSystemMessage(base)
      BY <1>1 DEF setBurnDuration
    <2> HIDE DEF s, base
    <2>4. /\ Base(base) /\ base.acks = {} /\ Shows(base.conv, msgs)
          /\ \A t : SoundRows(t) /\ SameElse(t, base) => Sound(t)
      BY <2>1, <2>2, OtherSeats
    <2> QED BY <2>3, <2>4, SystemSound
  <1>2. CASE c.target \in Users /\ c.on \in BOOLEAN /\ tx \in silenceMember(c)
    <2> DEFINE s == [seats EXCEPT ![c.target].silenced = c.on]
               base == [NoEffect EXCEPT !.seats[c.target].silenced = c.on]
    <2>1. /\ s \in [Users -> Seat]
          /\ \A u \in Users : /\ s[u].cleared = seats[u].cleared
                              /\ Kind = "DIRECT" => s[u].open
      BY <1>0, <1>2 DEF Seat
    <2>2. base = [NoEffect EXCEPT !.seats = s]
      BY DEF NoEffect
    <2>3. tx = NoEffect \/ tx \in insertSystemMessage(base)
      BY <1>2 DEF silenceMember
    <2> HIDE DEF s, base
    <2>4. /\ Base(base) /\ base.acks = {} /\ Shows(base.conv, msgs)
          /\ \A t : SoundRows(t) /\ SameElse(t, base) => Sound(t)
      BY <2>1, <2>2, OtherSeats
    <2> QED BY <2>3, <2>4, SystemSound, NoEffectSound
  <1>3. CASE c.target \in Users /\ tx \in removeStandaloneMember(c)
    <2> DEFINE s == [seats EXCEPT ![c.target].open = FALSE]
               base == [NoEffect EXCEPT !.seats[c.target].open = FALSE]
    <2>0. Kind # "DIRECT"
      BY <1>3 DEF removeStandaloneMember, CanManage, isGroupModerator
    <2>1. /\ s \in [Users -> Seat]
          /\ \A u \in Users : /\ s[u].cleared = seats[u].cleared
                              /\ Kind = "DIRECT" => s[u].open
      BY <1>0, <1>3, <2>0 DEF Seat
    <2>2. base = [NoEffect EXCEPT !.seats = s]
      BY DEF NoEffect
    <2>3. tx \in insertSystemMessage(base)
      BY <1>3 DEF removeStandaloneMember
    <2> HIDE DEF s, base
    <2>4. /\ Base(base) /\ base.acks = {} /\ Shows(base.conv, msgs)
          /\ \A t : SoundRows(t) /\ SameElse(t, base) => Sound(t)
      BY <2>1, <2>2, OtherSeats
    <2> QED BY <2>3, <2>4, SystemSound
  <1> QED BY <1>1, <1>2, <1>3

\* The banner is put up for a message that lives and cannot burn.
LEMMA ConversationChangesSound ==
    ASSUME Now, NEW c, NEW tx,
           \/ c.on \in BOOLEAN /\ tx \in setMuteAll(c)
           \/ c.id \in DOMAIN msgs \cup {None} /\ tx \in setPinnedMessage(c)
    PROVE  Sound(tx)
  <1>0. conv \in Conversation /\ Shows(conv, msgs)
    BY DEF Now, IInv, TypeOK, MInv
  <1>1. CASE c.on \in BOOLEAN /\ tx \in setMuteAll(c)
    <2> DEFINE cv == [conv EXCEPT !.muteAll = c.on]
               base == [NoEffect EXCEPT !.conv.muteAll = c.on]
    <2>1. /\ cv \in Conversation /\ cv.type = conv.type
          /\ cv.nextHeight = conv.nextHeight /\ cv.nextRevision = conv.nextRevision
          /\ cv.cleared = conv.cleared
          /\ cv.pinned = conv.pinned /\ cv.preview = conv.preview
      BY <1>0, <1>1 DEF Conversation
    <2>2. base = [NoEffect EXCEPT !.conv = cv]
      BY DEF NoEffect
    <2>3. tx = NoEffect \/ tx \in insertSystemMessage(base)
      BY <1>1 DEF setMuteAll
    <2> HIDE DEF cv, base
    <2>4. /\ Base(base) /\ base.acks = {} /\ base.conv = cv
          /\ \A t : SoundRows(t) /\ SameElse(t, base) => Sound(t)
      BY <2>1, <2>2, OtherConv
    <2>5. Shows(base.conv, msgs)
      BY <1>0, <2>1, <2>4 DEF Shows
    <2> QED BY <2>3, <2>4, <2>5, SystemSound, NoEffectSound
  <1>2. CASE c.id \in DOMAIN msgs \cup {None} /\ tx \in setPinnedMessage(c)
    <2> DEFINE text == IF c.id = None THEN Blank ELSE msgs[c.id].content
               cv == [conv EXCEPT !.pinned = c.id, !.preview = text]
               base == [NoEffect EXCEPT !.conv.pinned = c.id, !.conv.preview = text]
    <2>1. text \in Bodies /\ c.id \in MsgIds \cup {None}
      <3>1. CASE c.id = None
        BY <3>1 DEF Bodies
      <3>2. CASE c.id # None
        <4>1. c.id \in DOMAIN msgs /\ msgs[c.id] \in Row /\ c.id \in MsgIds
          BY <1>2, <3>2, RowNow
        <4> QED BY <3>2, <4>1 DEF Row
      <3> QED BY <3>1, <3>2
    <2>2. base = [NoEffect EXCEPT !.conv = cv]
      BY DEF NoEffect
    <2>3. /\ tx = NoEffect \/ tx \in insertSystemMessage(base)
          /\ c.id # None => assertPinnable(c.id, c.floor)
      BY <1>2 DEF setPinnedMessage
    <2>4. c.id # None => /\ c.id \in DOMAIN msgs
                         /\ ~msgs[c.id].revoked /\ ~msgs[c.id].deleted
                         /\ msgs[c.id].burn = "none" /\ text = msgs[c.id].content
      BY <2>3 DEF assertPinnable, Gone
    <2> HIDE DEF text
    <2>5. /\ cv \in Conversation /\ cv.type = conv.type
          /\ cv.nextHeight = conv.nextHeight /\ cv.nextRevision = conv.nextRevision
          /\ cv.cleared = conv.cleared
          /\ cv.pinned = c.id /\ cv.preview = text
      BY <1>0, <2>1 DEF Conversation
    <2> HIDE DEF cv, base
    <2>6. /\ Base(base) /\ base.acks = {} /\ base.conv = cv
          /\ \A t : SoundRows(t) /\ SameElse(t, base) => Sound(t)
      BY <2>2, <2>5, OtherConv
    <2>7. Shows(base.conv, msgs)
      BY <2>4, <2>5, <2>6 DEF Shows
    <2> QED BY <2>3, <2>6, <2>7, SystemSound, NoEffectSound
  <1> QED BY <1>1, <1>2

\* Reading up to h, and clearing what was read: of the messages up to h those
\* that wait for the reader get their timer; what lies at or below the clear
\* level had it before.
LEMMA ReadSound ==
    ASSUME Now, NEW u \in Users, NEW h \in Nat, h <= conv.nextHeight,
           NEW base, Base(base), base.acks = {}, Shows(base.conv, msgs),
           Kind = "DIRECT" => base.conv.cleared = 0,
           base.read = [v \in Users |-> IF v = u THEN h ELSE 0],
           \A v \in Users :
              /\ base.seats[v].cleared <= conv.nextHeight
              /\ Kind = "DIRECT" =>
                    /\ base.seats[v].open
                    /\ base.seats[v].cleared <= Max2(marks[v].read, base.read[v]),
           NEW tx \in startReadBurnTimers(u, h, base)
    PROVE  Sound(tx)
  <1> DEFINE new == [m \in ReadBurnRows(u, h) |-> [msgs[m] EXCEPT !.burn = "running"]]
  <1>1. /\ tx \in UpdateRows(new, base) /\ DOMAIN new = ReadBurnRows(u, h)
        /\ ReadBurnRows(u, h) \subseteq DOMAIN msgs
    BY DEF startReadBurnTimers, ReadBurnRows
  <1>2. \A m \in ReadBurnRows(u, h) : msgs[m].burn = "armed"
    BY DEF ReadBurnRows
  <1>3. \A m \in DOMAIN new : /\ new[m] \in Row /\ Succeeds(new[m], msgs[m])
                              /\ new[m].burn = "running"
    BY <1>1, <1>2, RowNow, RowChanges, ChangesSucceed
  <1>4. new \in [DOMAIN new -> Row]
    BY <1>3
  <1> HIDE DEF new
  <1>5. Shows(base.conv, Overlay(new, msgs))
    <2> DEFINE M == Overlay(new, msgs)
    <2>1. /\ DOMAIN M = DOMAIN msgs
          /\ \A m \in DOMAIN msgs \ DOMAIN new : M[m] = msgs[m]
      BY <1>1 DEF Overlay
    <2>2. base.conv.pinned # None => base.conv.pinned \notin DOMAIN new
      BY <1>1, <1>2 DEF Shows
    <2> HIDE DEF M
    <2>3. Shows(base.conv, M)
      BY <2>1, <2>2 DEF Shows
    <2> QED BY <2>3 DEF M
  <1>6. /\ SoundRows(tx) /\ SameElse(tx, base)
        /\ \A m \in DOMAIN new : Alike(After(tx)[m], new[m])
    BY <1>1, <1>3, <1>4, <1>5, ChangeSound
  <1>7. ASSUME NEW v \in Users, NEW m \in DOMAIN msgs, msgs[m].height <= tx.read[v]
        PROVE  ~Waits(v, After(tx)[m])
    <2>1. tx.read[v] = IF v = u THEN h ELSE 0
      BY <1>6 DEF SameElse
    <2>2. v = u /\ msgs[m].height <= h
      BY <1>7, <2>1, RowNow
    <2> SUFFICES ASSUME Waits(u, After(tx)[m]) PROVE FALSE
      BY <2>2
    <2>3. Waits(u, msgs[m]) /\ Kind = "DIRECT"
      BY <1>6, WaitsBefore
    <2>4. /\ seats[u].open /\ seats[u].cleared <= marks[u].read /\ conv.cleared = 0
      BY <2>3 DEF Now, MInv, MarksWithin
    <2>5. ~(msgs[m].height <= marks[u].read)
      BY <2>3 DEF Now, MInv, ReadStartsTimer, Waits
    <2>6. /\ seats[u].cleared \in Nat /\ marks[u].read \in Nat
      BY DEF Now, IInv, TypeOK, Seat
    <2>7. msgs[m].height > ClearedFloor(u)
      BY <2>4, <2>5, <2>6, RowNow DEF ClearedFloor, Max2
    <2>8. m \in DOMAIN new
      BY <1>1, <2>2, <2>3, <2>4, <2>7 DEF ReadBurnRows, Waits
    <2> QED BY <1>3, <1>6, <2>8 DEF Alike, Waits
  <1>8. /\ Kind = "DIRECT" => tx.conv.cleared = 0
        /\ tx.seats = base.seats /\ tx.read = base.read
    BY <1>6 DEF SameElse
  <1>9. \A v \in Users : tx.read[v] <= conv.nextHeight
    BY <1>8, Numbers DEF Now, IInv
  <1> QED BY <1>6, <1>7, <1>8, <1>9 DEF Sound, SoundMarks

\* markRead under the lock.
LEMMA markReadSound ==
    ASSUME Now, NEW c, c.user \in Users, c.height \in Nat, c.height <= conv.nextHeight,
           NEW tx \in markRead(c)
    PROVE  Sound(tx)
  <1> DEFINE base == [NoEffect EXCEPT !.read[c.user] = c.height]
  <1>1. /\ DOMAIN base = {"conv", "rows", "seats", "read", "acks"}
        /\ base.conv = conv /\ base.rows = NoEffect.rows /\ base.seats = seats
        /\ base.read = [[u \in Users |-> 0] EXCEPT ![c.user] = c.height]
        /\ base.acks = {}
    BY NoEffectFields DEF Now, IInv
  <1>2. tx \in startReadBurnTimers(c.user, c.height, base)
    BY DEF markRead
  <1> HIDE DEF base
  <1>3. /\ base.read = [v \in Users |-> IF v = c.user THEN c.height ELSE 0]
        /\ base.read \in [Users -> Nat]
    BY <1>1
  <1>4. /\ base.conv.cleared >= conv.cleared /\ base.conv \in Conversation
        /\ base.seats \in [Users -> Seat]
        /\ \A u \in Users : base.seats[u].cleared >= seats[u].cleared
    BY <1>1, NoEffectFields DEF Conversation, Seat, Now, IInv
  <1>5. Base(base)
    BY <1>1, <1>3, <1>4, BaseOf DEF Now, IInv
  <1>6. Shows(base.conv, msgs) /\ (Kind = "DIRECT" => base.conv.cleared = 0)
    BY <1>1 DEF Now, MInv, MarksWithin
  <1>7. ASSUME NEW v \in Users
        PROVE  /\ base.seats[v].cleared <= conv.nextHeight
               /\ Kind = "DIRECT" =>
                     /\ base.seats[v].open
                     /\ base.seats[v].cleared <= Max2(marks[v].read, base.read[v])
    <2>1. /\ seats[v].cleared <= conv.nextHeight
          /\ Kind = "DIRECT" => seats[v].open /\ seats[v].cleared <= marks[v].read
      BY DEF Now, MInv, MarksWithin
    <2>2. marks[v].read \in Nat /\ seats[v].cleared \in Nat /\ base.read[v] \in Nat
      BY <1>3 DEF Now, IInv, TypeOK, Seat
    <2> QED BY <1>1, <2>1, <2>2 DEF Max2
  <1> QED BY <1>1, <1>2, <1>3, <1>5, <1>6, <1>7, ReadSound

\* clearHistory raises clear levels and marks together; in a direct chat it
\* reads what it clears, in a group nothing waits for a reader.
LEMMA clearHistorySound ==
    ASSUME Now, NEW c, c.user \in Users, c.height \in Nat, NEW tx \in clearHistory(c)
    PROVE  Sound(tx)
  <1> DEFINE global == c.everyone /\ Kind = "GROUP"
             h == Min2(conv.nextHeight, c.height)
             targets == IF global THEN {u \in Users : seats[u].open} ELSE {c.user}
             base == [NoEffect EXCEPT
                 !.seats = RaiseCleared(targets, h),
                 !.read = [u \in Users |-> IF u \in targets THEN h ELSE 0],
                 !.conv.cleared = IF global THEN Max2(@, h) ELSE @]
             cv == [conv EXCEPT !.cleared = IF global THEN Max2(conv.cleared, h)
                                             ELSE conv.cleared]
             s == RaiseCleared(targets, h)
             r == [u \in Users |-> IF u \in targets THEN h ELSE 0]
  <1>1. h \in Nat /\ h <= conv.nextHeight /\ conv.nextHeight \in Nat
    BY Numbers DEF Min2, Now, IInv
  <1>2. /\ seats[c.user].open
        /\ \/ tx = NoEffect
           \/ global /\ tx = base
           \/ global /\ tx \in insertSystemMessage(base)
           \/ ~global /\ tx \in startReadBurnTimers(c.user, h, base)
    BY DEF clearHistory
  <1> HIDE DEF h
  <1>3. /\ DOMAIN base = {"conv", "rows", "seats", "read", "acks"}
        /\ base.conv = cv /\ base.rows = NoEffect.rows /\ base.seats = s
        /\ base.read = r /\ base.acks = {}
    BY DEF NoEffect
  <1> HIDE DEF base
  <1>4. r \in [Users -> Nat]
    BY <1>1
  <1>5. /\ conv \in Conversation /\ seats \in [Users -> Seat]
        /\ \A u \in Users : marks[u].read \in Nat /\ seats[u].cleared \in Nat
    BY DEF Now, IInv, TypeOK, Seat
  <1>6. ASSUME NEW u \in Users
        PROVE  /\ s[u] \in Seat /\ s[u].open = seats[u].open
               /\ s[u].cleared = IF u \in targets THEN Max2(seats[u].cleared, h)
                                 ELSE seats[u].cleared
    <2>1. LET e == [seats[u] EXCEPT !.cleared = Max2(@, h)]
          IN  /\ e \in Seat /\ e.cleared = Max2(seats[u].cleared, h)
              /\ e.open = seats[u].open
      BY <1>1, <1>5 DEF Seat, Max2
    <2>2. s[u] = IF u \in targets THEN [seats[u] EXCEPT !.cleared = Max2(@, h)]
                 ELSE seats[u]
      BY DEF RaiseCleared
    <2> HIDE DEF s, targets
    <2> QED BY <1>5, <2>1, <2>2
  <1>7. s \in [Users -> Seat]
    <2>1. s = [u \in Users |-> s[u]]
      BY DEF RaiseCleared
    <2> HIDE DEF s
    <2> QED BY <1>6, <2>1
  <1>8. /\ cv \in Conversation /\ cv.type = conv.type
        /\ cv.nextHeight = conv.nextHeight /\ cv.nextRevision = conv.nextRevision
        /\ cv.pinned = conv.pinned /\ cv.preview = conv.preview
        /\ cv.cleared = IF global THEN Max2(conv.cleared, h) ELSE conv.cleared
    BY <1>1, <1>5 DEF Conversation, Max2
  <1>9. targets = {c.user} \/ global
    OBVIOUS
  <1> HIDE DEF s, cv, targets
  <1>10. Base(base)
    <2>1. \A u \in Users : s[u].cleared >= seats[u].cleared
      BY <1>1, <1>5, <1>6 DEF Max2
    <2>2. cv.cleared >= conv.cleared
      BY <1>1, <1>5, <1>8 DEF Max2, Conversation
    <2> HIDE DEF r
    <2> QED BY <1>3, <1>4, <1>7, <1>8, <2>1, <2>2, BaseOf DEF Now, IInv
  <1>11. Shows(base.conv, msgs)
    BY <1>3, <1>8 DEF Shows, Now, MInv
  <1>12. global => Kind = "GROUP"
    OBVIOUS
  <1> HIDE DEF global
  <1>13. Kind = "DIRECT" => base.conv.cleared = 0
    BY <1>3, <1>8, <1>12 DEF Now, MInv, MarksWithin
  <1>14. ASSUME NEW v \in Users
         PROVE  /\ base.seats[v].cleared <= conv.nextHeight
                /\ Kind = "DIRECT" =>
                      /\ base.seats[v].open
                      /\ base.seats[v].cleared <= Max2(marks[v].read, base.read[v])
    <2>1. /\ seats[v].cleared <= conv.nextHeight
          /\ Kind = "DIRECT" => seats[v].open /\ seats[v].cleared <= marks[v].read
      BY DEF Now, MInv, MarksWithin
    <2>2. base.read[v] = IF v \in targets THEN h ELSE 0
      BY <1>3
    <2> QED BY <1>1, <1>3, <1>5, <1>6, <2>1, <2>2 DEF Max2
  <1>15. CASE tx = NoEffect
    BY <1>15, NoEffectSound
  <1>16. CASE ~global /\ tx \in startReadBurnTimers(c.user, h, base)
    <2>1. base.read = [v \in Users |-> IF v = c.user THEN h ELSE 0]
      BY <1>3, <1>9, <1>16
    <2> HIDE DEF r
    <2> QED BY <1>1, <1>3, <1>10, <1>11, <1>13, <1>14, <1>16, <2>1, ReadSound
  <1>17. CASE global /\ (tx = base \/ tx \in insertSystemMessage(base))
    <2>1. SoundRows(tx) /\ SameElse(tx, base)
      <3>1. CASE tx = base
        <4>1. DOMAIN base.rows = {}
          BY <1>10 DEF Base
        <4> QED BY <1>3, <1>11, <3>1, <4>1, QuietSound DEF SameElse
      <3>2. CASE tx \in insertSystemMessage(base)
        BY <1>3, <1>10, <1>11, <3>2, SystemSound
      <3> QED BY <1>17, <3>1, <3>2
    <2>2. Kind # "DIRECT" /\ tx.seats = base.seats /\ tx.read = r
      BY <1>3, <1>12, <1>17, <2>1 DEF SameElse
    <2>3. ASSUME NEW u \in Users
          PROVE  /\ tx.read[u] <= conv.nextHeight
                 /\ \A m \in DOMAIN msgs : ~Waits(u, After(tx)[m])
      <3>1. tx.read[u] = IF u \in targets THEN h ELSE 0
        BY <2>2
      <3>2. \A m \in DOMAIN msgs : ~Waits(u, After(tx)[m])
        BY <2>1, <2>2, WaitsBefore
      <3> QED BY <1>1, <3>1, <3>2
    <2> HIDE DEF r
    <2> QED BY <1>14, <2>1, <2>2, <2>3 DEF Sound, SoundMarks
  <1> QED BY <1>2, <1>15, <1>16, <1>17

\* Whatever a well-formed request does under the lock is sound.
LEMMA EffectsSound ==
    ASSUME Now, NEW c, CallOK(c), c.op # "delivered",
           c.op = "read" => c.height <= conv.nextHeight, NEW tx \in Effects(c)
    PROVE  /\ Sound(tx)
           /\ c.op \in {"send", "edit", "react"} => assertStillSendable(c.user)
  <1>1. CASE c.op = "send" /\ c.user \in Users /\ c.d \in Ds /\ c.text \in Texts
    <2>1. tx \in sendMessage(c)
      BY <1>1 DEF Effects
    <2>2. assertStillSendable(c.user)
      BY <2>1 DEF sendMessage
    <2> QED BY <2>1, <2>2, sendMessageSound
  <1>2. CASE c.op = "server" /\ c.user \in Users /\ c.d \in Ds
    BY <1>2, insertServerMessageSound DEF Effects
  <1>3. CASE c.op = "revoke" /\ c.user \in Users /\ c.id \in DOMAIN msgs
    BY <1>3, revokeMessageSound DEF Effects
  <1>4. CASE c.op = "edit" /\ c.user \in Users /\ c.id \in DOMAIN msgs /\ c.text \in Texts
    <2>1. tx \in editMessage(c)
      BY <1>4 DEF Effects
    <2>2. assertStillSendable(c.user)
      BY <2>1 DEF editMessage
    <2> QED BY <1>4, <2>1, <2>2, editMessageSound
  <1>5. CASE /\ c.op = "react" /\ c.user \in Users /\ c.id \in DOMAIN msgs
             /\ c.add \in BOOLEAN
    <2>1. tx \in toggleReaction(c)
      BY <1>5 DEF Effects
    <2>2. assertStillSendable(c.user)
      BY <2>1 DEF toggleReaction
    <2> QED BY <1>5, <2>1, <2>2, toggleReactionSound
  <1>6. CASE c.op \in {"read", "delivered"} /\ c.user \in Users /\ c.height \in Nat
    BY <1>6, markReadSound DEF Effects
  <1>7. CASE c.op = "burn" /\ c.user \in Users /\ c.on \in BOOLEAN
    <2>1. tx \in setBurnDuration(c)
      BY <1>7 DEF Effects
    <2> QED BY <1>7, <2>1, SeatChangesSound
  <1>8. CASE c.op = "clear" /\ c.user \in Users /\ c.height \in Nat
    BY <1>8, clearHistorySound DEF Effects
  <1>9. CASE c.op = "pin" /\ c.user \in Users /\ c.id \in DOMAIN msgs \cup {None}
    <2>1. tx \in setPinnedMessage(c)
      BY <1>9 DEF Effects
    <2> QED BY <1>9, <2>1, ConversationChangesSound
  <1>10. CASE c.op = "sweep" /\ c.batch \subseteq DOMAIN msgs
    BY <1>10, sweepConversationSound DEF Effects
  <1>11. CASE /\ c.op = "silence" /\ c.user \in Users /\ c.target \in Users
              /\ c.on \in BOOLEAN
    <2>1. tx \in silenceMember(c)
      BY <1>11 DEF Effects
    <2> QED BY <1>11, <2>1, SeatChangesSound
  <1>12. CASE c.op = "remove" /\ c.user \in Users /\ c.target \in Users
    <2>1. tx \in removeStandaloneMember(c)
      BY <1>12 DEF Effects
    <2> QED BY <1>12, <2>1, SeatChangesSound
  <1>13. CASE c.op = "muteAll" /\ c.user \in Users /\ c.on \in BOOLEAN
    <2>1. tx \in setMuteAll(c)
      BY <1>13 DEF Effects
    <2> QED BY <1>13, <2>1, ConversationChangesSound
  <1> QED BY <1>1, <1>2, <1>3, <1>4, <1>5, <1>6, <1>7, <1>8, <1>9, <1>10,
             <1>11, <1>12, <1>13 DEF CallOK

-----------------------------------------------------------------------------
(* Steps that commit nothing.                                               *)

\* While the rows, the marks and the acknowledgements stay, only what the
\* jobs have found out can change, and what the clock has passed.
LEMMA QuietStep ==
    ASSUME Now, UNCHANGED <<rows, marks, acks>>, DueRuns',
           \A w \in Workers : JobSound(job'[w])
    PROVE  MInv'
  <1> USE DEF rows, Kind
  <1>1. ErasedStaysErased' /\ Shows(conv, msgs)' /\ AckedIsStored' /\ ReadStartsTimer'
    BY DEF Now, MInv, ErasedStaysErased, Shows, AckedIsStored, ReadStartsTimer
  <1>2. MarksWithin'
    BY DEF Now, MInv, MarksWithin
  <1>3. \A tx : Sound(tx)' <=> Sound(tx)
    <2>1. \A tx : SoundRows(tx)' <=> SoundRows(tx)
      BY DEF SoundRows, After, Succeeds, Fresh, Shows, Stored, SentAs
    <2>2. \A tx : SoundMarks(tx)' <=> SoundMarks(tx)
      BY DEF SoundMarks, After, Waits
    <2> QED BY <2>1, <2>2 DEF Sound
  <1>4. \A j : JobSound(j)' <=> JobSound(j)
    BY <1>3 DEF JobSound, Waits, assertGroupSpeechAllowed
  <1>5. Jobs'
    BY <1>4 DEF Jobs
  <1> QED BY <1>1, <1>2, <1>5 DEF MInv

\* One job moves on.
LEMMA OneJobStep ==
    ASSUME Now, NEW w \in Workers, UNCHANGED <<rows, marks, due, acks>>,
           job' = [job EXCEPT ![w] = job'[w]], JobSound(job'[w])
    PROVE  MInv'
  <1>1. \A v \in Workers : JobSound(job'[v])
    <2>1. \A v \in Workers \ {w} : job'[v] = job[v]
      BY DEF Now, IInv, TypeOK
    <2> QED BY <2>1 DEF Now, MInv, Jobs
  <1>2. DueRuns'
    BY DEF Now, MInv, DueRuns, rows
  <1> QED BY <1>1, <1>2, QuietStep

\* A job that has ended claims nothing.
LEMMA IdleSound == JobSound(Idle)
  BY DEF JobSound, Idle

\* A new request claims nothing but the height it was clamped to; outside a
\* direct chat no message waits for its reader.
LEMMA AskSound ==
    ASSUME Now, NEW w \in Workers, NEW phase \in {"checking", "receipt", "ready"}, NEW c,
           Ask(w, phase, c),
           c.op \in {"read", "delivered"} => c.height <= conv.nextHeight,
           phase = "receipt" /\ c.op = "read" => Kind # "DIRECT"
    PROVE  MInv'
  <1>1. /\ job' = [job EXCEPT ![w] = [phase |-> phase, call |-> c, tx |-> None]]
        /\ UNCHANGED <<rows, marks, blocked, due, lock, acks, client>>
    BY DEF Ask
  <1>2. /\ job'[w] = [phase |-> phase, call |-> c, tx |-> None]
        /\ job' = [job EXCEPT ![w] = job'[w]]
    BY <1>1 DEF Now, IInv, TypeOK
  <1>3. job'[w].phase = phase /\ job'[w].call = c /\ phase # "writing"
    BY <1>2
  <1>4. Kind # "DIRECT" => \A m \in DOMAIN msgs : ~Waits(c.user, msgs[m])
    BY RowNow DEF Waits
  <1>5. JobSound(job'[w])
    BY <1>3, <1>4 DEF JobSound
  <1> QED BY <1>1, <1>2, <1>5, OneJobStep

\* Every request.
LEMMA RequestKeeps ==
    ASSUME Now, NEW w \in Workers, Request(w)
    PROVE  MInv'
  <1>0. conv.nextHeight \in Nat
    BY Numbers DEF Now, IInv
  <1>1. CASE RequestSend(w)
    <2>1. PICK u \in Users, d \in Ds, t \in Texts :
             Ask(w, "ready", [op |-> "send", user |-> u, d |-> d, text |-> t])
      BY <1>1 DEF RequestSend
    <2> QED BY <2>1, AskSound
  <1>2. CASE RequestServer(w)
    <2>1. PICK u \in Users, d \in Ds :
             Ask(w, "ready", [op |-> "server", user |-> u, d |-> d])
      BY <1>2 DEF RequestServer
    <2> QED BY <2>1, AskSound
  <1>3. CASE RequestRevoke(w)
    <2>1. PICK u \in Users, m \in DOMAIN msgs :
             Ask(w, "ready", [op |-> "revoke", user |-> u, id |-> m])
      BY <1>3 DEF RequestRevoke
    <2> QED BY <2>1, AskSound
  <1>4. CASE RequestEdit(w)
    <2>1. PICK u \in Users, m \in DOMAIN msgs, t \in Texts :
             Ask(w, "ready", [op |-> "edit", user |-> u, id |-> m, text |-> t])
      BY <1>4 DEF RequestEdit
    <2> QED BY <2>1, AskSound
  <1>5. CASE RequestReact(w)
    <2>1. PICK u \in Users, m \in DOMAIN msgs, add \in BOOLEAN :
             Ask(w, "ready", [op |-> "react", user |-> u, id |-> m, add |-> add])
      BY <1>5 DEF RequestReact
    <2> QED BY <2>1, AskSound
  <1>6. CASE RequestRead(w)
    <2>1. PICK u \in Users, h \in 1..conv.nextHeight :
             Ask(w, IF Kind = "DIRECT" THEN "checking" ELSE "receipt",
                 [op |-> "read", user |-> u, height |-> h])
      BY <1>6 DEF RequestRead
    <2>2. h <= conv.nextHeight
      BY <1>0
    <2>3. CASE Kind = "DIRECT"
      BY <2>1, <2>2, <2>3, AskSound
    <2>4. CASE Kind # "DIRECT"
      BY <2>1, <2>2, <2>4, AskSound
    <2> QED BY <2>3, <2>4
  <1>7. CASE RequestDelivered(w)
    <2>1. PICK u \in Users, h \in 1..conv.nextHeight :
             Ask(w, "receipt", [op |-> "delivered", user |-> u, height |-> h])
      BY <1>7 DEF RequestDelivered
    <2> QED BY <1>0, <2>1, AskSound
  <1>8. CASE RequestBurn(w)
    <2>1. PICK u \in Users, on \in BOOLEAN :
             Ask(w, "ready", [op |-> "burn", user |-> u, on |-> on])
      BY <1>8 DEF RequestBurn
    <2> QED BY <2>1, AskSound
  <1>9. CASE RequestClear(w)
    <2>1. PICK u \in Users, everyone \in BOOLEAN, h \in 1..Cardinality(MsgIds) :
             Ask(w, "ready", [op |-> "clear", user |-> u, everyone |-> everyone,
                              height |-> h])
      BY <1>9 DEF RequestClear
    <2> QED BY <2>1, AskSound
  <1>10. CASE RequestPin(w)
    <2>1. PICK u \in Users, m \in DOMAIN msgs \cup {None} :
             Ask(w, "ready", [op |-> "pin", user |-> u, id |-> m,
                              floor |-> ClearedFloor(u)])
      BY <1>10 DEF RequestPin
    <2> QED BY <2>1, AskSound
  <1>11. CASE RequestSweep(w)
    <2>1. PICK batch : Ask(w, "ready", [op |-> "sweep", batch |-> batch])
      BY <1>11 DEF RequestSweep
    <2> QED BY <2>1, AskSound
  <1>12. CASE RequestGovern(w)
    <2>1. PICK u \in Users :
             \/ \E t \in Users, on \in BOOLEAN :
                   Ask(w, "ready", [op |-> "silence", user |-> u, target |-> t, on |-> on])
             \/ \E t \in Users :
                   Ask(w, "ready", [op |-> "remove", user |-> u, target |-> t])
             \/ \E on \in BOOLEAN :
                   Ask(w, "ready", [op |-> "muteAll", user |-> u, on |-> on])
      BY <1>12 DEF RequestGovern
    <2> QED BY <2>1, AskSound
  <1> QED BY <1>1, <1>2, <1>3, <1>4, <1>5, <1>6, <1>7, <1>8, <1>9, <1>10,
             <1>11, <1>12 DEF Request

\* The check without the lock finds no timer to start: none will wait below
\* that height again, whatever is committed before the receipt is written.
LEMMA CheckReadTimersKeeps ==
    ASSUME Now, NEW w \in Workers, CheckReadTimers(w)
    PROVE  MInv'
  <1> DEFINE c == job[w].call
             p == IF ReadBurnRows(c.user, c.height) # {} THEN "ready" ELSE "receipt"
  <1>1. /\ job' = [job EXCEPT ![w] = [job[w] EXCEPT !.phase = p]]
        /\ UNCHANGED <<rows, marks, blocked, due, lock, acks, client>>
        /\ job[w].phase = "checking"
    BY DEF CheckReadTimers
  <1>2. /\ c.op = "read" /\ c.user \in Users
        /\ c.height <= conv.nextHeight
    BY <1>1 DEF Now, IInv, Prepared, CallOK, MInv, Jobs, JobSound
  <1>3. /\ job'[w] = [job[w] EXCEPT !.phase = p]
        /\ job' = [job EXCEPT ![w] = job'[w]]
    BY <1>1 DEF Now, IInv, TypeOK
  <1>4. job'[w].phase = p /\ job'[w].call = c
    BY <1>3 DEF Now, IInv, TypeOK
  <1>5. ASSUME p = "receipt", NEW m \in DOMAIN msgs, msgs[m].height <= c.height,
               Waits(c.user, msgs[m])
        PROVE  FALSE
    <2>1. ReadBurnRows(c.user, c.height) = {}
      BY <1>5
    <2>2. Kind = "DIRECT"
      BY <1>5, RowNow DEF Waits
    <2>3. /\ seats[c.user].open /\ seats[c.user].cleared <= marks[c.user].read
          /\ conv.cleared = 0
      BY <1>2, <2>2 DEF Now, MInv, MarksWithin
    <2>4. ~(msgs[m].height <= marks[c.user].read)
      BY <1>2, <1>5 DEF Now, MInv, ReadStartsTimer, Waits
    <2>5. seats[c.user].cleared \in Nat /\ marks[c.user].read \in Nat
      BY <1>2 DEF Now, IInv, TypeOK, Seat
    <2>6. msgs[m].height > ClearedFloor(c.user)
      BY <2>3, <2>4, <2>5, RowNow DEF ClearedFloor, Max2
    <2> QED BY <1>5, <2>1, <2>2, <2>3, <2>6 DEF ReadBurnRows, Waits
  <1>6. JobSound(job'[w])
    <2>1. p \in {"ready", "receipt"}
      OBVIOUS
    <2> HIDE DEF p
    <2> QED BY <1>2, <1>4, <1>5, <2>1 DEF JobSound
  <1> QED BY <1>1, <1>3, <1>6, OneJobStep

\* The lock is taken and the effect computed from the rows as they are.
LEMMA LockRowKeeps ==
    ASSUME Now, NEW w \in Workers, LockRow(w)
    PROVE  MInv'
  <1> DEFINE c == job[w].call
  <1>1. PICK tx \in Effects(c) :
            job' = [job EXCEPT ![w].phase = "writing", ![w].tx = tx]
    BY DEF LockRow
  <1>2. /\ UNCHANGED <<rows, marks, blocked, due, acks, client>>
        /\ job[w].phase = "ready" /\ CallOK(c) /\ c.op # "delivered"
        /\ c.op = "read" => c.height <= conv.nextHeight
    BY DEF LockRow, Now, IInv, Prepared, MInv, Jobs, JobSound
  <1>3. /\ Sound(tx)
        /\ c.op \in {"send", "edit", "react"} => assertStillSendable(c.user)
    BY <1>2, EffectsSound
  <1>4. /\ job'[w] = [[job[w] EXCEPT !.phase = "writing"] EXCEPT !.tx = tx]
        /\ job' = [job EXCEPT ![w] = job'[w]]
    BY <1>1 DEF Now, IInv, TypeOK
  <1>5. /\ job'[w].phase = "writing" /\ job'[w].call = c /\ job'[w].tx = tx
    BY <1>4 DEF Now, IInv, TypeOK
  <1>6. JobSound(job'[w])
    BY <1>2, <1>3, <1>5 DEF JobSound, assertStillSendable
  <1> QED BY <1>2, <1>4, <1>6, OneJobStep

\* Receipts move one mark forward, at most to the height the job may rely on.
LEMMA ReceiptMarks ==
    ASSUME Now, NEW w \in Workers, WriteReceipt(w)
    PROVE  /\ UNCHANGED <<rows, blocked, due, lock, acks, client>>
           /\ \A u \in Users :
                 /\ marks[u].read \in Nat /\ marks[u].delivered \in Nat
                 /\ marks'[u].read \in Nat /\ marks'[u].delivered \in Nat
                 /\ marks'[u].read >= marks[u].read
                 /\ marks'[u].delivered >= marks[u].delivered
                 /\ marks'[u].read <= conv.nextHeight
                 /\ marks'[u].delivered <= conv.nextHeight
                 /\ \A m \in DOMAIN msgs :
                       msgs[m].height <= marks'[u].read => ~Waits(u, msgs[m])
  <1> DEFINE c == job[w].call
  <1>1. /\ UNCHANGED <<rows, blocked, due, lock, acks, client>>
        /\ job[w].phase = "receipt"
    BY DEF WriteReceipt
  <1>2. /\ c.op \in {"read", "delivered"} /\ c.user \in Users /\ c.height \in Nat
        /\ c.height <= conv.nextHeight
    BY <1>1 DEF Now, IInv, Prepared, CallOK, MInv, Jobs, JobSound
  <1>3. c.op = "read" => \A m \in DOMAIN msgs :
             msgs[m].height <= c.height => ~Waits(c.user, msgs[m])
    BY <1>1 DEF Now, MInv, Jobs, JobSound
  <1>4. ASSUME NEW u \in Users
        PROVE  /\ marks[u] \in [read: Nat, delivered: Nat]
               /\ marks[u].read <= conv.nextHeight /\ marks[u].delivered <= conv.nextHeight
               /\ \A m \in DOMAIN msgs :
                     msgs[m].height <= marks[u].read => ~Waits(u, msgs[m])
    BY DEF Now, IInv, TypeOK, MInv, MarksWithin, ReadStartsTimer, Waits
  <1>5. \/ marks' = [marks EXCEPT ![c.user].read = Max2(@, c.height)] /\ c.op = "read"
        \/ marks' = [marks EXCEPT ![c.user].delivered = Max2(@, c.height)]
        \/ marks' = marks
    BY DEF WriteReceipt
  <1>6. marks \in [Users -> [read: Nat, delivered: Nat]]
    BY DEF Now, IInv, TypeOK
  <1>7. ASSUME NEW u \in Users
        PROVE  \/ /\ marks'[u].read = Max2(marks[u].read, c.height)
                  /\ c.op = "read" /\ u = c.user
                  /\ marks'[u].delivered = marks[u].delivered
               \/ /\ marks'[u].delivered = Max2(marks[u].delivered, c.height)
                  /\ marks'[u].read = marks[u].read
               \/ marks'[u] = marks[u]
    BY <1>5, <1>6
  <1> HIDE DEF c
  <1>8. ASSUME NEW u \in Users
        PROVE  /\ marks'[u].read \in Nat /\ marks'[u].delivered \in Nat
               /\ marks'[u].read >= marks[u].read
               /\ marks'[u].delivered >= marks[u].delivered
               /\ marks'[u].read <= conv.nextHeight
               /\ marks'[u].delivered <= conv.nextHeight
    BY <1>2, <1>4, <1>7 DEF Max2
  <1>9. ASSUME NEW u \in Users, NEW m \in DOMAIN msgs, msgs[m].height <= marks'[u].read
        PROVE  ~Waits(u, msgs[m])
    <2>1. \/ msgs[m].height <= marks[u].read
          \/ c.op = "read" /\ u = c.user /\ msgs[m].height <= c.height
      BY <1>2, <1>4, <1>7, <1>9 DEF Max2
    <2> QED BY <1>3, <1>4, <2>1
  <1> QED BY <1>1, <1>4, <1>8, <1>9

\* A receipt passes no timer that waits, and disturbs nobody's effect.
LEMMA WriteReceiptKeeps ==
    ASSUME Now, NEW w \in Workers, WriteReceipt(w)
    PROVE  MInv'
  <1> USE DEF rows, Kind
  <1>1. /\ UNCHANGED <<rows, blocked, due, lock, acks, client>>
        /\ \A u \in Users :
              /\ marks[u].read \in Nat /\ marks[u].delivered \in Nat
              /\ marks'[u].read \in Nat /\ marks'[u].delivered \in Nat
              /\ marks'[u].read >= marks[u].read
              /\ marks'[u].delivered >= marks[u].delivered
              /\ marks'[u].read <= conv.nextHeight
              /\ marks'[u].delivered <= conv.nextHeight
              /\ \A m \in DOMAIN msgs :
                    msgs[m].height <= marks'[u].read => ~Waits(u, msgs[m])
    BY ReceiptMarks
  <1>2. job' = [job EXCEPT ![w] = Idle]
    BY DEF WriteReceipt
  <1>3. ErasedStaysErased' /\ Shows(conv, msgs)' /\ AckedIsStored' /\ DueRuns'
    BY <1>1 DEF Now, MInv, ErasedStaysErased, Shows, AckedIsStored, DueRuns
  <1>4. ReadStartsTimer'
    BY <1>1 DEF ReadStartsTimer, Waits
  <1>5. MarksWithin'
    <2>1. ASSUME NEW u \in Users, Kind = "DIRECT"
          PROVE  seats[u].open /\ seats[u].cleared <= marks'[u].read
      <3>1. seats[u].cleared \in Nat
        BY DEF Now, IInv, TypeOK, Seat
      <3> QED BY <1>1, <2>1, <3>1 DEF Now, MInv, MarksWithin
    <2> QED BY <1>1, <2>1 DEF Now, MInv, MarksWithin
  <1>6. \A tx : IsTx(tx) /\ Sound(tx) => Sound(tx)'
    <2> SUFFICES ASSUME NEW tx, IsTx(tx), Sound(tx) PROVE Sound(tx)'
      OBVIOUS
    <2>1. SoundRows(tx)'
      BY <1>1 DEF Sound, SoundRows, After, Succeeds, Fresh, Shows, Stored, SentAs
    <2>2. ASSUME NEW u \in Users, Kind = "DIRECT"
          PROVE  tx.seats[u].cleared <= Max2(marks'[u].read, tx.read[u])
      <3>1. tx.seats[u].cleared \in Nat /\ tx.read[u] \in Nat
        BY DEF IsTx, Seat
      <3>2. tx.seats[u].cleared <= Max2(marks[u].read, tx.read[u])
        BY <2>2 DEF Sound, SoundMarks
      <3> QED BY <1>1, <3>1, <3>2 DEF Max2
    <2>3. SoundMarks(tx)'
      BY <1>1, <2>2 DEF Sound, SoundMarks, After, Waits
    <2> QED BY <2>1, <2>3 DEF Sound
  <1>7. \A j : JobSound(j) /\ (j.phase = "writing" => IsTx(j.tx)) => JobSound(j)'
    BY <1>1, <1>6 DEF JobSound, Waits, assertGroupSpeechAllowed
  <1>8. ASSUME NEW v \in Workers
        PROVE  JobSound(job'[v]) /\ (job'[v].phase = "writing" => IsTx(job'[v].tx))
    <2>1. job'[v] = IF v = w THEN Idle ELSE job[v]
      BY <1>2 DEF Now, IInv, TypeOK
    <2>2. JobSound(job[v]) /\ (job[v].phase = "writing" => IsTx(job[v].tx))
      BY DEF Now, MInv, Jobs, IInv, TypeOK
    <2> QED BY <2>1, <2>2, IdleSound DEF Idle
  <1>9. Jobs'
    BY <1>7, <1>8 DEF Jobs
  <1> QED BY <1>3, <1>4, <1>5, <1>9 DEF MInv

\* Refusals and failures end a job, the clock passes a timer that runs, and
\* blocking and devices touch none of this.
LEMMA OthersKeep ==
    ASSUME Now,
           \/ \E w \in Workers : Refuse(w) \/ Fail(w)
           \/ \E m \in MsgIds : Expire(m)
           \/ ToggleBlock
           \/ \E k \in Clients : \/ SyncBegin(k) \/ SyncPage(k) \/ SyncReactions(k)
                                 \/ SyncDeliver(k) \/ SyncLost(k)
           \/ UNCHANGED vars
    PROVE  MInv'
  <1>1. CASE \E w \in Workers : Refuse(w) \/ Fail(w)
    <2>1. PICK w \in Workers : Refuse(w) \/ Fail(w)
      BY <1>1
    <2>2. /\ job' = [job EXCEPT ![w] = Idle]
          /\ UNCHANGED <<rows, marks, due, acks>>
      BY <2>1 DEF Refuse, Fail
    <2>3. job'[w] = Idle /\ job' = [job EXCEPT ![w] = job'[w]]
      BY <2>2 DEF Now, IInv, TypeOK
    <2> QED BY <2>2, <2>3, IdleSound, OneJobStep
  <1>2. CASE \E m \in MsgIds : Expire(m)
    <2>1. PICK m \in MsgIds : Expire(m)
      BY <1>2
    <2>2. UNCHANGED <<rows, marks, job, acks>> /\ DueRuns'
      BY <2>1 DEF Expire, Now, MInv, DueRuns, rows
    <2> QED BY <2>2, QuietStep DEF Now, MInv, Jobs
  <1>3. ASSUME UNCHANGED <<rows, marks, due, job, acks>>
        PROVE  MInv'
    <2>1. DueRuns'
      BY <1>3 DEF Now, MInv, DueRuns, rows
    <2> QED BY <1>3, <2>1, QuietStep DEF Now, MInv, Jobs
  <1>4. CASE ToggleBlock
    BY <1>3, <1>4 DEF ToggleBlock
  <1>5. CASE \E k \in Clients : \/ SyncBegin(k) \/ SyncPage(k) \/ SyncReactions(k)
                                \/ SyncDeliver(k) \/ SyncLost(k)
    BY <1>3, <1>5 DEF SyncBegin, SyncPage, SyncReactions, SyncDeliver, SyncLost
  <1>6. CASE UNCHANGED vars
    BY <1>3, <1>6 DEF vars, rows
  <1> QED BY <1>1, <1>2, <1>4, <1>5, <1>6

-----------------------------------------------------------------------------
(* The commit makes true what the effect promised.                          *)

\* What the effect becomes, in the terms the invariant speaks of.
LEMMA CommitEffect ==
    ASSUME Now, NEW w \in Workers, Commit(w)
    PROVE  LET tx == job[w].tx
           IN  /\ IsTx(tx) /\ Forward(tx) /\ Stacked(tx) /\ Sound(tx)
               /\ conv' = tx.conv /\ seats' = tx.seats /\ msgs' = After(tx)
               /\ acks' = acks \cup tx.acks /\ due' = due
               /\ job' = [job EXCEPT ![w] = Idle]
               /\ \A v \in Workers \ {w} : job[v].phase # "writing"
               /\ \A u \in Users :
                     /\ marks[u].read \in Nat /\ marks[u].delivered \in Nat
                     /\ tx.read[u] \in Nat
                     /\ marks'[u].read = Max2(marks[u].read, tx.read[u])
                     /\ marks'[u].delivered = marks[u].delivered
  <1> DEFINE tx == job[w].tx
  <1>1. /\ IsTx(tx) /\ Forward(tx) /\ Stacked(tx) /\ Sound(tx) /\ lock = w
    BY DEF Commit, Now, IInv, Prepared, Legal, MInv, Jobs, JobSound
  <1>2. /\ conv' = tx.conv /\ seats' = tx.seats /\ msgs' = After(tx)
        /\ acks' = acks \cup tx.acks /\ due' = due
        /\ job' = [job EXCEPT ![w] = Idle]
        /\ marks' = [u \in Users |-> [marks[u] EXCEPT !.read = Max2(@, tx.read[u])]]
    BY DEF Commit, After
  <1>3. \A v \in Workers \ {w} : job[v].phase # "writing"
    BY <1>1 DEF Now, IInv, Prepared
  <1> HIDE DEF tx
  <1>4. ASSUME NEW u \in Users
        PROVE  /\ marks[u].read \in Nat /\ marks[u].delivered \in Nat
               /\ tx.read[u] \in Nat
               /\ marks'[u].read = Max2(marks[u].read, tx.read[u])
               /\ marks'[u].delivered = marks[u].delivered
    <2>1. marks[u] \in [read: Nat, delivered: Nat] /\ tx.read[u] \in Nat
      BY <1>1 DEF Now, IInv, TypeOK, IsTx
    <2>2. marks'[u] = [marks[u] EXCEPT !.read = Max2(@, tx.read[u])]
      BY <1>2
    <2> QED BY <2>1, <2>2
  <1> QED BY <1>1, <1>2, <1>3, <1>4 DEF tx

\* Old rows are succeeded, and there is one new row at most.
LEMMA CommitMessages ==
    ASSUME Now, NEW w \in Workers, Commit(w)
    PROVE  /\ Kind' = Kind /\ conv.nextHeight \in Nat /\ conv'.nextHeight \in Nat
           /\ conv'.nextHeight >= conv.nextHeight
           /\ DOMAIN msgs \subseteq DOMAIN msgs'
           /\ \A m \in DOMAIN msgs : Succeeds(msgs'[m], msgs[m])
           /\ \A m \in DOMAIN msgs' \ DOMAIN msgs : Fresh(msgs'[m])
           /\ \A m1, m2 \in DOMAIN msgs' \ DOMAIN msgs : m1 = m2
           /\ \A u \in Users, m \in DOMAIN msgs :
                 Waits(u, msgs'[m]) => Waits(u, msgs[m]) /\ Kind = "DIRECT"
  <1> DEFINE tx == job[w].tx
  <1>1. /\ IsTx(tx) /\ Forward(tx) /\ Stacked(tx) /\ SoundRows(tx)
        /\ conv' = tx.conv /\ msgs' = After(tx)
    BY CommitEffect DEF Sound
  <1> HIDE DEF tx
  <1>2. /\ Kind' = Kind /\ conv.nextHeight \in Nat /\ conv'.nextHeight \in Nat
        /\ conv'.nextHeight >= conv.nextHeight
    BY <1>1 DEF Forward, IsTx, Conversation, Kind, Now, IInv, TypeOK
  <1>3. \A m1, m2 \in DOMAIN msgs' \ DOMAIN msgs : m1 = m2
    BY <1>1, AfterRows DEF Stacked
  <1>4. \A u \in Users, m \in DOMAIN msgs :
           Waits(u, msgs'[m]) => Waits(u, msgs[m]) /\ Kind = "DIRECT"
    BY <1>1, WaitsBefore
  <1> QED BY <1>1, <1>2, <1>3, <1>4 DEF SoundRows

LEMMA CommitKeeps ==
    ASSUME Now, NEW w \in Workers, Commit(w)
    PROVE  MInv'
  <1> DEFINE tx == job[w].tx
  <1>1. /\ IsTx(tx) /\ Forward(tx) /\ SoundRows(tx) /\ SoundMarks(tx)
        /\ conv' = tx.conv /\ seats' = tx.seats /\ msgs' = After(tx)
        /\ acks' = acks \cup tx.acks /\ due' = due
        /\ job' = [job EXCEPT ![w] = Idle]
        /\ \A v \in Workers \ {w} : job[v].phase # "writing"
        /\ \A u \in Users :
              /\ marks[u].read \in Nat /\ marks[u].delivered \in Nat
              /\ tx.read[u] \in Nat
              /\ marks'[u].read = Max2(marks[u].read, tx.read[u])
              /\ marks'[u].delivered = marks[u].delivered
    BY CommitEffect DEF Sound
  <1>2. /\ Kind' = Kind /\ conv.nextHeight \in Nat /\ conv'.nextHeight \in Nat
        /\ conv'.nextHeight >= conv.nextHeight
        /\ DOMAIN msgs \subseteq DOMAIN msgs'
        /\ \A m \in DOMAIN msgs : Succeeds(msgs'[m], msgs[m])
        /\ \A m \in DOMAIN msgs' \ DOMAIN msgs : Fresh(msgs'[m])
        /\ \A m1, m2 \in DOMAIN msgs' \ DOMAIN msgs : m1 = m2
        /\ \A u \in Users, m \in DOMAIN msgs :
              Waits(u, msgs'[m]) => Waits(u, msgs[m]) /\ Kind = "DIRECT"
    BY CommitMessages
  <1> HIDE DEF tx
  <1>3. ErasedStaysErased'
    BY <1>2 DEF ErasedStaysErased, Succeeds, Fresh
  <1>4. Shows(conv, msgs)'
    BY <1>1 DEF SoundRows, Shows
  <1>5. AckedIsStored'
    <2>1. ASSUME NEW a \in acks'
          PROVE  /\ a.id \in DOMAIN msgs'
                 /\ msgs'[a.id].sender = a.user /\ msgs'[a.id].d = a.d
                 /\ msgs'[a.id].requestHash \in {None, a.text}
      <3>1. CASE a \in acks
        BY <1>2, <3>1 DEF Now, MInv, AckedIsStored, Succeeds
      <3>2. CASE a \in tx.acks
        BY <1>1, <3>2 DEF SoundRows, Stored
      <3> QED BY <1>1, <3>1, <3>2
    <2>2. ASSUME NEW m1 \in DOMAIN msgs', NEW m2 \in DOMAIN msgs',
                 msgs'[m1].d # None, msgs'[m1].d = msgs'[m2].d,
                 msgs'[m1].sender = msgs'[m2].sender
          PROVE  m1 = m2
      <3>1. ASSUME NEW i \in DOMAIN msgs, NEW k \in DOMAIN msgs' \ DOMAIN msgs
            PROVE  ~ /\ msgs'[i].d # None /\ msgs'[i].d = msgs'[k].d
                     /\ msgs'[i].sender = msgs'[k].sender
        BY <1>2 DEF Succeeds, Fresh, SentAs
      <3>2. CASE m1 \in DOMAIN msgs /\ m2 \in DOMAIN msgs
        BY <1>2, <2>2, <3>2 DEF Succeeds, Now, MInv, AckedIsStored
      <3>3. CASE m1 \notin DOMAIN msgs /\ m2 \notin DOMAIN msgs
        BY <1>2, <3>3
      <3> QED BY <2>2, <3>1, <3>2, <3>3
    <2> QED BY <2>1, <2>2 DEF AckedIsStored
  <1>6. \A u \in Users : tx.read[u] <= conv.nextHeight /\ marks[u].read <= conv.nextHeight
    BY <1>1 DEF SoundMarks, Now, MInv, MarksWithin
  <1>7. ReadStartsTimer'
    <2> SUFFICES ASSUME NEW u \in Users, NEW m \in DOMAIN msgs',
                        msgs'[m].height <= marks'[u].read, Waits(u, msgs'[m])
                 PROVE  FALSE
      BY DEF ReadStartsTimer, Waits
    <2>1. CASE m \in DOMAIN msgs
      <3>1. Waits(u, msgs[m]) /\ msgs'[m].height = msgs[m].height
        BY <1>2, <2>1 DEF Succeeds
      <3>2. ~(msgs[m].height <= marks[u].read)
        BY <2>1, <3>1 DEF Now, MInv, ReadStartsTimer, Waits
      <3>3. ~(msgs[m].height <= tx.read[u])
        BY <1>1, <2>1 DEF SoundMarks
      <3> QED BY <1>1, <3>1, <3>2, <3>3 DEF Max2
    <2>2. CASE m \notin DOMAIN msgs
      <3>1. msgs'[m].height = conv.nextHeight + 1
        BY <1>2, <2>2 DEF Fresh
      <3> QED BY <1>1, <1>2, <1>6, <3>1 DEF Max2
    <2> QED BY <2>1, <2>2
  <1>8. DueRuns'
    <2>1. \A m \in due : m \in DOMAIN msgs /\ msgs[m].burn = "running"
      BY DEF Now, IInv, TypeOK, MInv, DueRuns
    <2> QED BY <1>1, <1>2, <2>1 DEF DueRuns, Succeeds
  <1>9. MarksWithin'
    <2>1. ASSUME NEW u \in Users
          PROVE  /\ marks'[u].read <= conv'.nextHeight
                 /\ marks'[u].delivered <= conv'.nextHeight
                 /\ seats'[u].cleared <= conv'.nextHeight
                 /\ Kind' = "DIRECT" =>
                       seats'[u].open /\ seats'[u].cleared <= marks'[u].read
      <3>1. marks[u].delivered <= conv.nextHeight
        BY DEF Now, MInv, MarksWithin
      <3>2. tx.seats[u].cleared \in Nat
        BY <1>1 DEF IsTx, Seat
      <3>3. /\ tx.seats[u].cleared <= conv.nextHeight
            /\ Kind = "DIRECT" =>
                  /\ tx.seats[u].open
                  /\ tx.seats[u].cleared <= Max2(marks[u].read, tx.read[u])
        BY <1>1 DEF SoundMarks
      <3> QED BY <1>1, <1>2, <1>6, <3>1, <3>2, <3>3 DEF Max2
    <2>2. Kind' = "DIRECT" => conv'.cleared = 0
      BY <1>1, <1>2 DEF SoundMarks
    <2>3. ASSUME NEW m \in DOMAIN msgs', msgs'[m].burn = "armed" PROVE Kind' = "DIRECT"
      <3>1. CASE m \in DOMAIN msgs
        BY <1>2, <2>3, <3>1, RowNow DEF Succeeds
      <3>2. CASE m \notin DOMAIN msgs
        BY <1>2, <2>3, <3>2 DEF Fresh
      <3> QED BY <3>1, <3>2
    <2> QED BY <2>1, <2>2, <2>3 DEF MarksWithin
  <1>10. ASSUME NEW v \in Workers PROVE JobSound(job[v])'
    <2>1. job'[v] = IF v = w THEN Idle ELSE job[v]
      BY <1>1 DEF Now, IInv, TypeOK
    <2>2. CASE v = w
      <3>1. job'[v].phase = "idle"
        BY <2>1, <2>2 DEF Idle
      <3> QED BY <3>1 DEF JobSound
    <2>3. CASE v # w
      <3> DEFINE j == job[v]
      <3>1. job'[v] = j /\ JobSound(j) /\ j.phase # "writing"
        BY <1>1, <2>1, <2>3 DEF Now, MInv, Jobs
      <3>2. j.phase # "idle" /\ j.call.op \in {"read", "delivered"} =>
               /\ j.call.user \in Users /\ j.call.height \in Nat
               /\ j.call.height <= conv.nextHeight
        BY <3>1 DEF JobSound, Now, IInv, Prepared, CallOK
      <3> HIDE DEF j
      <3>3. ASSUME j.phase = "receipt", j.call.op = "read", NEW m \in DOMAIN msgs',
                   msgs'[m].height <= j.call.height, Waits(j.call.user, msgs'[m])
            PROVE  FALSE
        <4>1. CASE m \in DOMAIN msgs
          <5>1. Waits(j.call.user, msgs[m]) /\ msgs'[m].height = msgs[m].height
            BY <1>2, <3>2, <3>3, <4>1 DEF Succeeds
          <5> QED BY <3>1, <3>3, <4>1, <5>1 DEF JobSound
        <4>2. CASE m \notin DOMAIN msgs
          <5>1. msgs'[m].height = conv.nextHeight + 1
            BY <1>2, <4>2 DEF Fresh
          <5> QED BY <1>2, <3>2, <3>3, <5>1
        <4> QED BY <4>1, <4>2
      <3>4. j.phase # "idle" /\ j.call.op \in {"read", "delivered"} =>
               j.call.height <= conv'.nextHeight
        BY <1>2, <3>2
      <3> QED BY <3>1, <3>3, <3>4 DEF JobSound, Waits
    <2> QED BY <2>2, <2>3
  <1> QED BY <1>3, <1>4, <1>5, <1>7, <1>8, <1>9, <1>10 DEF MInv, Jobs

-----------------------------------------------------------------------------
(* The theorems.                                                            *)

\* A conversation starts without marks, and with old messages only.
LEMMA InitMInv ==
    ASSUME Init
    PROVE  MInv
  <1>1. /\ conv.pinned = None /\ conv.nextHeight = Legacy /\ conv.cleared = 0
        /\ Legacy \in Nat /\ due = {} /\ acks = {}
    BY BoundsAssumption DEF Init
  <1>2. \A m \in DOMAIN msgs : /\ msgs[m].burn = "none" /\ msgs[m].d = None
                               /\ ~msgs[m].revoked /\ ~msgs[m].deleted
    BY DEF Init, backfill_revision
  <1>3. \A u \in Users : /\ marks[u].read = 0 /\ marks[u].delivered = 0
                         /\ seats[u].open /\ seats[u].cleared = 0
    BY DEF Init
  <1>4. \A w \in Workers : job[w] = Idle
    BY DEF Init
  <1>5. Jobs
    BY <1>4, IdleSound DEF Jobs
  <1>6. ErasedStaysErased /\ Shows(conv, msgs) /\ AckedIsStored /\ ReadStartsTimer /\ DueRuns
    BY <1>1, <1>2 DEF ErasedStaysErased, Shows, AckedIsStored, ReadStartsTimer, DueRuns
  <1>7. MarksWithin
    BY <1>1, <1>2, <1>3 DEF MarksWithin
  <1> QED BY <1>5, <1>6, <1>7 DEF MInv

\* Every step keeps it.
LEMMA NextMInv ==
    ASSUME Now, [Next]_vars
    PROVE  MInv'
  <1>1. ASSUME NEW w \in Workers, Request(w)
        PROVE  MInv'
    BY <1>1, RequestKeeps
  <1>2. ASSUME NEW w \in Workers, CheckReadTimers(w)
        PROVE  MInv'
    BY <1>2, CheckReadTimersKeeps
  <1>3. ASSUME NEW w \in Workers, WriteReceipt(w)
        PROVE  MInv'
    BY <1>3, WriteReceiptKeeps
  <1>4. ASSUME NEW w \in Workers, LockRow(w)
        PROVE  MInv'
    BY <1>4, LockRowKeeps
  <1>5. ASSUME NEW w \in Workers, Commit(w)
        PROVE  MInv'
    BY <1>5, CommitKeeps
  <1> QED BY <1>1, <1>2, <1>3, <1>4, <1>5, OthersKeep DEF Next

\* What the rows, marks and jobs of a conversation always satisfy.
THEOREM ConversationInvariant == Spec => []Now
  <1>1. Init => Now
    BY InitIInv, InitMInv DEF Now
  <1>2. Now /\ [Next]_vars => Now'
    BY NextIInv, NextMInv DEF Now
  <1> QED BY <1>1, <1>2, PTL DEF Spec

\* An acknowledged send is stored under its id and body, and a delivery id
\* names one message of its sender, whatever retries, crashes and overlapping
\* requests there are (sendMessage checks for the id under the row lock).
THEOREM AcksAreStored == Spec => []AckedIsStored
  <1>1. Now => AckedIsStored
    BY DEF Now, MInv
  <1> QED BY <1>1, ConversationInvariant, PTL

\* The banner shows a live message with its current text, however pin, edit,
\* revoke and sweep overlap (each updates the banner in its transaction).
THEOREM BannerIsLive == Spec => []PinnedIsLive
  <1>1. Now => PinnedIsLive
    BY DEF Now, MInv, Shows, PinnedIsLive
  <1> QED BY <1>1, ConversationInvariant, PTL

\* Revoked and burned messages have no text left, whichever of edit, revoke
\* and sweep is committed last (each looks at the message again under the lock).
THEOREM ErasedForGood == Spec => []ErasedStaysErased
  <1>1. Now => ErasedStaysErased
    BY DEF Now, MInv
  <1> QED BY <1>1, ConversationInvariant, PTL

\* No message, edit or reaction of a member who may no longer speak is
\* committed (assertStillSendable runs again under the lock).
THEOREM SpeechIsGated == Spec => []SpeechGate
  <1>1. Now => SpeechGate
    BY DEF Now, MInv, Jobs, JobSound, SpeechGate
  <1> QED BY <1>1, ConversationInvariant, PTL

\* A message at or below the read mark of its reader does not wait for its
\* timer, although receipts without timers to start skip the lock.
THEOREM ReadTimersRun == Spec => []ReadStartsTimer
  <1>1. Now => ReadStartsTimer
    BY DEF Now, MInv
  <1> QED BY <1>1, ConversationInvariant, PTL

\* Commits and receipts move them forward, nothing else moves them.
LEMMA NextMarks ==
    ASSUME Now, Now', [Next]_vars
    PROVE  [MarksMove]_<<conv, seats, marks>>
  <1>1. \A u \in Users : /\ marks'[u].read <= conv'.nextHeight
                         /\ marks'[u].delivered <= conv'.nextHeight
                         /\ seats'[u].cleared <= conv'.nextHeight
    BY DEF Now, MInv, MarksWithin
  <1>2. ASSUME NEW w \in Workers, Commit(w)
        PROVE  MarksMove
    <2> DEFINE tx == job[w].tx
    <2>1. /\ Forward(tx) /\ conv' = tx.conv /\ seats' = tx.seats
          /\ \A u \in Users :
                /\ marks[u].read \in Nat /\ marks[u].delivered \in Nat
                /\ tx.read[u] \in Nat
                /\ marks'[u].read = Max2(marks[u].read, tx.read[u])
                /\ marks'[u].delivered = marks[u].delivered
      BY <1>2, CommitEffect
    <2> HIDE DEF tx
    <2> QED BY <1>1, <2>1 DEF Forward, MarksMove, Max2
  <1>3. ASSUME NEW w \in Workers, WriteReceipt(w)
        PROVE  MarksMove
    <2>1. /\ UNCHANGED rows
          /\ \A u \in Users : /\ marks'[u].read >= marks[u].read
                              /\ marks'[u].delivered >= marks[u].delivered
      BY <1>3, ReceiptMarks
    <2>2. /\ conv \in Conversation /\ \A u \in Users : seats[u] \in Seat
      BY DEF Now, IInv, TypeOK
    <2> QED BY <1>1, <2>1, <2>2 DEF rows, MarksMove, Conversation, Seat
  <1>4. ASSUME NEW w \in Workers,
               \/ Request(w) \/ CheckReadTimers(w) \/ LockRow(w) \/ Refuse(w) \/ Fail(w)
        PROVE  UNCHANGED <<conv, seats, marks>>
    BY <1>4 DEF Request, RequestSend, RequestServer, RequestRevoke, RequestEdit,
                RequestReact, RequestRead, RequestDelivered, RequestBurn, RequestClear,
                RequestPin, RequestSweep, RequestGovern, Ask, CheckReadTimers, LockRow,
                Refuse, Fail, rows
  <1>5. CASE \/ \E m \in MsgIds : Expire(m)
             \/ ToggleBlock
             \/ \E k \in Clients : \/ SyncBegin(k) \/ SyncPage(k) \/ SyncReactions(k)
                                   \/ SyncDeliver(k) \/ SyncLost(k)
             \/ UNCHANGED vars
    BY <1>5 DEF Expire, ToggleBlock, SyncBegin, SyncPage, SyncReactions, SyncDeliver,
                SyncLost, rows, vars
  <1> QED BY <1>2, <1>3, <1>4, <1>5 DEF Next

\* Read, delivered and clear levels never move back and never pass the newest
\* message, although receipts are written without the lock.
THEOREM MarksMoveForward == Spec => MarksMonotone
  <1>1. Now /\ Now' /\ [Next]_vars => [MarksMove]_<<conv, seats, marks>>
    BY NextMarks
  <1> QED BY <1>1, ConversationInvariant, PTL DEF Spec, MarksMonotone
=============================================================================
