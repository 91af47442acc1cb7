------------------------------ MODULE CoinLedger ------------------------------
(***************************************************************************)
(* Coins: the wallets, the ledger of coin transactions, and the four       *)
(* services that move coins - gifts between friends with their transfer    *)
(* cards, expansion cards for a circle, recharge orders approved by the    *)
(* support staff, and referral rewards.                                    *)
(*                                                                         *)
(* Gifts, purchases and referral settlements run under                     *)
(* runSerializableTransaction: "begin" takes the snapshot, and everything  *)
(* the transaction decides is decided on it; "commit" succeeds only if no  *)
(* wallet row the transaction writes has been written since, otherwise the *)
(* whole function runs again, TxAttempts times.  Recharge orders run at    *)
(* READ COMMITTED under FOR UPDATE of the order, one atomic step each.     *)
(* Every write of a wallet appends a ledger row of the same user, so       *)
(* "written since" is read off the ledger.                                 *)
(***************************************************************************)
EXTENDS Integers, Sequences, FiniteSets, FiniteSetsExt

CONSTANTS
    Users,        \* accounts, each with a wallet
    Opening,      \* the balance each has when the observed history starts
    Amounts,      \* sizes of gifts and of recharges
    DailyLimit,   \* GIFT_DAILY_LIMIT
    Days,         \* the last day looked at
    Keys,         \* idempotency keys; a gift and an expansion order is named
                  \* by the key that made it
    Owner,        \* owner of the one circle looked at
    Base,         \* members the owner's membership allows
    HardLimit,    \* GROUP_CAPACITY_HARD_LIMIT
    Products,     \* expansion cards: records of price and seats
    Orders,       \* recharge orders
    OrderOf,      \* the user each order is for
    Payments,     \* transaction ids of the payment provider
    Referrals,    \* referrals: records of inviter and invitee
    Reward,       \* coins for each of the two
    MonthlyCap,   \* rewards an inviter gets in a month
    Workers,      \* requests and settlements handled at the same time
    Sweepers,     \* replicas that run the cron for missing cards
    Ops,          \* what workers are asked to do
    TxAttempts,   \* DEFAULT_MAX_ATTEMPTS of runSerializableTransaction
    CardAttempts, \* GIFT_CARD_MAX_ATTEMPTS
    None

ASSUME UsersAssumption == Owner \in Users /\ OrderOf \in [Orders -> Users]
ASSUME OpeningAssumption == Opening \in [Users -> Nat]
ASSUME AmountsAssumption == Amounts \subseteq Nat \ {0} /\ Reward \in Nat \ {0}
ASSUME ProductsAssumption == Products \subseteq [price : Nat \ {0}, seats : Nat \ {0}]
ASSUME ReferralsAssumption ==
    /\ Referrals \subseteq [inviter : Users, invitee : Users]
    /\ \A r \in Referrals : r.inviter # r.invitee
ASSUME BoundsAssumption == /\ Days \in Nat \ {0} /\ TxAttempts \in Nat \ {0}
                           /\ CardAttempts \in Nat /\ MonthlyCap \in Nat
                           /\ Base \in Nat /\ HardLimit \in Nat /\ DailyLimit \in Nat
ASSUME NamesAssumption == Workers \cap Sweepers = {} /\ None \notin Payments \cup Amounts
ASSUME NoneAssumption ==  \* no row, and no answer, is None
    /\ None \notin Products /\ None \notin {"ok", "conflict"}
    /\ None \notin [sender : Users, recipient : Users, amount : Amounts]

VARIABLES
    wallet,     \* Wallet.balance
    ledger,     \* the CoinTransaction rows, in commit order
    gifts,      \* the CoinGift row of each key: who, to whom, how much
    card,       \* its transfer card: is the grace period over, cardDeliveredAt,
                \* cardAttempts, and the cards in the conversation
    circle,     \* the circle's maxMembers and expansionSeats
    purchases,  \* the GroupExpansionOrder of each key
    orders,     \* the recharge orders: status, payment and amount approved
    referral,   \* status of each referral
    today,
    job         \* the request each worker is handling

data == <<wallet, ledger, gifts, card, circle, purchases, orders, referral>>
vars == <<wallet, ledger, gifts, card, circle, purchases, orders, referral, today, job>>

Idle == [req |-> None, pc |-> "idle", since |-> 0, day |-> 0, tries |-> 0,
         seen |-> None, verdict |-> None, answer |-> None]

Asks(w, op) == job[w].req # None /\ job[w].req.op = op
At(w, op, pc) == Asks(w, op) /\ job[w].pc = pc

Begin(w, req, pc) ==
    job' = [job EXCEPT ![w] = [Idle EXCEPT !.req = req, !.pc = pc, !.day = today]]
Goto(w, pc) == job' = [job EXCEPT ![w].pc = pc]
Answer(w, req, answer) ==
    job' = [job EXCEPT ![w] = [Idle EXCEPT !.req = req, !.pc = "answered",
                                           !.answer = answer]]
Finish(w) == job' = [job EXCEPT ![w] = Idle]

-----------------------------------------------------------------------------
(* Wallets and serializable transactions.                                   *)

Entry(u, type, amount, related, day) ==
    [user |-> u, type |-> type, amount |-> amount, balance |-> wallet'[u],
     related |-> related, day |-> day]

\* Fault: the functions run without isolation.
Stale_Unchecked(w, S) == FALSE

\* Some wallet row of S has been written after the transaction's snapshot.
Stale(w, S) == \E i \in job[w].since + 1 .. Len(ledger) : ledger[i].user \in S

Snapshot(w, seen, verdict) ==
    job' = [job EXCEPT ![w].pc = "commit", ![w].since = Len(ledger),
                       ![w].seen = seen, ![w].verdict = verdict]

\* A write conflict, or a failure the database reports although there was
\* none: the function runs again from its start, or the error gets out.
runSerializableTransaction(w) ==
    /\ job[w].pc = "commit"
    /\ IF job[w].tries + 1 < TxAttempts
       THEN job' = [job EXCEPT ![w].pc = "begin", ![w].tries = @ + 1,
                               ![w].since = 0, ![w].seen = None, ![w].verdict = None]
       ELSE Answer(w, job[w].req, "failed")
    /\ UNCHANGED <<data, today>>

creditInTransaction(u, type, amount, related, day) ==
    /\ wallet' = [wallet EXCEPT ![u] = @ + amount]
    /\ ledger' = Append(ledger, Entry(u, type, amount, related, day))

-----------------------------------------------------------------------------
(* Gifts.                                                                   *)

GiftRequests == {q \in [op : {"gift"}, user : Users, peer : Users,
                        amount : Amounts, key : Keys] : q.user # q.peer}

SameGift(g, q) == g.sender = q.user /\ g.recipient = q.peer /\ g.amount = q.amount

\* Fault: any gift under the key is taken for this one.
assertIdempotentReplayMatches_Any(q) == "ok"

assertIdempotentReplayMatches(q) == IF SameGift(gifts[q.key], q) THEN "ok" ELSE "conflict"

sendGift(w) ==
    /\ job[w] = Idle /\ w \in Workers /\ "gift" \in Ops
    /\ \E q \in GiftRequests :
          IF gifts[q.key] # None
          THEN Answer(w, q, assertIdempotentReplayMatches(q))
          ELSE Begin(w, q, "begin")
    /\ UNCHANGED <<data, today>>

\* Coins u has sent since the start of a day.
sentSince(u, day) ==
    SumFunctionOnSet([i \in DOMAIN ledger |-> -ledger[i].amount],
                     {i \in DOMAIN ledger : /\ ledger[i].user = u
                                            /\ ledger[i].type = "GIFT_SENT"
                                            /\ ledger[i].day >= day})

\* Fault: the debit is not conditional.
beginGift_Unfunded(w) ==
    /\ At(w, "gift", "begin")
    /\ LET q == job[w].req IN
       IF sentSince(q.user, job[w].day) + q.amount <= DailyLimit
       THEN Snapshot(w, None, None) ELSE Answer(w, q, "dailyLimit")
    /\ UNCHANGED <<data, today>>

beginGift(w) ==
    /\ At(w, "gift", "begin")
    /\ LET q == job[w].req
           room == sentSince(q.user, job[w].day) + q.amount <= DailyLimit IN
       \/ ~room /\ Answer(w, q, "dailyLimit")
       \/ room /\ wallet[q.user] < q.amount /\ Answer(w, q, "insufficient")
       \/ room /\ wallet[q.user] >= q.amount /\ Snapshot(w, None, None)
    /\ UNCHANGED <<data, today>>

\* The key is taken (P2002): the answer is the winner's.
giftKeyTaken(w) ==
    /\ At(w, "gift", "commit")
    /\ LET q == job[w].req IN
       /\ ~Stale(w, {q.user, q.peer})
       /\ gifts[q.key] # None
       /\ Answer(w, q, assertIdempotentReplayMatches(q))
    /\ UNCHANGED <<data, today>>

\* Fault: the recipient's row is forgotten.
commitGift_OneRow(w) ==
    /\ At(w, "gift", "commit")
    /\ LET q == job[w].req IN
       /\ ~Stale(w, {q.user, q.peer})
       /\ gifts[q.key] = None
       /\ wallet' = [wallet EXCEPT ![q.user] = @ - q.amount, ![q.peer] = @ + q.amount]
       /\ gifts' = [gifts EXCEPT ![q.key] = [sender |-> q.user, recipient |-> q.peer,
                                             amount |-> q.amount]]
       /\ ledger' = Append(ledger, Entry(q.user, "GIFT_SENT", -q.amount, q.key, today))
       /\ job' = [job EXCEPT ![w] = [Idle EXCEPT !.req = q, !.pc = "card", !.answer = "ok"]]
    /\ UNCHANGED <<card, circle, purchases, orders, referral, today>>

\* The client has its answer; the transfer card is issued after it.
commitGift(w) ==
    /\ At(w, "gift", "commit")
    /\ LET q == job[w].req IN
       /\ ~Stale(w, {q.user, q.peer})
       /\ gifts[q.key] = None
       /\ wallet' = [wallet EXCEPT ![q.user] = @ - q.amount, ![q.peer] = @ + q.amount]
       /\ gifts' = [gifts EXCEPT ![q.key] = [sender |-> q.user, recipient |-> q.peer,
                                             amount |-> q.amount]]
       /\ \E d \in job[w].day .. today :
             ledger' = ledger \o <<Entry(q.user, "GIFT_SENT", -q.amount, q.key, d),
                                   Entry(q.peer, "GIFT_RECEIVED", q.amount, q.key, d)>>
       /\ job' = [job EXCEPT ![w] = [Idle EXCEPT !.req = q, !.pc = "card", !.answer = "ok"]]
    /\ UNCHANGED <<card, circle, purchases, orders, referral, today>>

-----------------------------------------------------------------------------
(* Transfer cards: issued by the request, or by the cron after the grace    *)
(* period.  Any failure on the way leaves the gift to the next round.       *)

\* Fault: a card that failed once is given up.
CardDue_Once(k) == /\ gifts[k] # None /\ card[k].late
                   /\ ~card[k].delivered /\ card[k].attempts = 0

CardDue(k) == /\ gifts[k] # None /\ card[k].late
              /\ ~card[k].delivered /\ card[k].attempts < CardAttempts

compensate(w) ==
    /\ job[w] = Idle /\ w \in Sweepers
    /\ \E k \in Keys :
          /\ CardDue(k)
          /\ Begin(w, [op |-> "card", key |-> k, attempts |-> card[k].attempts], "claim")
    /\ UNCHANGED <<data, today>>

claimCard(w) ==
    /\ At(w, "card", "claim")
    /\ LET q == job[w].req IN
       IF ~card[q.key].delivered /\ card[q.key].attempts = q.attempts
       THEN /\ card' = [card EXCEPT ![q.key].attempts = @ + 1]
            /\ Goto(w, "card")
       ELSE UNCHANGED card /\ Finish(w)
    /\ UNCHANGED <<wallet, ledger, gifts, circle, purchases, orders, referral, today>>

\* Fault: the conversation takes the same card again.
insertCard_Again(k) == card' = [card EXCEPT ![k].sent = @ + 1]

\* insertServerMessage: a second message with the same clientMessageId is
\* merged into the first.
insertCard(k) == card' = [card EXCEPT ![k].sent = IF @ = 0 THEN 1 ELSE @]

issueTransferCard(w) ==
    /\ job[w].pc = "card"
    /\ insertCard(job[w].req.key)
    /\ Goto(w, "mark")
    /\ UNCHANGED <<wallet, ledger, gifts, circle, purchases, orders, referral, today>>

markDelivered(w) ==
    /\ job[w].pc = "mark"
    /\ card' = [card EXCEPT ![job[w].req.key].delivered = TRUE]
    /\ Finish(w)
    /\ UNCHANGED <<wallet, ledger, gifts, circle, purchases, orders, referral, today>>

GracePasses(k) ==
    /\ gifts[k] # None /\ ~card[k].late
    /\ card' = [card EXCEPT ![k].late = TRUE]
    /\ UNCHANGED <<wallet, ledger, gifts, circle, purchases, orders, referral, today, job>>

-----------------------------------------------------------------------------
(* Expansion cards.                                                         *)

\* effectiveCapacity: what the circle may use of its seats.
Capacity(c) == Min({c.max, Base + c.seats, HardLimit})

\* The circle row after the owner bought p.
Expanded(c, p) == [max |-> Min({Min({c.max, HardLimit}) + p.seats, HardLimit}),
                   seats |-> c.seats + p.seats]

purchase(w) ==
    /\ job[w] = Idle /\ w \in Workers /\ "expand" \in Ops
    /\ \E q \in [op : {"expand"}, product : Products, key : Keys] : Begin(w, q, "begin")
    /\ UNCHANGED <<data, today>>

\* Fault: the key stands for any order.
restorePrior_Any(q) == "ok"

restorePrior(q) == IF purchases[q.key] = q.product THEN "ok" ELSE "conflict"

beginPurchase(w) ==
    /\ At(w, "expand", "begin")
    /\ LET q == job[w].req
           p == q.product
           fits == Capacity(Expanded(circle, p)) - Capacity(circle) = p.seats IN
       \/ purchases[q.key] # None /\ Answer(w, q, restorePrior(q))
       \/ /\ purchases[q.key] = None
          /\ \/ ~fits /\ Answer(w, q, "capacityExceeded")
             \/ fits /\ wallet[Owner] < p.price /\ Answer(w, q, "insufficient")
             \/ fits /\ wallet[Owner] >= p.price /\ Snapshot(w, circle, None)
    /\ UNCHANGED <<data, today>>

\* maxMembers is written as computed from the snapshot, expansionSeats is
\* incremented.  An order under the same key since the snapshot has debited
\* the same wallet, so the unique key is never what stops the transaction.
commitPurchase(w) ==
    /\ At(w, "expand", "commit")
    /\ LET q == job[w].req IN
       /\ ~Stale(w, {Owner})
       /\ wallet' = [wallet EXCEPT ![Owner] = @ - q.product.price]
       /\ circle' = [max |-> Expanded(job[w].seen, q.product).max,
                     seats |-> circle.seats + q.product.seats]
       /\ purchases' = [purchases EXCEPT ![q.key] = q.product]
       /\ ledger' = Append(ledger, Entry(Owner, "PURCHASE", -q.product.price, q.key, today))
       /\ Answer(w, q, "ok")
    /\ UNCHANGED <<gifts, card, orders, referral, today>>

-----------------------------------------------------------------------------
(* Recharge orders.                                                         *)

assertSameApproval(o, q) == orders[o].payment = q.payment /\ orders[o].amount = q.amount

approveOrder(w) ==
    /\ job[w] = Idle /\ w \in Workers /\ "approve" \in Ops
    /\ \E q \in [op : {"approve"}, order : Orders, payment : Payments, amount : Amounts] :
          IF orders[q.order].status \in {"PROCESSING", "APPROVED"}
             /\ ~assertSameApproval(q.order, q)
          THEN Answer(w, q, "conflict")
          ELSE Begin(w, q, "claim")
    /\ UNCHANGED <<data, today>>

\* Fault: only orders that were paid out are looked at.
DuplicatePayment_Approved(q) == \E o \in Orders \ {q.order} :
    orders[o].payment = q.payment /\ orders[o].status = "APPROVED"

\* The unique index on the payment decides between two orders that both
\* looked for duplicates before either was written.
DuplicatePayment(q) == \E o \in Orders \ {q.order} : orders[o].payment = q.payment

claimApproval(w) ==
    /\ At(w, "approve", "claim")
    /\ LET q == job[w].req
           status == orders[q.order].status IN
       \/ /\ status = "REJECTED" /\ Answer(w, q, "stateConflict") /\ UNCHANGED orders
       \/ /\ status \in {"PROCESSING", "APPROVED"} /\ ~assertSameApproval(q.order, q)
          /\ Answer(w, q, "conflict") /\ UNCHANGED orders
       \/ /\ status = "APPROVED" /\ assertSameApproval(q.order, q)
          /\ Answer(w, q, "ok") /\ UNCHANGED orders
       \/ /\ status = "PROCESSING" /\ assertSameApproval(q.order, q)
          /\ Goto(w, "fulfil") /\ UNCHANGED orders
       \/ /\ status = "WAITING_REVIEW" /\ DuplicatePayment(q)
          /\ Answer(w, q, "paymentDuplicate") /\ UNCHANGED orders
       \/ /\ status = "WAITING_REVIEW" /\ ~DuplicatePayment(q)
          /\ orders' = [orders EXCEPT ![q.order] = [status |-> "PROCESSING",
                                                    payment |-> q.payment,
                                                    amount |-> q.amount]]
          /\ Goto(w, "fulfil")
    /\ UNCHANGED <<wallet, ledger, gifts, card, circle, purchases, referral, today>>

Recharged(o) == \E i \in DOMAIN ledger : ledger[i].type = "RECHARGE" /\ ledger[i].related = o

\* Fault: the order is not looked at again.
fulfillCoins_Blind(w) ==
    /\ At(w, "approve", "fulfil")
    /\ LET q == job[w].req IN
       /\ creditInTransaction(OrderOf[q.order], "RECHARGE", q.amount, q.order, today)
       /\ orders' = [orders EXCEPT ![q.order].status = "APPROVED"]
    /\ Answer(w, job[w].req, "ok")
    /\ UNCHANGED <<gifts, card, circle, purchases, referral, today>>

fulfillCoins(w) ==
    /\ At(w, "approve", "fulfil")
    /\ LET q == job[w].req IN
       \/ /\ orders[q.order].status = "APPROVED"
          /\ UNCHANGED <<wallet, ledger, orders>>
       \/ /\ orders[q.order].status # "APPROVED" /\ assertSameApproval(q.order, q)
          /\ IF Recharged(q.order)
             THEN UNCHANGED <<wallet, ledger>>
             ELSE creditInTransaction(OrderOf[q.order], "RECHARGE", q.amount, q.order, today)
          /\ orders' = [orders EXCEPT ![q.order].status = "APPROVED"]
    /\ Answer(w, job[w].req, "ok")
    /\ UNCHANGED <<gifts, card, circle, purchases, referral, today>>

rejectOrder(o) ==
    /\ "approve" \in Ops
    /\ orders[o].status = "WAITING_REVIEW"
    /\ orders' = [orders EXCEPT ![o].status = "REJECTED"]
    /\ UNCHANGED <<wallet, ledger, gifts, card, circle, purchases, referral, today, job>>

-----------------------------------------------------------------------------
(* Referral rewards.                                                        *)

settleReferrals(w) ==
    /\ job[w] = Idle /\ w \in Workers /\ "settle" \in Ops
    /\ \E r \in Referrals :
          referral[r] = "PENDING" /\ Begin(w, [op |-> "settle", referral |-> r], "begin")
    /\ UNCHANGED <<data, today>>

\* SELECT ... FOR UPDATE of the referral: one settlement of it at a time.
HeldByOther(w) == \E v \in Workers \ {w} :
    At(v, "settle", "commit") /\ job[v].req.referral = job[w].req.referral

Rewarded(u) == {r \in Referrals : r.inviter = u /\ referral[r] = "REWARDED"}

\* The window may be over, an account inactive, the invitee qualified or not
\* yet: these facts belong to other tables.
settleOne(w) ==
    /\ At(w, "settle", "begin") /\ ~HeldByOther(w)
    /\ LET r == job[w].req.referral IN
       \/ /\ referral[r] # "PENDING" /\ Finish(w)
       \/ /\ referral[r] = "PENDING" /\ Finish(w)  \* deferred
       \/ /\ referral[r] = "PENDING"
          /\ \E verdict \in {"EXPIRED", "REJECTED",
                             IF Cardinality(Rewarded(r.inviter)) >= MonthlyCap
                             THEN "CAPPED" ELSE "REWARDED"} : Snapshot(w, None, verdict)
    /\ UNCHANGED <<data, today>>

commitSettlement(w) ==
    /\ At(w, "settle", "commit")
    /\ LET r == job[w].req.referral IN
       /\ IF job[w].verdict = "REWARDED"
          THEN /\ ~Stale(w, {r.inviter, r.invitee})
               /\ wallet' = [wallet EXCEPT ![r.inviter] = @ + Reward,
                                           ![r.invitee] = @ + Reward]
               /\ ledger' = ledger \o <<Entry(r.inviter, "REFERRAL_REWARD", Reward, r, today),
                                        Entry(r.invitee, "REFERRAL_BONUS", Reward, r, today)>>
          ELSE UNCHANGED <<wallet, ledger>>
       /\ referral' = [referral EXCEPT ![r] = job[w].verdict]
    /\ Finish(w)
    /\ UNCHANGED <<gifts, card, circle, purchases, orders, today>>

-----------------------------------------------------------------------------

Return(w) == job[w].pc = "answered" /\ Finish(w) /\ UNCHANGED <<data, today>>

\* The process dies or a statement fails: what is not committed is undone.
Crash(w) == job[w] # Idle /\ job[w].pc # "answered" /\ Finish(w) /\ UNCHANGED <<data, today>>

Midnight == today < Days /\ today' = today + 1 /\ UNCHANGED <<data, job>>

Init ==
    /\ wallet = Opening /\ ledger = <<>>
    /\ gifts = [k \in Keys |-> None]
    /\ card = [k \in Keys |-> [late |-> FALSE, delivered |-> FALSE, attempts |-> 0, sent |-> 0]]
    /\ circle = [max |-> Base, seats |-> 0]
    /\ purchases = [k \in Keys |-> None]
    /\ orders = [o \in Orders |-> [status |-> "WAITING_REVIEW", payment |-> None, amount |-> None]]
    /\ referral = [r \in Referrals |-> "PENDING"]
    /\ today = 1
    /\ job = [w \in Workers \cup Sweepers |-> Idle]

Step(w) == \/ sendGift(w) \/ beginGift(w) \/ giftKeyTaken(w) \/ commitGift(w)
           \/ issueTransferCard(w) \/ markDelivered(w)
           \/ purchase(w) \/ beginPurchase(w) \/ commitPurchase(w)
           \/ approveOrder(w) \/ claimApproval(w) \/ fulfillCoins(w)
           \/ settleReferrals(w) \/ settleOne(w) \/ commitSettlement(w)
           \/ runSerializableTransaction(w) \/ Return(w) \/ Crash(w)

\* Only the cron asks how old a card is.
Cron(w) == compensate(w) \/ claimCard(w) \/ \E k \in Keys : GracePasses(k)

Next == \/ \E w \in Workers \cup Sweepers : Step(w)
        \/ \E w \in Sweepers : Cron(w)
        \/ \E o \in Orders : rejectOrder(o)
        \/ Midnight

Spec == Init /\ [][Next]_vars

\* Time passes, the cron comes round every minute, and does not die for ever
\* between finding a gift and claiming it.  Issuing the card may always fail.
CronFairness ==
    /\ \A k \in Keys : WF_vars(GracePasses(k))
    /\ \A w \in Sweepers : /\ WF_vars(compensate(w)) /\ SF_vars(claimCard(w))
                           /\ WF_vars(issueTransferCard(w)) /\ WF_vars(markDelivered(w))

FairSpec == Spec /\ CronFairness

-----------------------------------------------------------------------------
(* Properties.                                                              *)

Requests == GiftRequests
    \cup [op : {"expand"}, product : Products, key : Keys]
    \cup [op : {"approve"}, order : Orders, payment : Payments, amount : Amounts]
    \cup [op : {"settle"}, referral : Referrals]
    \cup [op : {"card"}, key : Keys, attempts : Nat]

Row == [user : Users, amount : Int, balance : Nat, day : 1 .. Days,
        type : {"GIFT_SENT", "GIFT_RECEIVED", "PURCHASE", "RECHARGE",
                "REFERRAL_REWARD", "REFERRAL_BONUS"},
        related : Keys \cup Orders \cup Referrals]

GiftRow == [sender : Users, recipient : Users, amount : Amounts]
CardRow == [late : BOOLEAN, delivered : BOOLEAN, attempts : Nat, sent : Nat]
CircleRow == [max : Nat, seats : Nat]
OrderRow == [status : {"WAITING_REVIEW", "PROCESSING", "APPROVED", "REJECTED"},
             payment : Payments \cup {None}, amount : Amounts \cup {None}]

Verdicts == {"EXPIRED", "REJECTED", "CAPPED", "REWARDED"}

Job == [req : Requests \cup {None}, since : Nat, day : 0 .. Days, tries : Nat,
        pc : {"idle", "begin", "commit", "claim", "card", "mark", "fulfil", "answered"},
        seen : CircleRow \cup {None}, verdict : Verdicts \cup {None},
        answer : {None, "ok", "conflict", "dailyLimit", "insufficient", "capacityExceeded",
                  "stateConflict", "paymentDuplicate", "failed"}]

\* The shape of the tables; in particular no wallet is ever overdrawn, though
\* whether it can pay is decided on a snapshot.
TypeOK ==
    /\ wallet \in [Users -> Nat]
    /\ ledger \in Seq(Row)
    /\ gifts \in [Keys -> GiftRow \cup {None}]
    /\ card \in [Keys -> CardRow]
    /\ circle \in CircleRow
    /\ purchases \in [Keys -> Products \cup {None}]
    /\ orders \in [Orders -> OrderRow]
    /\ referral \in [Referrals -> {"PENDING"} \cup Verdicts]
    /\ today \in 1 .. Days
    /\ job \in [Workers \cup Sweepers -> Job]

\* b is the balance user u held before row i of the ledger was written.
HeldBefore(u, i, b) ==
    \/ b = Opening[u] /\ \A k \in 1 .. i - 1 : ledger[k].user # u
    \/ \E j \in 1 .. i - 1 : /\ ledger[j].user = u /\ ledger[j].balance = b
                            /\ \A k \in j + 1 .. i - 1 : ledger[k].user # u

\* What the nightly reconciliation audits: the ledger of every user replays
\* to the balance of the wallet, each row continuing from the row before it,
\* although debits are decided on a snapshot, recharges run at another
\* isolation level and requests fail and are retried at every point.
LedgerReplays ==
    /\ \A i \in DOMAIN ledger :
          HeldBefore(ledger[i].user, i, ledger[i].balance - ledger[i].amount)
    /\ \A u \in Users : HeldBefore(u, Len(ledger) + 1, wallet[u])

Rows(type, related) ==
    {i \in DOMAIN ledger : ledger[i].type = type /\ ledger[i].related = related}

\* Each row of the ledger that a fact calls for is there once, with its
\* amount, and none is there without the fact.
Booked(type, related, fact, u, amount) ==
    /\ Cardinality(Rows(type, related)) = IF fact THEN 1 ELSE 0
    /\ \A i \in Rows(type, related) : ledger[i].user = u /\ ledger[i].amount = amount

\* Every gift, purchase, approved order and rewarded referral moved its coins
\* exactly once, whatever was retried, replayed, approved twice or cut short.
CoinsMoveOnce ==
    /\ \A k \in Keys :
          /\ Booked("GIFT_SENT", k, gifts[k] # None, gifts[k].sender, -gifts[k].amount)
          /\ Booked("GIFT_RECEIVED", k, gifts[k] # None, gifts[k].recipient, gifts[k].amount)
          /\ Booked("PURCHASE", k, purchases[k] # None, Owner, -purchases[k].price)
    /\ \A o \in Orders : Booked("RECHARGE", o, orders[o].status = "APPROVED",
                                OrderOf[o], orders[o].amount)
    /\ \A r \in Referrals :
          /\ Booked("REFERRAL_REWARD", r, referral[r] = "REWARDED", r.inviter, Reward)
          /\ Booked("REFERRAL_BONUS", r, referral[r] = "REWARDED", r.invitee, Reward)

\* No payment is paid out twice, even when two orders are approved for it at
\* the same time.
PaymentPaysOnce ==
    \A o, p \in Orders : o # p /\ orders[o].payment # None
                          => orders[o].payment # orders[p].payment

\* Concurrent gifts of a user, also around midnight, stay within the limit.
DailyLimitHolds ==
    \A u \in Users, d \in 1 .. Days :
        SumFunctionOnSet([i \in DOMAIN ledger |-> -ledger[i].amount],
                         {i \in DOMAIN ledger : /\ ledger[i].user = u /\ ledger[i].day = d
                                                /\ ledger[i].type = "GIFT_SENT"}) <= DailyLimit

\* An inviter is not rewarded more often than the cap by settlements that
\* count at the same time.
MonthlyCapHolds == \A u \in Users : Cardinality(Rewarded(u)) <= MonthlyCap

\* Whoever was told ok finds exactly what was asked for, whoever was told
\* conflict finds the key, or the order, used for something else.
AnswersAreHonest ==
    \A w \in Workers : LET q == job[w].req  said == job[w].answer IN
        /\ Asks(w, "gift") /\ said \in {"ok", "conflict"} =>
              gifts[q.key] # None /\ (SameGift(gifts[q.key], q) <=> said = "ok")
        /\ Asks(w, "expand") /\ said \in {"ok", "conflict"} =>
              purchases[q.key] # None /\ (purchases[q.key] = q.product <=> said = "ok")
        /\ Asks(w, "approve") /\ said = "ok" =>
              orders[q.order].status = "APPROVED" /\ assertSameApproval(q.order, q)

\* The recipient sees one card for a gift, and a gift marked delivered has
\* its card, although the request and the crons of all replicas may be
\* issuing it together.
OneCard == \A k \in Keys : /\ card[k].sent <= 1
                           /\ card[k].delivered => card[k].sent = 1
                           /\ card[k].sent > 0 => gifts[k] # None

SeatsRaised ==
    purchases' # purchases =>
        \E k \in Keys : /\ purchases'[k] # purchases[k]
                        /\ Capacity(circle)' = Capacity(circle) + purchases'[k].seats

\* Seats that were paid for can be used: a purchase raises the capacity in
\* force by the seats of the product.
SeatsAreUsable == [][SeatsRaised]_vars

\* schema.prisma: the card of a settled gift is sure to arrive - unless all
\* attempts failed.
CardArrives ==
    \A k \in Keys : gifts[k] # None
        ~> card[k].delivered \/ card[k].attempts = CardAttempts
=============================================================================
