--------------------------- MODULE CoinLedgerProofs ---------------------------
(* Proofs about CoinLedger, for any number of users, keys, orders, workers  *)
(* and attempts: no wallet is overdrawn, and the ledger of every user       *)
(* replays to the balance of the wallet; then that every gift, purchase,    *)
(* order and reward moves its coins once, and that caps and limits hold.    *)
(*                                                                          *)
(* The argument: every write of a wallet appends a row of the same user     *)
(* (Extends).  A transaction whose snapshot is not stale therefore finds    *)
(* the balance it decided on, so that a debit found sufficient on the       *)
(* snapshot is sufficient at the commit (Funded).                           *)
EXTENDS CoinLedger, Sums, FiniteSetTheorems, TLAPS

-----------------------------------------------------------------------------
(* The ledger as a sequence.                                                *)

LastHeld(L, u, i, b) ==
    \/ b = Opening[u] /\ \A k \in 1 .. i - 1 : L[k].user # u
    \/ \E j \in 1 .. i - 1 : /\ L[j].user = u /\ L[j].balance = b
                            /\ \A k \in j + 1 .. i - 1 : L[k].user # u

Replays(L, W) ==
    /\ \A i \in DOMAIN L : LastHeld(L, L[i].user, i, L[i].balance - L[i].amount)
    /\ \A u \in Users : LastHeld(L, u, Len(L) + 1, W[u])

\* One more row that continues from the wallet of its user.
LEMMA ReplaysOneMore ==
    ASSUME NEW L \in Seq(Row), NEW W \in [Users -> Nat], NEW e \in Row,
           Replays(L, W), e.balance - e.amount = W[e.user]
    PROVE  Replays(Append(L, e), [W EXCEPT ![e.user] = e.balance])
  <1> DEFINE M == Append(L, e)
             V == [W EXCEPT ![e.user] = e.balance]
             n == Len(L)
  <1>1. /\ Len(M) = n + 1 /\ n \in Nat /\ DOMAIN M = 1 .. n + 1 /\ DOMAIN L = 1 .. n
        /\ M[n + 1] = e /\ \A i \in 1 .. n : M[i] = L[i]
    OBVIOUS
  <1>2. e.user \in Users
    BY DEF Row
  <1>3. ASSUME NEW u, NEW b, NEW i \in 1 .. n + 1, LastHeld(L, u, i, b)
        PROVE  LastHeld(M, u, i, b)
    BY <1>1, <1>3 DEF LastHeld
  <1>4. ASSUME NEW i \in DOMAIN M
        PROVE  LastHeld(M, M[i].user, i, M[i].balance - M[i].amount)
    <2>1. CASE i = n + 1
      BY <1>1, <1>2, <1>3, <2>1 DEF Replays
    <2>2. CASE i \in 1 .. n
      BY <1>1, <1>3, <2>2 DEF Replays
    <2> QED BY <1>1, <2>1, <2>2
  <1>5. ASSUME NEW u \in Users PROVE LastHeld(M, u, n + 2, V[u])
    <2>1. CASE u = e.user
      <3>1. V[u] = e.balance
        BY <2>1
      <3> QED BY <1>1, <2>1, <3>1 DEF LastHeld
    <2>2. CASE u # e.user
      <3>1. V[u] = W[u] /\ LastHeld(L, u, n + 1, W[u])
        BY <1>1, <2>2 DEF Replays
      <3> QED BY <1>1, <2>2, <3>1 DEF LastHeld
    <2> QED BY <2>1, <2>2
  <1> HIDE DEF M, V
  <1>6. Len(M) + 1 = n + 2
    BY <1>1
  <1> QED BY <1>4, <1>5, <1>6 DEF Replays, M, V

\* Two more rows of different users.
LEMMA ReplaysTwoMore ==
    ASSUME NEW L \in Seq(Row), NEW W \in [Users -> Nat], NEW V \in [Users -> Nat],
           NEW d \in Row, NEW e \in Row, d.user # e.user, Replays(L, W),
           d.balance - d.amount = W[d.user], e.balance - e.amount = W[e.user],
           V = [W EXCEPT ![d.user] = d.balance, ![e.user] = e.balance]
    PROVE  Replays(L \o <<d, e>>, V)
  <1> DEFINE M == Append(L, d)
             U == [W EXCEPT ![d.user] = d.balance]
  <1>1. M \in Seq(Row) /\ U \in [Users -> Nat] /\ d.user \in Users /\ e.user \in Users
    BY DEF Row
  <1>2. Replays(M, U)
    BY ReplaysOneMore
  <1>3. U[e.user] = W[e.user]
    BY <1>1
  <1> HIDE DEF M, U
  <1>4. Replays(Append(M, e), [U EXCEPT ![e.user] = e.balance])
    BY <1>1, <1>2, <1>3, ReplaysOneMore
  <1>5. Append(M, e) = L \o <<d, e>>
    BY DEF M
  <1>6. [U EXCEPT ![e.user] = e.balance] = V
    BY <1>1 DEF U
  <1> QED BY <1>4, <1>5, <1>6

-----------------------------------------------------------------------------
(* The inductive invariant.                                                 *)

\* What the transaction of w can pay, unless its snapshot is stale.
Funded(w) ==
    /\ At(w, "gift", "commit") /\ ~Stale(w, {job[w].req.user, job[w].req.peer})
          => wallet[job[w].req.user] >= job[w].req.amount
    /\ At(w, "expand", "commit") /\ ~Stale(w, {Owner})
          => wallet[Owner] >= job[w].req.product.price

JobOK(w) ==
    /\ job[w].pc \in {"begin", "commit"} => job[w].day >= 1
    /\ job[w].pc = "commit" => job[w].since <= Len(ledger)
    /\ At(w, "expand", "commit") => job[w].seen \in CircleRow
    /\ At(w, "settle", "commit") => job[w].verdict \in Verdicts
    /\ Funded(w)

JobsOK == \A w \in Workers \cup Sweepers : JobOK(w)

IInv == TypeOK /\ LedgerReplays /\ JobsOK

\* The ledger grows, and names every user whose wallet is written.
Extends ==
    /\ Len(ledger) <= Len(ledger')
    /\ \A i \in 1 .. Len(ledger) : ledger'[i] = ledger[i]
    /\ \A u \in Users : wallet'[u] # wallet[u] =>
          \E i \in Len(ledger) + 1 .. Len(ledger') : ledger'[i].user = u

Tables == /\ gifts \in [Keys -> GiftRow \cup {None}]
          /\ card \in [Keys -> CardRow]
          /\ circle \in CircleRow
          /\ purchases \in [Keys -> Products \cup {None}]
          /\ orders \in [Orders -> OrderRow]
          /\ referral \in [Referrals -> {"PENDING"} \cup Verdicts]

LEMMA ReplaysIsLedgerReplays == LedgerReplays <=> Replays(ledger, wallet)
BY DEF LedgerReplays, Replays, HeldBefore, LastHeld

\* What the other workers rely on survives a step that extends the ledger.
LEMMA OthersOK ==
    ASSUME IInv, NEW v \in Workers \cup Sweepers, job'[v] = job[v], Extends,
           wallet' \in [Users -> Nat], ledger' \in Seq(Row)
    PROVE  JobOK(v)'
  <1> DEFINE j == job[v]
  <1>1. j \in Job /\ JobOK(v) /\ wallet \in [Users -> Nat] /\ ledger \in Seq(Row)
        /\ Len(ledger) \in Nat /\ Len(ledger') \in Nat
    BY DEF IInv, TypeOK, JobsOK
  <1>2. j.since \in Nat
    BY <1>1 DEF Job
  <1>3. /\ j.pc = "commit" => j.since <= Len(ledger')
        /\ j.pc \in {"begin", "commit"} => j.day >= 1
        /\ At(v, "expand", "commit") => j.seen \in CircleRow
        /\ At(v, "settle", "commit") => j.verdict \in Verdicts
    BY <1>1, <1>2 DEF JobOK, Extends
  <1>4. ASSUME NEW S \in SUBSET Users, j.pc = "commit", ~Stale(v, S)'
        PROVE  ~Stale(v, S) /\ \A u \in S : wallet'[u] = wallet[u]
    <2>1. j.since <= Len(ledger) /\ Len(ledger) <= Len(ledger')
      BY <1>1, <1>4 DEF JobOK, Extends
    <2>2. \A i \in j.since + 1 .. Len(ledger') : ledger'[i].user \notin S
      BY <1>4 DEF Stale
    <2>3. \A i \in j.since + 1 .. Len(ledger) : ledger[i].user \notin S
      BY <1>1, <1>2, <2>1, <2>2 DEF Extends
    <2>4. \A u \in S : wallet'[u] = wallet[u]
      BY SMTT(30), <1>1, <1>2, <2>1, <2>2 DEF Extends
    <2> QED BY <2>3, <2>4 DEF Stale
  <1>5. At(v, "gift", "commit") => j.req.user \in Users /\ j.req.peer \in Users
    BY <1>1 DEF Job, Requests, GiftRequests, At, Asks
  <1>6. ASSUME At(v, "gift", "commit"), ~Stale(v, {j.req.user, j.req.peer})'
        PROVE  wallet'[j.req.user] >= j.req.amount
    <2>1. {j.req.user, j.req.peer} \in SUBSET Users /\ j.pc = "commit"
      BY <1>5, <1>6 DEF At
    <2>2. /\ ~Stale(v, {j.req.user, j.req.peer})
          /\ wallet'[j.req.user] = wallet[j.req.user]
      BY <1>4, <1>6, <2>1
    <2>3. wallet[j.req.user] >= j.req.amount
      BY <1>1, <1>6, <2>2 DEF JobOK, Funded
    <2> QED BY <2>2, <2>3
  <1>7. ASSUME At(v, "expand", "commit"), ~Stale(v, {Owner})'
        PROVE  wallet'[Owner] >= j.req.product.price
    <2>1. {Owner} \in SUBSET Users /\ j.pc = "commit"
      BY <1>7, UsersAssumption DEF At
    <2>2. ~Stale(v, {Owner}) /\ wallet'[Owner] = wallet[Owner]
      BY <1>4, <1>7, <2>1
    <2>3. wallet[Owner] >= j.req.product.price
      BY <1>1, <1>7, <2>2 DEF JobOK, Funded
    <2> QED BY <2>2, <2>3
  <1>8. Funded(v)'
    BY <1>6, <1>7 DEF Funded, At, Asks
  <1> QED BY <1>3, <1>8 DEF JobOK, At, Asks

LEMMA StepOK ==
    ASSUME IInv, NEW w \in Workers \cup Sweepers,
           job' = [job EXCEPT ![w] = job'[w]], job'[w] \in Job,
           wallet' \in [Users -> Nat], ledger' \in Seq(Row), Tables', today' \in 1 .. Days,
           Extends, LedgerReplays', JobOK(w)'
    PROVE  IInv'
  <1>1. job \in [Workers \cup Sweepers -> Job]
    BY DEF IInv, TypeOK
  <1>2. \A v \in (Workers \cup Sweepers) \ {w} : job'[v] = job[v]
    BY <1>1
  <1>3. job' \in [Workers \cup Sweepers -> Job]
    BY <1>1
  <1>4. JobsOK'
    BY <1>2, OthersOK DEF JobsOK
  <1> QED BY <1>3, <1>4 DEF IInv, TypeOK, Tables

\* A step that moves no coins.
LEMMA QuietStep ==
    ASSUME IInv, NEW w \in Workers \cup Sweepers, UNCHANGED <<wallet, ledger>>,
           job' = [job EXCEPT ![w] = job'[w]], job'[w] \in Job,
           Tables', today' \in 1 .. Days, JobOK(w)'
    PROVE  IInv'
  <1>1. LedgerReplays'
    <2>1. LedgerReplays
      BY DEF IInv
    <2> QED BY <2>1 DEF LedgerReplays, HeldBefore
  <1>2. Extends
    BY DEF IInv, TypeOK, Extends
  <1> QED BY <1>1, <1>2, StepOK DEF IInv, TypeOK

-----------------------------------------------------------------------------
(* The ways a request goes on without moving coins.                         *)

Answers == {"ok", "conflict", "dailyLimit", "insufficient", "capacityExceeded",
            "stateConflict", "paymentDuplicate", "failed"}

LEMMA JobType ==
    ASSUME IInv, NEW w \in Workers \cup Sweepers
    PROVE  /\ job \in [Workers \cup Sweepers -> Job] /\ job[w] \in Job /\ Idle \in Job
           /\ JobOK(w) /\ today \in 1 .. Days
           /\ job[w].req # None => job[w].req \in Requests
  <1>1. job \in [Workers \cup Sweepers -> Job] /\ today \in 1 .. Days /\ JobOK(w)
    BY DEF IInv, TypeOK, JobsOK
  <1>2. Idle \in Job
    BY BoundsAssumption DEF Idle, Job
  <1> QED BY <1>1, <1>2 DEF Job

\* Outside of transactions a request relies on nothing.
LEMMA ParkedOK ==
    ASSUME NEW w, job'[w].pc \notin {"begin", "commit"}
    PROVE  JobOK(w)'
BY DEF JobOK, Funded, At

LEMMA FinishStep ==
    ASSUME IInv, NEW w \in Workers \cup Sweepers, Finish(w),
           UNCHANGED <<wallet, ledger, today>>, Tables'
    PROVE  IInv'
  <1>1. /\ job' = [job EXCEPT ![w] = job'[w]] /\ job'[w] = Idle
    BY JobType DEF Finish
  <1>2. JobOK(w)'
    BY <1>1, ParkedOK DEF Idle
  <1> QED BY <1>1, <1>2, JobType, QuietStep

LEMMA AnswerStep ==
    ASSUME IInv, NEW w \in Workers \cup Sweepers, NEW q \in Requests \cup {None},
           NEW a \in Answers, Answer(w, q, a),
           UNCHANGED <<wallet, ledger, today>>, Tables'
    PROVE  IInv'
  <1>1. /\ job' = [job EXCEPT ![w] = job'[w]]
        /\ job'[w] = [Idle EXCEPT !.req = q, !.pc = "answered", !.answer = a]
    BY JobType DEF Answer
  <1> DEFINE r == [req |-> q, pc |-> "answered", since |-> 0, day |-> 0, tries |-> 0,
                   seen |-> None, verdict |-> None, answer |-> a]
  <1>4. job'[w] = r
    BY <1>1 DEF Idle
  <1>5. r \in Job
    BY BoundsAssumption DEF Job, Answers
  <1>2. job'[w] \in Job /\ job'[w].pc = "answered"
    BY <1>4, <1>5
  <1>3. JobOK(w)'
    BY <1>2, ParkedOK
  <1> QED BY <1>1, <1>2, <1>3, JobType, QuietStep

LEMMA BeginStep ==
    ASSUME IInv, NEW w \in Workers \cup Sweepers, NEW q \in Requests,
           NEW pc \in {"begin", "claim"}, Begin(w, q, pc),
           UNCHANGED <<data, today>>
    PROVE  IInv'
  <1>1. /\ job' = [job EXCEPT ![w] = job'[w]]
        /\ job'[w] = [Idle EXCEPT !.req = q, !.pc = pc, !.day = today]
    BY JobType DEF Begin
  <1> DEFINE r == [req |-> q, pc |-> pc, since |-> 0, day |-> today, tries |-> 0,
                   seen |-> None, verdict |-> None, answer |-> None]
  <1>5. job'[w] = r
    BY <1>1 DEF Idle
  <1>6. r \in Job /\ today >= 1
    BY JobType, BoundsAssumption DEF Job
  <1>2. /\ job'[w] \in Job /\ job'[w].pc \in {"begin", "claim"} /\ job'[w].day >= 1
    BY <1>5, <1>6
  <1>3. JobOK(w)'
    BY <1>2 DEF JobOK, Funded, At
  <1>4. Tables' /\ UNCHANGED <<wallet, ledger>> /\ today' \in 1 .. Days
    BY JobType DEF data, IInv, TypeOK, Tables
  <1> QED BY <1>1, <1>2, <1>3, <1>4, QuietStep

LEMMA GotoStep ==
    ASSUME IInv, NEW w \in Workers \cup Sweepers, NEW pc \in {"card", "mark", "fulfil"},
           Goto(w, pc), UNCHANGED <<wallet, ledger, today>>, Tables'
    PROVE  IInv'
  <1>1. /\ job' = [job EXCEPT ![w] = job'[w]]
        /\ job'[w] = [job[w] EXCEPT !.pc = pc]
    BY JobType DEF Goto
  <1>2. job'[w] \in Job /\ job'[w].pc \notin {"begin", "commit"}
    BY <1>1, JobType DEF Job
  <1>3. JobOK(w)'
    BY <1>2, ParkedOK
  <1> QED BY <1>1, <1>2, <1>3, JobType, QuietStep

\* The snapshot is not stale yet: what it shows is what there is.
LEMMA SnapshotStep ==
    ASSUME IInv, NEW w \in Workers \cup Sweepers, job[w].pc = "begin",
           NEW seen \in CircleRow \cup {None}, NEW verdict \in Verdicts \cup {None},
           Snapshot(w, seen, verdict), UNCHANGED <<data, today>>,
           Asks(w, "gift") => wallet[job[w].req.user] >= job[w].req.amount,
           Asks(w, "expand") => /\ seen \in CircleRow
                                /\ wallet[Owner] >= job[w].req.product.price,
           Asks(w, "settle") => verdict \in Verdicts
    PROVE  IInv'
  <1>1. /\ job' = [job EXCEPT ![w] = job'[w]]
        /\ job'[w] = [job[w] EXCEPT !.pc = "commit", !.since = Len(ledger),
                                    !.seen = seen, !.verdict = verdict]
    BY JobType DEF Snapshot
  <1>2. Len(ledger) \in Nat /\ ledger' = ledger /\ wallet' = wallet
    BY DEF IInv, TypeOK, data
  <1>3. job'[w] \in Job
    BY <1>1, <1>2, JobType DEF Job
  <1>4. /\ job'[w].req = job[w].req /\ job'[w].pc = "commit" /\ job'[w].since = Len(ledger)
        /\ job'[w].seen = seen /\ job'[w].verdict = verdict /\ job'[w].day >= 1
    BY <1>1, JobType DEF Job, JobOK
  <1>5. JobOK(w)'
    BY <1>2, <1>4 DEF JobOK, Funded, At, Asks
  <1>6. Tables' /\ today' \in 1 .. Days
    BY JobType DEF data, IInv, TypeOK, Tables
  <1> QED BY <1>1, <1>2, <1>3, <1>5, <1>6, QuietStep

-----------------------------------------------------------------------------
(* The actions.                                                             *)

LEMMA TablesHold == IInv => Tables
BY DEF IInv, TypeOK, Tables

LEMMA QuietTables ==
    ASSUME IInv, UNCHANGED <<data, today>>
    PROVE  Tables' /\ UNCHANGED <<wallet, ledger, today>>
BY DEF IInv, TypeOK, Tables, data

LEMMA SendGift ==
    ASSUME IInv, NEW w \in Workers \cup Sweepers, sendGift(w) PROVE IInv'
  <1>1. PICK q \in GiftRequests :
           IF gifts[q.key] # None THEN Answer(w, q, assertIdempotentReplayMatches(q))
                                  ELSE Begin(w, q, "begin")
    BY DEF sendGift
  <1>2. q \in Requests /\ assertIdempotentReplayMatches(q) \in Answers
    BY DEF Requests, assertIdempotentReplayMatches, Answers
  <1>3. UNCHANGED <<data, today>>
    BY DEF sendGift
  <1> QED BY <1>1, <1>2, <1>3, AnswerStep, BeginStep, QuietTables

LEMMA BeginGift ==
    ASSUME IInv, NEW w \in Workers \cup Sweepers, beginGift(w) PROVE IInv'
  <1> DEFINE q == job[w].req
  <1>1. /\ UNCHANGED <<data, today>> /\ job[w].pc = "begin" /\ Asks(w, "gift")
        /\ q \in Requests /\ q.op = "gift" /\ Tables' /\ UNCHANGED <<wallet, ledger, today>>
    BY JobType, QuietTables DEF beginGift, At, Asks
  <1>2. CASE Answer(w, q, "dailyLimit") \/ Answer(w, q, "insufficient")
    BY <1>1, <1>2, AnswerStep DEF Answers
  <1>3. CASE wallet[q.user] >= q.amount /\ Snapshot(w, None, None)
    BY <1>1, <1>3, SnapshotStep DEF Asks
  <1> QED BY <1>2, <1>3 DEF beginGift

LEMMA GiftKeyTaken ==
    ASSUME IInv, NEW w \in Workers \cup Sweepers, giftKeyTaken(w) PROVE IInv'
  <1> DEFINE q == job[w].req
  <1>1. /\ UNCHANGED <<data, today>> /\ q \in Requests
        /\ Answer(w, q, assertIdempotentReplayMatches(q))
    BY JobType DEF giftKeyTaken, At, Asks
  <1>2. assertIdempotentReplayMatches(q) \in Answers
    BY DEF assertIdempotentReplayMatches, Answers
  <1> QED BY <1>1, <1>2, AnswerStep, QuietTables

LEMMA OneCardType ==
    ASSUME NEW f \in [Keys -> CardRow], NEW k, NEW r, k \in Keys => r \in CardRow
    PROVE  [f EXCEPT ![k] = r] \in [Keys -> CardRow]
OBVIOUS

LEMMA CardFields ==
    ASSUME NEW c \in CardRow, NEW n \in Nat
    PROVE  /\ [c EXCEPT !.attempts = n] \in CardRow /\ [c EXCEPT !.sent = n] \in CardRow
           /\ [c EXCEPT !.delivered = TRUE] \in CardRow /\ [c EXCEPT !.late = TRUE] \in CardRow
BY DEF CardRow

LEMMA OneAttemptMore ==
    ASSUME NEW c \in CardRow
    PROVE  [c EXCEPT !.attempts = c.attempts + 1] \in CardRow
  <1>1. c.attempts + 1 \in Nat
    BY DEF CardRow
  <1> QED BY <1>1, CardFields

LEMMA OneCardSent ==
    ASSUME NEW c \in CardRow
    PROVE  [c EXCEPT !.sent = IF c.sent = 0 THEN 1 ELSE c.sent] \in CardRow
  <1> DEFINE n == IF c.sent = 0 THEN 1 ELSE c.sent
  <1>1. n \in Nat
    BY DEF CardRow
  <1> HIDE DEF n
  <1>2. [c EXCEPT !.sent = n] \in CardRow
    BY <1>1, CardFields
  <1> QED BY <1>2 DEF n

LEMMA CardSteps ==
    ASSUME IInv, NEW w \in Workers \cup Sweepers,
           compensate(w) \/ claimCard(w) \/ issueTransferCard(w) \/ markDelivered(w)
    PROVE  IInv'
  <1>1. CASE compensate(w)
    <2>1. PICK k \in Keys :
             Begin(w, [op |-> "card", key |-> k, attempts |-> card[k].attempts], "claim")
      BY <1>1 DEF compensate
    <2>2. [op |-> "card", key |-> k, attempts |-> card[k].attempts] \in Requests
      BY DEF IInv, TypeOK, Requests, CardRow
    <2>3. UNCHANGED <<data, today>>
      BY <1>1 DEF compensate
    <2> QED BY <2>1, <2>2, <2>3, BeginStep
  <1> SUFFICES ASSUME claimCard(w) \/ issueTransferCard(w) \/ markDelivered(w) PROVE IInv'
    BY <1>1
  <1>2. /\ card' \in [Keys -> CardRow]
        /\ UNCHANGED <<wallet, ledger, gifts, circle, purchases, orders, referral, today>>
    <2> DEFINE k == job[w].req.key
    <2>1. card \in [Keys -> CardRow]
      BY DEF IInv, TypeOK
    <2>2. k \in Keys => card[k] \in CardRow
      BY <2>1
    <2>3. CASE claimCard(w)
      <3>1. card' = card \/ card' = [card EXCEPT ![k] = [card[k] EXCEPT !.attempts = card[k].attempts + 1]]
        BY <2>3 DEF claimCard
      <3> DEFINE r == [card[k] EXCEPT !.attempts = card[k].attempts + 1]
      <3>2. ASSUME k \in Keys PROVE r \in CardRow
        BY <2>2, <3>2, OneAttemptMore
      <3> HIDE DEF r
      <3>4. [card EXCEPT ![k] = r] \in [Keys -> CardRow]
        BY <2>1, <3>2, OneCardType
      <3>3. card' \in [Keys -> CardRow]
        BY <2>1, <3>1, <3>4 DEF r
      <3> QED BY <2>3, <3>3 DEF claimCard
    <2>4. CASE issueTransferCard(w)
      <3>1. card' = [card EXCEPT ![k] = [card[k] EXCEPT !.sent = IF card[k].sent = 0 THEN 1 ELSE card[k].sent]]
        BY <2>4 DEF issueTransferCard, insertCard
      <3> DEFINE r == [card[k] EXCEPT !.sent = IF card[k].sent = 0 THEN 1 ELSE card[k].sent]
      <3>2. ASSUME k \in Keys PROVE r \in CardRow
        BY <2>2, <3>2, OneCardSent
      <3> HIDE DEF r
      <3>4. [card EXCEPT ![k] = r] \in [Keys -> CardRow]
        BY <2>1, <3>2, OneCardType
      <3>3. card' \in [Keys -> CardRow]
        BY <3>1, <3>4 DEF r
      <3> QED BY <2>4, <3>3 DEF issueTransferCard
    <2>5. CASE markDelivered(w)
      <3>1. card' = [card EXCEPT ![k] = [card[k] EXCEPT !.delivered = TRUE]]
        BY <2>5 DEF markDelivered
      <3> DEFINE r == [card[k] EXCEPT !.delivered = TRUE]
      <3>2. ASSUME k \in Keys PROVE r \in CardRow
        BY <2>2, <3>2, CardFields
      <3> HIDE DEF r
      <3>4. [card EXCEPT ![k] = r] \in [Keys -> CardRow]
        BY <2>1, <3>2, OneCardType
      <3>3. card' \in [Keys -> CardRow]
        BY <3>1, <3>4 DEF r
      <3> QED BY <2>5, <3>3 DEF markDelivered
    <2> QED BY <2>3, <2>4, <2>5
  <1>3. Tables'
    BY <1>2 DEF IInv, TypeOK, Tables
  <1>4. Goto(w, "card") \/ Goto(w, "mark") \/ Finish(w)
    BY DEF claimCard, issueTransferCard, markDelivered
  <1> QED BY <1>2, <1>3, <1>4, GotoStep, FinishStep

LEMMA Purchase ==
    ASSUME IInv, NEW w \in Workers \cup Sweepers, purchase(w) PROVE IInv'
  <1>1. PICK q \in [op : {"expand"}, product : Products, key : Keys] : Begin(w, q, "begin")
    BY DEF purchase
  <1>2. q \in Requests /\ UNCHANGED <<data, today>>
    BY DEF Requests, purchase
  <1> QED BY <1>1, <1>2, BeginStep

LEMMA BeginPurchase ==
    ASSUME IInv, NEW w \in Workers \cup Sweepers, beginPurchase(w) PROVE IInv'
  <1> DEFINE q == job[w].req
  <1>1. /\ UNCHANGED <<data, today>> /\ job[w].pc = "begin" /\ Asks(w, "expand")
        /\ q \in Requests /\ q.op = "expand" /\ Tables' /\ UNCHANGED <<wallet, ledger, today>>
    BY JobType, QuietTables DEF beginPurchase, At, Asks
  <1>2. restorePrior(q) \in Answers /\ circle \in CircleRow
    BY DEF restorePrior, Answers, IInv, TypeOK
  <1>3. CASE \/ Answer(w, q, restorePrior(q)) \/ Answer(w, q, "capacityExceeded")
             \/ Answer(w, q, "insufficient")
    BY <1>1, <1>2, <1>3, AnswerStep DEF Answers
  <1>4. CASE wallet[Owner] >= q.product.price /\ Snapshot(w, circle, None)
    BY <1>1, <1>2, <1>4, SnapshotStep DEF Asks
  <1> QED BY <1>3, <1>4 DEF beginPurchase

LEMMA ApproveOrder ==
    ASSUME IInv, NEW w \in Workers \cup Sweepers, approveOrder(w) PROVE IInv'
  <1>1. PICK q \in [op : {"approve"}, order : Orders, payment : Payments, amount : Amounts] :
           Answer(w, q, "conflict") \/ Begin(w, q, "claim")
    BY DEF approveOrder
  <1>2. q \in Requests /\ UNCHANGED <<data, today>>
    BY DEF Requests, approveOrder
  <1> QED BY <1>1, <1>2, AnswerStep, BeginStep, QuietTables DEF Answers

LEMMA ClaimApproval ==
    ASSUME IInv, NEW w \in Workers \cup Sweepers, claimApproval(w) PROVE IInv'
  <1> DEFINE q == job[w].req
  <1>1. /\ q \in Requests /\ q.op = "approve"
        /\ UNCHANGED <<wallet, ledger, gifts, card, circle, purchases, referral, today>>
    BY JobType DEF claimApproval, At, Asks
  <1>2. q.payment \in Payments /\ q.amount \in Amounts
    BY <1>1 DEF Requests, GiftRequests
  <1>3. \/ UNCHANGED orders
        \/ orders' = [orders EXCEPT ![q.order] = [status |-> "PROCESSING", payment |-> q.payment,
                                                 amount |-> q.amount]]
    BY DEF claimApproval
  <1>6. orders' \in [Orders -> OrderRow]
    <2>1. orders \in [Orders -> OrderRow]
      BY DEF IInv, TypeOK
    <2>2. [status |-> "PROCESSING", payment |-> q.payment, amount |-> q.amount] \in OrderRow
      BY <1>2 DEF OrderRow
    <2> QED BY <1>3, <2>1, <2>2
  <1>4. Tables'
    BY <1>1, <1>6 DEF IInv, TypeOK, Tables
  <1>5. \/ Goto(w, "fulfil")
        \/ \E a \in Answers : Answer(w, q, a)
    BY DEF claimApproval, Answers
  <1> QED BY <1>1, <1>4, <1>5, AnswerStep, GotoStep

LEMMA SettleReferrals ==
    ASSUME IInv, NEW w \in Workers \cup Sweepers, settleReferrals(w) PROVE IInv'
  <1>1. PICK r \in Referrals : Begin(w, [op |-> "settle", referral |-> r], "begin")
    BY DEF settleReferrals
  <1>2. /\ [op |-> "settle", referral |-> r] \in Requests
        /\ UNCHANGED <<data, today>>
    BY DEF Requests, settleReferrals
  <1> QED BY <1>1, <1>2, BeginStep

LEMMA SettleOne ==
    ASSUME IInv, NEW w \in Workers \cup Sweepers, settleOne(w) PROVE IInv'
  <1>1. /\ UNCHANGED <<data, today>> /\ job[w].pc = "begin" /\ Asks(w, "settle")
        /\ job[w].req.op = "settle" /\ Tables' /\ UNCHANGED <<wallet, ledger, today>>
    BY QuietTables DEF settleOne, At, Asks
  <1>2. CASE Finish(w)
    BY <1>1, <1>2, FinishStep
  <1>3. CASE \E verdict \in Verdicts : Snapshot(w, None, verdict)
    BY <1>1, <1>3, SnapshotStep DEF Asks
  <1> QED BY <1>2, <1>3 DEF settleOne, Verdicts

LEMMA RetryType ==
    ASSUME NEW j \in Job
    PROVE  [j EXCEPT !.pc = "begin", !.tries = @ + 1, !.since = 0, !.seen = None,
                     !.verdict = None] \in Job
  <1>1. j.tries + 1 \in Nat
    BY DEF Job
  <1> QED BY <1>1 DEF Job

LEMMA Retry ==
    ASSUME IInv, NEW w \in Workers \cup Sweepers, runSerializableTransaction(w) PROVE IInv'
  <1>1. /\ UNCHANGED <<data, today>> /\ job[w].pc = "commit"
        /\ job \in [Workers \cup Sweepers -> Job] /\ job[w] \in Job /\ JobOK(w)
    BY JobType DEF runSerializableTransaction
  <1>2. CASE Answer(w, job[w].req, "failed")
    <2>1. job[w].req \in Requests \cup {None}
      BY <1>1 DEF Job
    <2> QED BY <1>1, <1>2, <2>1, AnswerStep, QuietTables DEF Answers
  <1>3. CASE job' = [job EXCEPT ![w].pc = "begin", ![w].tries = @ + 1, ![w].since = 0,
                                ![w].seen = None, ![w].verdict = None]
    <2> DEFINE r == [job[w] EXCEPT !.pc = "begin", !.tries = @ + 1, !.since = 0,
                                   !.seen = None, !.verdict = None]
    <2>1. job' = [job EXCEPT ![w] = r] /\ job'[w] = r
      BY <1>1, <1>3
    <2>2. r \in Job
      BY <1>1, RetryType
    <2>4. r.pc = "begin" /\ r.day >= 1
      BY <1>1 DEF Job, JobOK
    <2> HIDE DEF r
    <2>3. JobOK(w)'
      BY <2>1, <2>4 DEF JobOK, Funded, At
    <2> QED BY <1>1, <2>1, <2>2, <2>3, JobType, QuietTables, QuietStep
  <1> QED BY <1>2, <1>3 DEF runSerializableTransaction

\* Requests that are over and facts that do not concern coins.
LEMMA Others ==
    ASSUME IInv, NEW w \in Workers \cup Sweepers, Return(w) \/ Crash(w) PROVE IInv'
BY FinishStep, QuietTables DEF Return, Crash

\* No worker is involved.
LEMMA WorldStep ==
    ASSUME IInv, UNCHANGED <<wallet, ledger, job>>, Tables', today' \in 1 .. Days
    PROVE  IInv'
  <1>1. TypeOK'
    BY DEF IInv, TypeOK, Tables
  <1>3. LedgerReplays'
    <2>1. LedgerReplays
      BY DEF IInv
    <2> QED BY <2>1 DEF LedgerReplays, HeldBefore
  <1>2. JobsOK'
    BY DEF IInv, JobsOK, JobOK, Funded, At, Asks, Stale
  <1> QED BY <1>1, <1>2, <1>3 DEF IInv

LEMMA World ==
    ASSUME IInv,
           \/ \E k \in Keys : GracePasses(k)
           \/ \E o \in Orders : rejectOrder(o)
           \/ Midnight
    PROVE  IInv'
  <1>1. ASSUME NEW k \in Keys, GracePasses(k) PROVE IInv'
    <2>1. card' = [card EXCEPT ![k] = [card[k] EXCEPT !.late = TRUE]]
      BY <1>1 DEF GracePasses
    <2>2. card' \in [Keys -> CardRow]
      BY <2>1, CardFields, OneCardType DEF IInv, TypeOK
    <2> QED BY <1>1, <2>2, WorldStep DEF GracePasses, IInv, TypeOK, Tables
  <1>2. ASSUME NEW o \in Orders, rejectOrder(o) PROVE IInv'
    <2>1. orders' \in [Orders -> OrderRow]
      BY <1>2 DEF rejectOrder, IInv, TypeOK, OrderRow
    <2> QED BY <1>2, <2>1, WorldStep DEF rejectOrder, IInv, TypeOK, Tables
  <1>3. CASE Midnight
    BY <1>3, WorldStep, BoundsAssumption DEF Midnight, data, IInv, TypeOK, Tables
  <1> QED BY <1>1, <1>2, <1>3

-----------------------------------------------------------------------------
(* The actions that move coins.                                             *)

\* One row is booked.
LEMMA OneRow ==
    ASSUME IInv, NEW e \in Row, e.balance - e.amount = wallet[e.user],
           ledger' = Append(ledger, e), wallet' = [wallet EXCEPT ![e.user] = e.balance]
    PROVE  LedgerReplays' /\ Extends /\ ledger' \in Seq(Row) /\ wallet' \in [Users -> Nat]
  <1>1. wallet \in [Users -> Nat] /\ ledger \in Seq(Row) /\ Replays(ledger, wallet)
        /\ e.user \in Users /\ e.balance \in Nat /\ e.balance - e.amount = wallet[e.user]
    BY ReplaysIsLedgerReplays DEF IInv, TypeOK, Row
  <1>2. Replays(ledger', wallet')
    BY <1>1, ReplaysOneMore
  <1>3. LedgerReplays'
    BY <1>2 DEF LedgerReplays, Replays, HeldBefore, LastHeld
  <1>4. /\ Len(ledger) \in Nat /\ Len(ledger') = Len(ledger) + 1 /\ ledger'[Len(ledger) + 1] = e
        /\ \A i \in 1 .. Len(ledger) : ledger'[i] = ledger[i]
    BY <1>1
  <1>5. \A u \in Users : wallet'[u] # wallet[u] => u = e.user
    BY <1>1
  <1>6. Extends
    BY <1>4, <1>5 DEF Extends
  <1> QED BY <1>1, <1>3, <1>6

\* Two rows of different users are booked.
LEMMA TwoRows ==
    ASSUME IInv, NEW d \in Row, NEW e \in Row, d.user # e.user,
           d.balance - d.amount = wallet[d.user], e.balance - e.amount = wallet[e.user],
           ledger' = ledger \o <<d, e>>,
           wallet' = [wallet EXCEPT ![d.user] = d.balance, ![e.user] = e.balance]
    PROVE  LedgerReplays' /\ Extends /\ ledger' \in Seq(Row) /\ wallet' \in [Users -> Nat]
  <1>1. /\ wallet \in [Users -> Nat] /\ ledger \in Seq(Row) /\ Replays(ledger, wallet)
        /\ d.user \in Users /\ d.balance \in Nat /\ e.user \in Users /\ e.balance \in Nat
    BY ReplaysIsLedgerReplays DEF IInv, TypeOK, Row
  <1>2. wallet' \in [Users -> Nat]
    BY <1>1
  <1>3. Replays(ledger', wallet')
    BY <1>1, <1>2, ReplaysTwoMore
  <1>4. LedgerReplays'
    BY <1>3 DEF LedgerReplays, Replays, HeldBefore, LastHeld
  <1>5. /\ Len(ledger) \in Nat /\ Len(ledger') = Len(ledger) + 2
        /\ ledger'[Len(ledger) + 1] = d /\ ledger'[Len(ledger) + 2] = e
        /\ \A i \in 1 .. Len(ledger) : ledger'[i] = ledger[i]
        /\ ledger' \in Seq(Row)
    BY <1>1
  <1>6. \A u \in Users : wallet'[u] # wallet[u] => u \in {d.user, e.user}
    BY <1>1
  <1>7. Extends
    <2>1. ASSUME NEW u \in Users, wallet'[u] # wallet[u]
          PROVE  \E i \in Len(ledger) + 1 .. Len(ledger') : ledger'[i].user = u
      <3>1. u = d.user \/ u = e.user
        BY <1>6, <2>1
      <3>2. CASE u = d.user
        BY <1>5, <3>2
      <3>3. CASE u = e.user
        <4>1. Len(ledger) + 2 \in Len(ledger) + 1 .. Len(ledger')
          BY <1>5
        <4>2. ledger'[Len(ledger) + 2].user = u
          BY <1>5, <3>3
        <4> QED BY <4>1, <4>2
      <3> QED BY <3>1, <3>2, <3>3
    <2>2. Len(ledger) <= Len(ledger') /\ \A i \in 1 .. Len(ledger) : ledger'[i] = ledger[i]
      BY <1>5
    <2> QED BY <2>1, <2>2, Zenon DEF Extends
  <1> QED BY <1>2, <1>4, <1>5, <1>7

LEMMA SettledJob ==
    ASSUME NEW q, NEW pc, NEW a, NEW j, j = [Idle EXCEPT !.req = q, !.pc = pc, !.answer = a]
    PROVE  j = [req |-> q, pc |-> pc, since |-> 0, day |-> 0, tries |-> 0,
                seen |-> None, verdict |-> None, answer |-> a]
BY DEF Idle

\* The worker is done with a transaction that booked rows.
LEMMA AnsweredOK ==
    ASSUME IInv, NEW w \in Workers \cup Sweepers, NEW q \in Requests, Answer(w, q, "ok")
    PROVE  job' = [job EXCEPT ![w] = job'[w]] /\ job'[w] \in Job /\ JobOK(w)'
  <1> DEFINE j == [req |-> q, pc |-> "answered", since |-> 0, day |-> 0, tries |-> 0,
                   seen |-> None, verdict |-> None, answer |-> "ok"]
  <1>1. [Idle EXCEPT !.req = q, !.pc = "answered", !.answer = "ok"] = j
    BY SettledJob
  <1>2. job' = [job EXCEPT ![w] = [Idle EXCEPT !.req = q, !.pc = "answered", !.answer = "ok"]]
    BY DEF Answer
  <1>3. job' = [job EXCEPT ![w] = j] /\ job'[w] = j
    BY <1>1, <1>2, JobType
  <1>4. j \in Job
    BY BoundsAssumption DEF Job
  <1>5. JobOK(w)'
    BY <1>3, ParkedOK
  <1> QED BY <1>3, <1>4, <1>5

LEMMA CommitGift ==
    ASSUME IInv, NEW w \in Workers \cup Sweepers, commitGift(w) PROVE IInv'
  <1> DEFINE q == job[w].req
             s == q.user
             r == q.peer
             a == q.amount
  <1>1. /\ q \in Requests /\ q.op = "gift" /\ job[w].pc = "commit" /\ job[w].day >= 1
        /\ job[w] \in Job /\ job \in [Workers \cup Sweepers -> Job] /\ today \in 1 .. Days
        /\ wallet \in [Users -> Nat]
    BY JobType DEF commitGift, At, Asks, JobOK, IInv, TypeOK
  <1>2. /\ s \in Users /\ r \in Users /\ s # r /\ a \in Nat /\ q.key \in Keys /\ a \in Amounts
    BY <1>1, AmountsAssumption DEF Requests, GiftRequests
  <1>3. wallet[s] >= a
    BY JobType DEF commitGift, JobOK, Funded
  <1>4. wallet' = [wallet EXCEPT ![s] = wallet[s] - a, ![r] = wallet[r] + a]
    BY <1>1, <1>2 DEF commitGift
  <1>5. wallet'[s] = wallet[s] - a /\ wallet'[r] = wallet[r] + a
        /\ wallet'[s] \in Nat /\ wallet'[r] \in Nat
    BY <1>1, <1>2, <1>3, <1>4
  <1>6. PICK t \in job[w].day .. today :
           ledger' = ledger \o <<Entry(s, "GIFT_SENT", -a, q.key, t),
                                 Entry(r, "GIFT_RECEIVED", a, q.key, t)>>
    BY DEF commitGift
  <1>7. t \in 1 .. Days
    <2>1. job[w].day \in 0 .. Days
      BY <1>1 DEF Job
    <2> QED BY <1>1, <2>1, BoundsAssumption
  <1> DEFINE d == Entry(s, "GIFT_SENT", -a, q.key, t)
             e == Entry(r, "GIFT_RECEIVED", a, q.key, t)
  <1>8. d \in Row /\ e \in Row /\ d.user = s /\ e.user = r
        /\ d.balance = wallet'[s] /\ e.balance = wallet'[r] /\ d.amount = -a /\ e.amount = a
    BY <1>2, <1>5, <1>7 DEF Entry, Row
  <1> HIDE DEF d, e
  <1>9. /\ d.balance - d.amount = wallet[d.user] /\ e.balance - e.amount = wallet[e.user]
        /\ d.user # e.user /\ ledger' = ledger \o <<d, e>>
        /\ wallet' = [wallet EXCEPT ![d.user] = d.balance, ![e.user] = e.balance]
    <2>1. wallet[s] \in Nat /\ wallet[r] \in Nat
      BY <1>1, <1>2
    <2>2. (wallet[s] - a) - (-a) = wallet[s] /\ (wallet[r] + a) - a = wallet[r]
      BY <1>2, <2>1
    <2>3. d.balance - d.amount = wallet[d.user] /\ e.balance - e.amount = wallet[e.user]
      BY <1>5, <1>8, <2>2
    <2>4. d.user # e.user /\ ledger' = ledger \o <<d, e>>
      BY <1>2, <1>6, <1>8 DEF d, e
    <2>5. wallet' = [wallet EXCEPT ![d.user] = d.balance, ![e.user] = e.balance]
      BY <1>4, <1>5, <1>8
    <2> QED BY <2>3, <2>4, <2>5
  <1>10. LedgerReplays' /\ Extends /\ ledger' \in Seq(Row) /\ wallet' \in [Users -> Nat]
    BY <1>8, <1>9, TwoRows
  <1>11. /\ gifts' = [gifts EXCEPT ![q.key] = [sender |-> s, recipient |-> r, amount |-> a]]
         /\ UNCHANGED <<card, circle, purchases, orders, referral, today>>
    BY DEF commitGift
  <1>12. Tables' /\ today' \in 1 .. Days
    <2>1. gifts \in [Keys -> GiftRow \cup {None}]
      BY DEF IInv, TypeOK
    <2>2. [sender |-> s, recipient |-> r, amount |-> a] \in GiftRow
      BY <1>2 DEF GiftRow
    <2>3. gifts' \in [Keys -> GiftRow \cup {None}]
      BY <1>2, <1>11, <2>1, <2>2
    <2> QED BY <1>1, <1>11, <2>3 DEF IInv, TypeOK, Tables
  <1> DEFINE j == [req |-> q, pc |-> "card", since |-> 0, day |-> 0, tries |-> 0,
                   seen |-> None, verdict |-> None, answer |-> "ok"]
  <1>13. job' = [job EXCEPT ![w] = j] /\ job'[w] = j
    <2>1. [Idle EXCEPT !.req = q, !.pc = "card", !.answer = "ok"] = j
      BY SettledJob
    <2>2. job' = [job EXCEPT ![w] = [Idle EXCEPT !.req = q, !.pc = "card", !.answer = "ok"]]
      BY DEF commitGift
    <2> QED BY <1>1, <2>1, <2>2
  <1>14. j \in Job
    BY <1>1, BoundsAssumption DEF Job
  <1>15. JobOK(w)'
    BY <1>13, ParkedOK
  <1> QED BY <1>10, <1>12, <1>13, <1>14, <1>15, StepOK

LEMMA MinOfTwo ==
    ASSUME NEW a \in Nat, NEW b \in Nat
    PROVE  Min({a, b}) \in Nat
  <1>1. \E x \in {a, b} : \A y \in {a, b} : x <= y
    <2>1. CASE a <= b
      BY <2>1
    <2>2. CASE b <= a
      BY <2>2
    <2> QED BY <2>1, <2>2
  <1>2. Min({a, b}) \in {a, b}
    BY <1>1 DEF Min
  <1> QED BY <1>2

LEMMA CommitPurchase ==
    ASSUME IInv, NEW w \in Workers \cup Sweepers, commitPurchase(w) PROVE IInv'
  <1> DEFINE q == job[w].req
             p == q.product
             d == Entry(Owner, "PURCHASE", -p.price, q.key, today)
  <1>1. /\ q \in Requests /\ q.op = "expand" /\ today \in 1 .. Days /\ Owner \in Users
        /\ wallet \in [Users -> Nat] /\ circle \in CircleRow /\ job[w].seen \in CircleRow
    BY JobType, UsersAssumption DEF commitPurchase, At, Asks, JobOK, IInv, TypeOK
  <1>2. p \in Products /\ q.key \in Keys
    BY <1>1 DEF Requests, GiftRequests
  <1>3. p.price \in Nat /\ p.seats \in Nat
    BY <1>2, ProductsAssumption
  <1>4. wallet[Owner] >= p.price
    BY JobType DEF commitPurchase, JobOK, Funded
  <1>5. wallet' = [wallet EXCEPT ![Owner] = wallet[Owner] - p.price]
    BY DEF commitPurchase
  <1>6. wallet'[Owner] = wallet[Owner] - p.price /\ wallet'[Owner] \in Nat
    BY <1>1, <1>3, <1>4, <1>5
  <1>7. ledger' = Append(ledger, d)
    BY DEF commitPurchase
  <1>8. d \in Row /\ d.user = Owner /\ d.balance = wallet'[Owner] /\ d.amount = -p.price
    BY <1>1, <1>2, <1>3, <1>6 DEF Entry, Row
  <1> HIDE DEF d
  <1>9. d.balance - d.amount = wallet[d.user]
    BY <1>1, <1>3, <1>6, <1>8
  <1>10. wallet' = [wallet EXCEPT ![d.user] = d.balance]
    BY <1>5, <1>6, <1>8
  <1>11. LedgerReplays' /\ Extends /\ ledger' \in Seq(Row) /\ wallet' \in [Users -> Nat]
    BY <1>7, <1>8, <1>9, <1>10, OneRow
  <1>12. circle' \in CircleRow
    <2> DEFINE c == job[w].seen
    <2>1. c.max \in Nat /\ circle.seats + p.seats \in Nat
      BY <1>1, <1>3 DEF CircleRow
    <2>2. Min({c.max, HardLimit}) + p.seats \in Nat
      BY <1>3, <2>1, MinOfTwo, BoundsAssumption
    <2>3. Min({Min({c.max, HardLimit}) + p.seats, HardLimit}) \in Nat
      BY <2>2, MinOfTwo, BoundsAssumption
    <2>4. circle' = [max |-> Min({Min({c.max, HardLimit}) + p.seats, HardLimit}),
                     seats |-> circle.seats + p.seats]
      BY DEF commitPurchase, Expanded
    <2> QED BY <2>1, <2>3, <2>4 DEF CircleRow
  <1>13. purchases' \in [Keys -> Products \cup {None}]
    BY <1>2 DEF commitPurchase, IInv, TypeOK
  <1>14. Tables' /\ today' \in 1 .. Days
    BY <1>1, <1>12, <1>13 DEF commitPurchase, IInv, TypeOK, Tables
  <1>15. Answer(w, q, "ok")
    BY DEF commitPurchase
  <1> QED BY <1>1, <1>11, <1>14, <1>15, AnsweredOK, StepOK

LEMMA FulfillCoins ==
    ASSUME IInv, NEW w \in Workers \cup Sweepers, fulfillCoins(w) PROVE IInv'
  <1> DEFINE q == job[w].req
             u == OrderOf[q.order]
             d == Entry(u, "RECHARGE", q.amount, q.order, today)
  <1>1. /\ q \in Requests /\ q.op = "approve" /\ today \in 1 .. Days
        /\ wallet \in [Users -> Nat] /\ Answer(w, q, "ok")
        /\ UNCHANGED <<gifts, card, circle, purchases, referral, today>>
    BY JobType DEF fulfillCoins, At, Asks, IInv, TypeOK
  <1>2. q.order \in Orders /\ q.amount \in Nat /\ u \in Users
    BY <1>1, UsersAssumption, AmountsAssumption DEF Requests, GiftRequests
  <1>3. orders' \in [Orders -> OrderRow]
    <2>1. orders \in [Orders -> OrderRow]
      BY DEF IInv, TypeOK
    <2>2. orders' = orders \/ orders' = [orders EXCEPT ![q.order].status = "APPROVED"]
      BY DEF fulfillCoins
    <2>3. [orders EXCEPT ![q.order].status = "APPROVED"] \in [Orders -> OrderRow]
      BY <2>1 DEF OrderRow
    <2> QED BY <2>1, <2>2, <2>3
  <1>4. Tables' /\ today' \in 1 .. Days
    BY <1>1, <1>3 DEF IInv, TypeOK, Tables
  <1>5. CASE UNCHANGED <<wallet, ledger>>
    BY <1>1, <1>4, <1>5, AnsweredOK, QuietStep
  <1>6. CASE creditInTransaction(u, "RECHARGE", q.amount, q.order, today)
    <2>1. wallet' = [wallet EXCEPT ![u] = wallet[u] + q.amount] /\ ledger' = Append(ledger, d)
      BY <1>6 DEF creditInTransaction
    <2>2. wallet'[u] = wallet[u] + q.amount /\ wallet'[u] \in Nat /\ wallet[u] \in Nat
      BY <1>1, <1>2, <2>1
    <2>3. d \in Row /\ d.user = u /\ d.balance = wallet'[u] /\ d.amount = q.amount
      BY <1>1, <1>2, <2>2 DEF Entry, Row
    <2> HIDE DEF d
    <2>4. d.balance - d.amount = wallet[d.user]
      BY <1>2, <2>2, <2>3
    <2>5. wallet' = [wallet EXCEPT ![d.user] = d.balance]
      BY <2>1, <2>2, <2>3
    <2>6. LedgerReplays' /\ Extends /\ ledger' \in Seq(Row) /\ wallet' \in [Users -> Nat]
      BY <2>1, <2>3, <2>4, <2>5, OneRow
    <2> QED BY <1>1, <1>4, <2>6, AnsweredOK, StepOK
  <1> QED BY <1>5, <1>6 DEF fulfillCoins

LEMMA CommitSettlement ==
    ASSUME IInv, NEW w \in Workers \cup Sweepers, commitSettlement(w) PROVE IInv'
  <1> DEFINE q == job[w].req
             r == q.referral
             s == r.inviter
             t == r.invitee
             d == Entry(s, "REFERRAL_REWARD", Reward, r, today)
             e == Entry(t, "REFERRAL_BONUS", Reward, r, today)
  <1>1. /\ q \in Requests /\ q.op = "settle" /\ today \in 1 .. Days
        /\ wallet \in [Users -> Nat] /\ Finish(w) /\ job[w].verdict \in Verdicts
        /\ UNCHANGED <<gifts, card, circle, purchases, orders, today>>
        /\ referral' = [referral EXCEPT ![r] = job[w].verdict]
    BY JobType DEF commitSettlement, At, Asks, JobOK, IInv, TypeOK
  <1>2. r \in Referrals
    BY <1>1 DEF Requests, GiftRequests
  <1>3. s \in Users /\ t \in Users /\ s # t /\ Reward \in Nat
    BY <1>2, ReferralsAssumption, AmountsAssumption
  <1>4. referral' \in [Referrals -> {"PENDING"} \cup Verdicts]
    BY <1>1, <1>2 DEF IInv, TypeOK
  <1>5. Tables' /\ today' \in 1 .. Days
    BY <1>1, <1>4 DEF IInv, TypeOK, Tables
  <1>6. CASE UNCHANGED <<wallet, ledger>>
    BY <1>1, <1>5, <1>6, FinishStep
  <1>7. CASE ~UNCHANGED <<wallet, ledger>>
    <2>1. wallet' = [wallet EXCEPT ![s] = wallet[s] + Reward, ![t] = wallet[t] + Reward]
      BY <1>1, <1>3, <1>7 DEF commitSettlement
    <2>2. ledger' = ledger \o <<d, e>>
      BY <1>7 DEF commitSettlement
    <2>3. /\ wallet'[s] = wallet[s] + Reward /\ wallet'[s] \in Nat /\ wallet[s] \in Nat
          /\ wallet'[t] = wallet[t] + Reward /\ wallet'[t] \in Nat /\ wallet[t] \in Nat
      BY SMTT(30), <1>1, <1>3, <2>1
    <2>4. /\ d \in Row /\ d.user = s /\ d.balance = wallet'[s] /\ d.amount = Reward
          /\ e \in Row /\ e.user = t /\ e.balance = wallet'[t] /\ e.amount = Reward
      BY <1>1, <1>2, <1>3, <2>3 DEF Entry, Row
    <2> HIDE DEF d, e
    <2>5. d.balance - d.amount = wallet[d.user] /\ e.balance - e.amount = wallet[e.user]
      BY <1>3, <2>3, <2>4
    <2>6. wallet' = [wallet EXCEPT ![d.user] = d.balance, ![e.user] = e.balance]
      BY <2>1, <2>3, <2>4
    <2>7. LedgerReplays' /\ Extends /\ ledger' \in Seq(Row) /\ wallet' \in [Users -> Nat]
      BY <1>3, <2>2, <2>4, <2>5, <2>6, TwoRows
    <2>8. job' = [job EXCEPT ![w] = job'[w]] /\ job'[w] = Idle /\ Idle \in Job
      BY <1>1, JobType DEF Finish
    <2>9. JobOK(w)'
      BY <2>8, ParkedOK DEF Idle
    <2> QED BY <1>5, <2>7, <2>8, <2>9, StepOK
  <1> QED BY <1>6, <1>7

-----------------------------------------------------------------------------

LEMMA InitOK == Init => IInv
  <1> SUFFICES ASSUME Init PROVE IInv
    OBVIOUS
  <1>1. Idle \in Job
    BY BoundsAssumption DEF Idle, Job
  <1>2. wallet \in [Users -> Nat] /\ ledger \in Seq(Row) /\ Len(ledger) = 0 /\ DOMAIN ledger = {}
    BY OpeningAssumption DEF Init
  <1>3. /\ card \in [Keys -> CardRow] /\ circle \in CircleRow
        /\ gifts \in [Keys -> GiftRow \cup {None}]
        /\ purchases \in [Keys -> Products \cup {None}]
        /\ today \in 1 .. Days
    BY BoundsAssumption DEF Init, CardRow, CircleRow
  <1>4. /\ orders \in [Orders -> OrderRow]
        /\ referral \in [Referrals -> {"PENDING"} \cup Verdicts]
        /\ job \in [Workers \cup Sweepers -> Job]
    BY <1>1 DEF Init, OrderRow
  <1>5. TypeOK
    BY <1>2, <1>3, <1>4 DEF TypeOK
  <1>6. LedgerReplays
    BY <1>2, OpeningAssumption DEF LedgerReplays, HeldBefore, Init
  <1>7. JobsOK
    BY DEF Init, Idle, JobsOK, JobOK, Funded, At
  <1> QED BY <1>5, <1>6, <1>7 DEF IInv

LEMMA NextOK == IInv /\ [Next]_vars => IInv'
  <1> SUFFICES ASSUME IInv, [Next]_vars PROVE IInv'
    OBVIOUS
  <1>1. ASSUME NEW w \in Workers \cup Sweepers, Step(w) PROVE IInv'
    BY <1>1, SendGift, BeginGift, GiftKeyTaken, CommitGift, CardSteps, Purchase,
       BeginPurchase, CommitPurchase, ApproveOrder, ClaimApproval, FulfillCoins,
       SettleReferrals, SettleOne, CommitSettlement, Retry, Others DEF Step
  <1>2. CASE UNCHANGED vars
    BY <1>2, WorldStep, TablesHold DEF vars, IInv, TypeOK, Tables
  <1>3. ASSUME NEW w \in Sweepers, Cron(w) PROVE IInv'
    BY <1>3, CardSteps, World DEF Cron
  <1> QED BY <1>1, <1>2, <1>3, World DEF Next

\* The inductive invariant: the tables keep their shape, every ledger row
\* continues from the one before it, and a transaction whose snapshot is not
\* stale can still pay what it found sufficient funds for.
THEOREM LedgerInvariant == Spec => []IInv
  <1> QED BY InitOK, NextOK, PTL DEF Spec

\* The wallets stay non-negative and all tables keep their shape, however
\* gifts, purchases, recharges and settlements interleave, fail and retry.
THEOREM CoinTypeCorrect == Spec => []TypeOK
  <1>1. IInv => TypeOK
    BY DEF IInv
  <1> QED BY <1>1, LedgerInvariant, PTL

\* What the nightly reconciliation audits: the rows of every user replay from
\* the opening balance to the balance of the wallet.
THEOREM CoinLedgerReplays == Spec => []LedgerReplays
  <1>1. IInv => LedgerReplays
    BY DEF IInv
  <1> QED BY <1>1, LedgerInvariant, PTL
-----------------------------------------------------------------------------
(* What requests and tables agree on.  The argument: a key, a payment, an    *)
(* order and a referral are used up by the transaction that moves the coins. *)
(* A purchase or a reward whose snapshot is not stale finds the key unused,  *)
(* the circle as it was and the cap not reached, because whoever uses a key, *)
(* changes the circle or rewards the inviter writes the same wallet.         *)

RowsIn(L, type, related) == {i \in DOMAIN L : L[i].type = type /\ L[i].related = related}

\* The row of the ledger L that a fact calls for is there, and no other.
Entered(L, type, related, fact, u, amount) ==
    IF fact THEN \E i \in DOMAIN L : /\ RowsIn(L, type, related) = {i}
                                     /\ L[i].user = u /\ L[i].amount = amount
            ELSE RowsIn(L, type, related) = {}

GiftsEntered == \A k \in Keys :
    /\ Entered(ledger, "GIFT_SENT", k, gifts[k] # None, gifts[k].sender, -gifts[k].amount)
    /\ Entered(ledger, "GIFT_RECEIVED", k, gifts[k] # None, gifts[k].recipient,
               gifts[k].amount)

PurchasesEntered == \A k \in Keys :
    Entered(ledger, "PURCHASE", k, purchases[k] # None, Owner, -purchases[k].price)

RechargesEntered == \A o \in Orders :
    Entered(ledger, "RECHARGE", o, orders[o].status = "APPROVED", OrderOf[o],
            orders[o].amount)

RewardsEntered == \A r \in Referrals :
    /\ Entered(ledger, "REFERRAL_REWARD", r, referral[r] = "REWARDED", r.inviter, Reward)
    /\ Entered(ledger, "REFERRAL_BONUS", r, referral[r] = "REWARDED", r.invitee, Reward)

AllEntered == GiftsEntered /\ PurchasesEntered /\ RechargesEntered /\ RewardsEntered

CapHolds == \A u \in Users : IsFiniteSet(Rewarded(u)) /\ Cardinality(Rewarded(u)) <= MonthlyCap

\* A card is only made for a gift that is booked.
CardFact(w) ==
    /\ job[w].pc \in {"card", "mark"} => job[w].req # None /\ job[w].req.op \in {"gift", "card"}
    /\ Asks(w, "card") \/ job[w].pc \in {"card", "mark"} => gifts[job[w].req.key] # None
    /\ job[w].pc = "mark" => card[job[w].req.key].sent = 1

\* An order waits to be fulfilled as it was claimed.
OrderFact(w) ==
    At(w, "approve", "fulfil") =>
        /\ orders[job[w].req.order].status \in {"PROCESSING", "APPROVED"}
        /\ assertSameApproval(job[w].req.order, job[w].req)

\* Unless its snapshot is stale, a purchase finds what it decided on.
PurchaseFact(w) ==
    LET q == job[w].req IN
    At(w, "expand", "commit") /\ ~Stale(w, {Owner}) =>
        /\ purchases[q.key] = None /\ job[w].seen = circle
        /\ Capacity(Expanded(circle, q.product)) - Capacity(circle) = q.product.seats

\* A settlement holds its referral; unless its snapshot is stale the inviter
\* has as few rewards as it counted.
SettleFact(w) ==
    LET r == job[w].req.referral IN
    /\ Asks(w, "settle") => w \in Workers
    /\ At(w, "settle", "commit") => referral[r] = "PENDING"
    /\ At(w, "settle", "commit") /\ job[w].verdict = "REWARDED"
          /\ ~Stale(w, {r.inviter, r.invitee}) => Cardinality(Rewarded(r.inviter)) < MonthlyCap

\* What w was told.
AnswerFact(w) ==
    LET q == job[w].req  said == job[w].answer IN
    /\ Asks(w, "gift") /\ said \in {"ok", "conflict"} =>
          gifts[q.key] # None /\ (SameGift(gifts[q.key], q) <=> said = "ok")
    /\ Asks(w, "expand") /\ said \in {"ok", "conflict"} =>
          purchases[q.key] # None /\ (purchases[q.key] = q.product <=> said = "ok")
    /\ Asks(w, "approve") /\ said = "ok" =>
          orders[q.order].status = "APPROVED" /\ assertSameApproval(q.order, q)

Facts(w) == CardFact(w) /\ OrderFact(w) /\ PurchaseFact(w) /\ SettleFact(w) /\ AnswerFact(w)

AllFacts == \A w \in Workers \cup Sweepers : Facts(w)

\* One settlement of a referral at a time.
OneSettlement ==
    \A v, w \in Workers :
        /\ At(v, "settle", "commit") /\ At(w, "settle", "commit")
        /\ job[v].req.referral = job[w].req.referral
        => v = w

FInv == /\ AllEntered /\ PaymentPaysOnce /\ OneCard /\ CapHolds
        /\ AllFacts /\ OneSettlement

-----------------------------------------------------------------------------
(* What a step leaves of these facts.                                        *)

Grown == /\ Len(ledger) <= Len(ledger')
         /\ \A i \in 1 .. Len(ledger) : ledger'[i] = ledger[i]

\* A row of u has been added.
Written(u) == \E i \in Len(ledger) + 1 .. Len(ledger') : ledger'[i].user = u

\* A step of w uses up keys, orders and referrals, and gives none back.
Onward(w) ==
    /\ Grown
    /\ \A k \in Keys : /\ gifts[k] # None => gifts'[k] = gifts[k]
                       /\ purchases[k] # None => purchases'[k] = purchases[k]
                       /\ card[k].sent = 1 => card'[k].sent = 1
    /\ \A o \in Orders : orders[o].status \in {"PROCESSING", "APPROVED"} =>
          /\ orders'[o].payment = orders[o].payment /\ orders'[o].amount = orders[o].amount
          /\ orders'[o].status = orders[o].status \/ orders'[o].status = "APPROVED"
    /\ UNCHANGED <<purchases, circle>> \/ Written(Owner)
    /\ \A r \in Referrals : referral'[r] # referral[r] =>
          At(w, "settle", "commit") /\ job[w].req.referral = r
    /\ \A u \in Users : Rewarded(u)' \subseteq Rewarded(u) \/ Written(u)

LEMMA ReqFields ==
    ASSUME IInv, NEW w \in Workers \cup Sweepers
    PROVE  LET q == job[w].req IN
           /\ Asks(w, "gift") => /\ q.user \in Users /\ q.peer \in Users /\ q.user # q.peer
                                 /\ q.key \in Keys /\ q.amount \in Amounts
           /\ Asks(w, "expand") => q.key \in Keys /\ q.product \in Products
           /\ Asks(w, "approve") => q.order \in Orders /\ q.payment \in Payments
                                    /\ q.amount \in Amounts
           /\ Asks(w, "settle") => q.referral \in Referrals
           /\ Asks(w, "card") => q.key \in Keys
  <1>1. Asks(w, "gift") \/ Asks(w, "expand") \/ Asks(w, "approve") \/ Asks(w, "settle")
           \/ Asks(w, "card") => job[w].req \in Requests
    BY JobType DEF Asks
  <1> QED BY <1>1 DEF Requests, GiftRequests, Asks

LEMMA FreshBefore ==
    ASSUME IInv, NEW v \in Workers \cup Sweepers, job'[v] = job[v], Grown,
           job[v].pc = "commit", NEW S, ~Stale(v, S)', ledger' \in Seq(Row)
    PROVE  ~Stale(v, S) /\ \A u \in S : ~Written(u)
  <1>1. /\ job[v].since \in Nat /\ job[v].since <= Len(ledger)
        /\ Len(ledger) \in Nat /\ Len(ledger') \in Nat
    BY JobType DEF Job, JobOK, IInv, TypeOK
  <1>2. \A i \in job[v].since + 1 .. Len(ledger') : ledger'[i].user \notin S
    BY DEF Stale
  <1>3. ~Stale(v, S)
    BY <1>1, <1>2 DEF Stale, Grown
  <1>4. ASSUME NEW u \in S, Written(u) PROVE FALSE
    BY <1>1, <1>2, <1>4 DEF Written
  <1> QED BY <1>3, <1>4

\* A user is not rewarded more often than before.
LEMMA FewerRewards ==
    ASSUME FInv, NEW u \in Users, Rewarded(u)' \subseteq Rewarded(u)
    PROVE  /\ IsFiniteSet(Rewarded(u)') /\ Cardinality(Rewarded(u)') <= Cardinality(Rewarded(u))
           /\ Cardinality(Rewarded(u)') \in Nat /\ Cardinality(Rewarded(u)) \in Nat
  <1>1. IsFiniteSet(Rewarded(u))
    BY DEF FInv, CapHolds
  <1> QED BY <1>1, FS_Subset, FS_CardinalityType

LEMMA FactsKept ==
    ASSUME IInv, IInv', FInv, NEW w \in Workers \cup Sweepers, Onward(w),
           NEW v \in Workers \cup Sweepers, v # w \/ referral' = referral, job'[v] = job[v]
    PROVE  Facts(v)'
  <1> DEFINE q == job[v].req
  <1>1. Facts(v) /\ ledger' \in Seq(Row)
    BY DEF FInv, AllFacts, IInv, TypeOK
  <1>2. ASSUME NEW S, At(v, "expand", "commit") \/ At(v, "settle", "commit"), ~Stale(v, S)'
        PROVE  ~Stale(v, S) /\ \A u \in S : ~Written(u)
    BY <1>1, <1>2, FreshBefore DEF At, Onward
  <1>3. CardFact(v)'
    <2>1. ASSUME Asks(v, "card") \/ job[v].pc \in {"card", "mark"}
          PROVE  q.key \in Keys
      BY <1>1, <2>1, ReqFields DEF Facts, CardFact, Asks
    <2> QED BY <1>1, <2>1 DEF Facts, CardFact, Asks, Onward
  <1>4. OrderFact(v)'
    <2>1. At(v, "approve", "fulfil") => q.order \in Orders
      BY ReqFields DEF At
    <2> QED BY <1>1, <2>1 DEF Facts, OrderFact, At, Asks, Onward, assertSameApproval
  <1>5. PurchaseFact(v)'
    <2> SUFFICES ASSUME At(v, "expand", "commit"), ~Stale(v, {Owner})'
                 PROVE  PurchaseFact(v)'
      BY DEF PurchaseFact, At, Asks
    <2>1. ~Stale(v, {Owner}) /\ ~Written(Owner)
      BY <1>2
    <2>2. UNCHANGED <<purchases, circle>>
      BY <2>1 DEF Onward
    <2> QED BY <1>1, <2>1, <2>2 DEF Facts, PurchaseFact, At, Asks, Capacity, Expanded
  <1>6. SettleFact(v)'
    <2> DEFINE r == q.referral
    <2>1. Asks(v, "settle") => v \in Workers
      BY <1>1 DEF Facts, SettleFact
    <2>2. ASSUME At(v, "settle", "commit") PROVE referral'[r] = "PENDING"
      <3>1. r \in Referrals /\ v \in Workers /\ referral[r] = "PENDING"
        BY <1>1, <2>1, <2>2, ReqFields DEF At, Facts, SettleFact
      <3>2. referral' = referral \/ ~(At(w, "settle", "commit") /\ job[w].req.referral = r)
        <4>1. At(w, "settle", "commit") => w \in Workers
          BY DEF FInv, AllFacts, Facts, SettleFact, At
        <4> QED BY <2>2, <3>1, <4>1 DEF FInv, OneSettlement
      <3> QED BY <3>1, <3>2 DEF Onward
    <2>3. ASSUME At(v, "settle", "commit"), job[v].verdict = "REWARDED",
                 ~Stale(v, {r.inviter, r.invitee})'
          PROVE  Cardinality({x \in Referrals : x.inviter = r.inviter
                                               /\ referral'[x] = "REWARDED"}) < MonthlyCap
      <3>1. r \in Referrals /\ r.inviter \in Users
        BY <2>3, ReqFields, ReferralsAssumption DEF At
      <3>2. ~Stale(v, {r.inviter, r.invitee}) /\ ~Written(r.inviter)
        BY <1>2, <2>3
      <3>3. Cardinality(Rewarded(r.inviter)) < MonthlyCap
        BY <1>1, <2>3, <3>2 DEF Facts, SettleFact
      <3>4. PICK u \in Users : u = r.inviter
        BY <3>1
      <3>5. Rewarded(u)' \subseteq Rewarded(u)
        BY <3>2, <3>4 DEF Onward
      <3>6. Cardinality(Rewarded(u)') <= Cardinality(Rewarded(u))
            /\ Cardinality(Rewarded(u)') \in Nat /\ Cardinality(Rewarded(u)) \in Nat
        BY <3>5, FewerRewards
      <3>7. Cardinality(Rewarded(u)') < MonthlyCap
        BY <3>3, <3>4, <3>6, BoundsAssumption
      <3> QED BY <3>4, <3>7 DEF Rewarded
    <2> QED BY <2>1, <2>2, <2>3 DEF SettleFact, At, Asks, Rewarded
  <1>7. AnswerFact(v)'
    <2>1. /\ Asks(v, "gift") => q.key \in Keys
          /\ Asks(v, "expand") => q.key \in Keys
          /\ Asks(v, "approve") => q.order \in Orders
      BY ReqFields
    <2> QED BY <1>1, <2>1 DEF Facts, AnswerFact, Asks, SameGift, assertSameApproval, Onward
  <1> QED BY <1>3, <1>4, <1>5, <1>6, <1>7 DEF Facts

LEMMA FStep ==
    ASSUME IInv, IInv', FInv, NEW w \in Workers \cup Sweepers,
           job' = [job EXCEPT ![w] = job'[w]], Onward(w), Facts(w)',
           AllEntered', PaymentPaysOnce', OneCard', CapHolds',
           At(w, "settle", "commit")' =>
              \A v \in Workers \ {w} : ~(/\ At(v, "settle", "commit")
                                         /\ job[v].req.referral = job'[w].req.referral)
    PROVE  FInv'
  <1>1. \A v \in (Workers \cup Sweepers) \ {w} : job'[v] = job[v]
    BY JobType
  <1>2. AllFacts'
    <2>1. ASSUME NEW v \in Workers \cup Sweepers, v # w PROVE Facts(v)'
      BY <1>1, <2>1, FactsKept
    <2> QED BY <2>1 DEF AllFacts
  <1>3. OneSettlement'
    BY <1>1 DEF OneSettlement, FInv, At, Asks
  <1> QED BY <1>2, <1>3 DEF FInv

\* The tables stay as they are.
LEMMA SameData ==
    ASSUME IInv, FInv, NEW w, UNCHANGED data
    PROVE  Onward(w) /\ AllEntered' /\ PaymentPaysOnce' /\ OneCard' /\ CapHolds'
  <1>1. Onward(w)
    BY DEF Onward, Grown, data, Rewarded, IInv, TypeOK
  <1>2. AllEntered'
    BY DEF FInv, AllEntered, GiftsEntered, PurchasesEntered, RechargesEntered,
           RewardsEntered, Entered, RowsIn, data
  <1>3. PaymentPaysOnce' /\ OneCard' /\ CapHolds'
    BY DEF FInv, PaymentPaysOnce, OneCard, CapHolds, Rewarded, data
  <1> QED BY <1>1, <1>2, <1>3

LEMMA QuietF ==
    ASSUME IInv, IInv', FInv, NEW w \in Workers \cup Sweepers, UNCHANGED data,
           job' = [job EXCEPT ![w] = job'[w]], Facts(w)',
           At(w, "settle", "commit")' =>
              \A v \in Workers \ {w} : ~(/\ At(v, "settle", "commit")
                                         /\ job[v].req.referral = job'[w].req.referral)
    PROVE  FInv'
BY SameData, FStep

\* The request a worker handles after a step.
LEMMA JobAfter ==
    ASSUME IInv, NEW w \in Workers \cup Sweepers
    PROVE  /\ Finish(w) => /\ job' = [job EXCEPT ![w] = job'[w]]
                           /\ job'[w].req = None /\ job'[w].pc = "idle"
           /\ \A q, pc : Begin(w, q, pc) =>
                 /\ job' = [job EXCEPT ![w] = job'[w]]
                 /\ job'[w].req = q /\ job'[w].pc = pc /\ job'[w].answer = None
           /\ \A q, a : Answer(w, q, a) =>
                 /\ job' = [job EXCEPT ![w] = job'[w]]
                 /\ job'[w].req = q /\ job'[w].pc = "answered" /\ job'[w].answer = a
           /\ \A pc : Goto(w, pc) =>
                 /\ job' = [job EXCEPT ![w] = job'[w]]
                 /\ job'[w].req = job[w].req /\ job'[w].pc = pc
                 /\ job'[w].answer = job[w].answer
           /\ \A seen, verdict : Snapshot(w, seen, verdict) =>
                 /\ job' = [job EXCEPT ![w] = job'[w]]
                 /\ job'[w].req = job[w].req /\ job'[w].pc = "commit"
                 /\ job'[w].answer = job[w].answer
                 /\ job'[w].seen = seen /\ job'[w].verdict = verdict
  <1>1. job \in [Workers \cup Sweepers -> Job] /\ job[w] \in Job
    BY JobType
  <1>2. Finish(w) => /\ job' = [job EXCEPT ![w] = job'[w]]
                     /\ job'[w].req = None /\ job'[w].pc = "idle"
    <2>1. Idle.req = None /\ Idle.pc = "idle"
      BY DEF Idle
    <2> QED BY <1>1, <2>1 DEF Finish
  <1>3. ASSUME NEW q, NEW pc, Begin(w, q, pc)
        PROVE  /\ job' = [job EXCEPT ![w] = job'[w]]
               /\ job'[w].req = q /\ job'[w].pc = pc /\ job'[w].answer = None
    <2> DEFINE j == [Idle EXCEPT !.req = q, !.pc = pc, !.day = today]
    <2>1. j.req = q /\ j.pc = pc /\ j.answer = None /\ job' = [job EXCEPT ![w] = j]
      BY <1>3 DEF Begin, Idle
    <2> HIDE DEF j
    <2> QED BY <1>1, <2>1
  <1>4. ASSUME NEW q, NEW a, Answer(w, q, a)
        PROVE  /\ job' = [job EXCEPT ![w] = job'[w]]
               /\ job'[w].req = q /\ job'[w].pc = "answered" /\ job'[w].answer = a
    <2> DEFINE j == [Idle EXCEPT !.req = q, !.pc = "answered", !.answer = a]
    <2>1. j.req = q /\ j.pc = "answered" /\ j.answer = a /\ job' = [job EXCEPT ![w] = j]
      BY <1>4 DEF Answer, Idle
    <2> HIDE DEF j
    <2> QED BY <1>1, <2>1
  <1>5. ASSUME NEW pc, Goto(w, pc)
        PROVE  /\ job' = [job EXCEPT ![w] = job'[w]]
               /\ job'[w].req = job[w].req /\ job'[w].pc = pc
               /\ job'[w].answer = job[w].answer
    <2> DEFINE j == [job[w] EXCEPT !.pc = pc]
    <2>1. /\ j.req = job[w].req /\ j.pc = pc /\ j.answer = job[w].answer
          /\ job' = [job EXCEPT ![w] = j]
      BY <1>1, <1>5 DEF Goto, Job
    <2> HIDE DEF j
    <2> QED BY <1>1, <2>1
  <1>6. ASSUME NEW seen, NEW verdict, Snapshot(w, seen, verdict)
        PROVE  /\ job' = [job EXCEPT ![w] = job'[w]]
               /\ job'[w].req = job[w].req /\ job'[w].pc = "commit"
               /\ job'[w].answer = job[w].answer
               /\ job'[w].seen = seen /\ job'[w].verdict = verdict
    <2> DEFINE j == [job[w] EXCEPT !.pc = "commit", !.since = Len(ledger),
                                   !.seen = seen, !.verdict = verdict]
    <2>1. /\ j.req = job[w].req /\ j.pc = "commit" /\ j.answer = job[w].answer
          /\ j.seen = seen /\ j.verdict = verdict /\ job' = [job EXCEPT ![w] = j]
      BY <1>1, <1>6 DEF Snapshot, Job
    <2> HIDE DEF j
    <2> QED BY <1>1, <2>1
  <1> QED BY <1>2, <1>3, <1>4, <1>5, <1>6

\* A request that is over, or has its answer.
LEMMA DoneFacts ==
    ASSUME NEW w, job'[w].pc \in {"idle", "answered"}, AnswerFact(w)',
           Asks(w, "card")' => gifts'[job'[w].req.key] # None,
           Asks(w, "settle")' => w \in Workers
    PROVE  Facts(w)' /\ ~At(w, "settle", "commit")'
BY DEF Facts, CardFact, OrderFact, PurchaseFact, SettleFact, At

LEMMA FinishF ==
    ASSUME IInv, IInv', FInv, NEW w \in Workers \cup Sweepers, Finish(w), UNCHANGED data
    PROVE  FInv'
  <1>1. /\ job' = [job EXCEPT ![w] = job'[w]]
        /\ job'[w].req = None /\ job'[w].pc = "idle"
    BY JobAfter
  <1>2. Facts(w)' /\ ~At(w, "settle", "commit")'
    BY <1>1, DoneFacts DEF AnswerFact, Asks
  <1> QED BY <1>1, <1>2, QuietF

\* An answer that does not say whether the key, or the order, was taken.
LEMMA RefusedF ==
    ASSUME IInv, IInv', FInv, NEW w \in Workers \cup Sweepers, UNCHANGED data,
           NEW q, NEW a, Answer(w, q, a),
           \/ a \notin {"ok", "conflict"} /\ q = job[w].req
           \/ a = "conflict" /\ q.op = "approve"
    PROVE  FInv'
  <1>1. /\ job' = [job EXCEPT ![w] = job'[w]]
        /\ job'[w].req = q /\ job'[w].pc = "answered" /\ job'[w].answer = a
    BY JobAfter
  <1>2. Facts(w)
    BY DEF FInv, AllFacts
  <1>3. AnswerFact(w)' /\ (Asks(w, "card")' => gifts'[job'[w].req.key] # None)
        /\ (Asks(w, "settle")' => w \in Workers)
    BY <1>1, <1>2 DEF AnswerFact, Asks, Facts, CardFact, SettleFact, data
  <1> QED BY <1>1, <1>3, DoneFacts, QuietF

-----------------------------------------------------------------------------
(* The actions that write no table.                                          *)

LEMMA SendGiftF ==
    ASSUME IInv, IInv', FInv, NEW w \in Workers \cup Sweepers, sendGift(w) PROVE FInv'
  <1>1. PICK q \in GiftRequests :
           IF gifts[q.key] # None THEN Answer(w, q, assertIdempotentReplayMatches(q))
                                  ELSE Begin(w, q, "begin")
    BY DEF sendGift
  <1>2. UNCHANGED data /\ q.op = "gift"
    BY DEF sendGift, GiftRequests
  <1>3. CASE gifts[q.key] # None
    <2>1. /\ job' = [job EXCEPT ![w] = job'[w]]
          /\ job'[w].req = q /\ job'[w].pc = "answered"
          /\ job'[w].answer = assertIdempotentReplayMatches(q)
      BY <1>1, <1>3, JobAfter
    <2>2. AnswerFact(w)' /\ ~Asks(w, "card")' /\ ~Asks(w, "settle")'
      BY <1>2, <1>3, <2>1 DEF AnswerFact, Asks, assertIdempotentReplayMatches, SameGift, data
    <2> QED BY <1>2, <2>1, <2>2, DoneFacts, QuietF
  <1>4. CASE gifts[q.key] = None
    <2>1. /\ job' = [job EXCEPT ![w] = job'[w]]
          /\ job'[w].req = q /\ job'[w].pc = "begin" /\ job'[w].answer = None
      BY <1>1, <1>4, JobAfter
    <2>2. Facts(w)' /\ ~At(w, "settle", "commit")'
      BY <1>2, <2>1, NoneAssumption
         DEF Facts, CardFact, OrderFact, PurchaseFact, SettleFact, AnswerFact, At, Asks
    <2> QED BY <1>2, <2>1, <2>2, QuietF
  <1> QED BY <1>3, <1>4

LEMMA BeginGiftF ==
    ASSUME IInv, IInv', FInv, NEW w \in Workers \cup Sweepers, beginGift(w) PROVE FInv'
  <1>1. UNCHANGED data /\ Asks(w, "gift") /\ Facts(w)
    BY DEF beginGift, At, FInv, AllFacts
  <1>2. CASE \/ Answer(w, job[w].req, "dailyLimit")
             \/ Answer(w, job[w].req, "insufficient")
    BY <1>1, <1>2, RefusedF
  <1>3. CASE Snapshot(w, None, None)
    <2>1. /\ job' = [job EXCEPT ![w] = job'[w]]
          /\ job'[w].req = job[w].req /\ job'[w].pc = "commit"
          /\ job'[w].answer = job[w].answer
      BY <1>3, JobAfter
    <2>2. Facts(w)' /\ ~At(w, "settle", "commit")'
      BY <1>1, <2>1 DEF Facts, CardFact, OrderFact, PurchaseFact, SettleFact, AnswerFact,
                        At, Asks, data, SameGift
    <2> QED BY <1>1, <2>1, <2>2, QuietF
  <1> QED BY <1>2, <1>3 DEF beginGift

LEMMA GiftKeyTakenF ==
    ASSUME IInv, IInv', FInv, NEW w \in Workers \cup Sweepers, giftKeyTaken(w) PROVE FInv'
  <1> DEFINE q == job[w].req
  <1>1. /\ UNCHANGED data /\ q.op = "gift" /\ gifts[q.key] # None
        /\ Answer(w, q, assertIdempotentReplayMatches(q))
    BY DEF giftKeyTaken, At, Asks
  <1>2. /\ job' = [job EXCEPT ![w] = job'[w]]
        /\ job'[w].req = q /\ job'[w].pc = "answered"
        /\ job'[w].answer = assertIdempotentReplayMatches(q)
    BY <1>1, JobAfter
  <1>3. AnswerFact(w)' /\ ~Asks(w, "card")' /\ ~Asks(w, "settle")'
    BY <1>1, <1>2 DEF AnswerFact, Asks, assertIdempotentReplayMatches, SameGift, data
  <1> QED BY <1>1, <1>2, <1>3, DoneFacts, QuietF

LEMMA BeginsF ==
    ASSUME IInv, IInv', FInv, NEW w \in Workers \cup Sweepers,
           purchase(w) \/ settleReferrals(w) \/ compensate(w) \/ approveOrder(w)
    PROVE  FInv'
  <1>1. UNCHANGED data
    BY DEF purchase, settleReferrals, compensate, approveOrder
  <1>2. \/ \E q, pc : /\ Begin(w, q, pc) /\ pc \in {"begin", "claim"}
                      /\ q.op \in {"expand", "settle", "card", "approve"}
                      /\ q.op = "card" => gifts[q.key] # None
                      /\ q.op = "settle" => w \in Workers
        \/ \E q : Answer(w, q, "conflict") /\ q.op = "approve"
    <2>1. CASE purchase(w)
      BY <2>1 DEF purchase
    <2>2. CASE settleReferrals(w)
      <3>1. PICK r \in Referrals : Begin(w, [op |-> "settle", referral |-> r], "begin")
        BY <2>2 DEF settleReferrals
      <3>2. w \in Workers
        BY <2>2 DEF settleReferrals
      <3> QED BY <3>1, <3>2
    <2>3. CASE compensate(w)
      <3>1. PICK k \in Keys : /\ CardDue(k)
               /\ Begin(w, [op |-> "card", key |-> k, attempts |-> card[k].attempts], "claim")
        BY <2>3 DEF compensate
      <3> QED BY <3>1 DEF CardDue
    <2>4. CASE approveOrder(w)
      BY <2>4 DEF approveOrder
    <2> QED BY <2>1, <2>2, <2>3, <2>4
  <1>3. ASSUME NEW q, NEW pc \in {"begin", "claim"}, Begin(w, q, pc),
               q.op \in {"expand", "settle", "card", "approve"},
               q.op = "card" => gifts[q.key] # None, q.op = "settle" => w \in Workers
        PROVE  FInv'
    <2>1. /\ job' = [job EXCEPT ![w] = job'[w]]
          /\ job'[w].req = q /\ job'[w].pc = pc /\ job'[w].answer = None
      BY <1>3, JobAfter
    <2>2. Facts(w)' /\ ~At(w, "settle", "commit")'
      BY <1>1, <1>3, <2>1, NoneAssumption
         DEF Facts, CardFact, OrderFact, PurchaseFact, SettleFact, AnswerFact, At, Asks, data
    <2> QED BY <1>1, <2>1, <2>2, QuietF
  <1> QED BY <1>1, <1>2, <1>3, RefusedF

LEMMA BeginPurchaseF ==
    ASSUME IInv, IInv', FInv, NEW w \in Workers \cup Sweepers, beginPurchase(w) PROVE FInv'
  <1> DEFINE q == job[w].req
             p == q.product
  <1>1. UNCHANGED data /\ Asks(w, "expand") /\ q.op = "expand" /\ Facts(w)
    BY DEF beginPurchase, At, Asks, FInv, AllFacts
  <1>2. CASE Answer(w, q, "capacityExceeded") \/ Answer(w, q, "insufficient")
    BY <1>1, <1>2, RefusedF
  <1>3. CASE purchases[q.key] # None /\ Answer(w, q, restorePrior(q))
    <2>1. /\ job' = [job EXCEPT ![w] = job'[w]]
          /\ job'[w].req = q /\ job'[w].pc = "answered" /\ job'[w].answer = restorePrior(q)
      BY <1>3, JobAfter
    <2>2. AnswerFact(w)' /\ ~Asks(w, "card")' /\ ~Asks(w, "settle")'
      BY <1>1, <1>3, <2>1 DEF AnswerFact, Asks, restorePrior, data
    <2> QED BY <1>1, <2>1, <2>2, DoneFacts, QuietF
  <1>4. CASE /\ purchases[q.key] = None /\ Snapshot(w, circle, None)
             /\ Capacity(Expanded(circle, p)) - Capacity(circle) = p.seats
    <2>1. /\ job' = [job EXCEPT ![w] = job'[w]]
          /\ job'[w].req = q /\ job'[w].pc = "commit" /\ job'[w].seen = circle
          /\ job'[w].answer = job[w].answer
      BY <1>4, JobAfter
    <2>2. PurchaseFact(w)'
      BY <1>1, <1>4, <2>1 DEF PurchaseFact, data, Capacity, Expanded
    <2>3. Facts(w)' /\ ~At(w, "settle", "commit")'
      BY <1>1, <2>1, <2>2 DEF Facts, CardFact, OrderFact, SettleFact, AnswerFact,
                              At, Asks, data
    <2> QED BY <1>1, <2>1, <2>3, QuietF
  <1> QED BY <1>2, <1>3, <1>4 DEF beginPurchase

LEMMA SettleOneF ==
    ASSUME IInv, IInv', FInv, NEW w \in Workers \cup Sweepers, settleOne(w) PROVE FInv'
  <1> DEFINE r == job[w].req.referral
  <1>1. /\ UNCHANGED data /\ Asks(w, "settle") /\ Facts(w) /\ ~HeldByOther(w)
        /\ job[w].req.op = "settle"
    BY DEF settleOne, At, Asks, FInv, AllFacts
  <1>2. CASE Finish(w)
    BY <1>1, <1>2, FinishF
  <1>3. ASSUME referral[r] = "PENDING", NEW verdict, Snapshot(w, None, verdict),
               verdict = "REWARDED" => ~(Cardinality(Rewarded(r.inviter)) >= MonthlyCap)
        PROVE  FInv'
    <2>1. /\ job' = [job EXCEPT ![w] = job'[w]]
          /\ job'[w].req = job[w].req /\ job'[w].pc = "commit"
          /\ job'[w].answer = job[w].answer /\ job'[w].verdict = verdict
      BY <1>3, JobAfter
    <2>2. PICK u \in Users : u = r.inviter
      BY <1>1, ReqFields, ReferralsAssumption
    <2>3. Cardinality(Rewarded(u)) \in Nat
      BY FS_CardinalityType DEF FInv, CapHolds
    <2>4. verdict = "REWARDED" => Cardinality(Rewarded(u)) < MonthlyCap
      BY <1>3, <2>2, <2>3, BoundsAssumption
    <2>5. SettleFact(w)'
      BY <1>1, <1>3, <2>1, <2>2, <2>4 DEF Facts, SettleFact, At, Asks, data, Rewarded
    <2>6. Facts(w)'
      BY <1>1, <2>1, <2>5 DEF Facts, CardFact, OrderFact, PurchaseFact, AnswerFact,
                              At, Asks, data
    <2> QED BY <1>1, <2>1, <2>6, QuietF DEF HeldByOther
  <1>4. \/ Finish(w)
        \/ \E verdict : /\ referral[r] = "PENDING" /\ Snapshot(w, None, verdict)
                        /\ verdict = "REWARDED" =>
                              ~(Cardinality(Rewarded(r.inviter)) >= MonthlyCap)
    BY DEF settleOne
  <1> QED BY <1>2, <1>3, <1>4

LEMMA RetryF ==
    ASSUME IInv, IInv', FInv, NEW w \in Workers \cup Sweepers, runSerializableTransaction(w)
    PROVE  FInv'
  <1>1. UNCHANGED data /\ Facts(w) /\ job \in [Workers \cup Sweepers -> Job] /\ job[w] \in Job
    BY JobType DEF runSerializableTransaction, FInv, AllFacts
  <1>2. CASE Answer(w, job[w].req, "failed")
    BY <1>1, <1>2, RefusedF
  <1>3. CASE job' = [job EXCEPT ![w].pc = "begin", ![w].tries = @ + 1, ![w].since = 0,
                                ![w].seen = None, ![w].verdict = None]
    <2> DEFINE j == [job[w] EXCEPT !.pc = "begin", !.tries = @ + 1, !.since = 0,
                                   !.seen = None, !.verdict = None]
    <2>1. job' = [job EXCEPT ![w] = j]
      BY <1>3
    <2>2. j.pc = "begin" /\ j.req = job[w].req /\ j.answer = job[w].answer
      BY <1>1 DEF Job
    <2> HIDE DEF j
    <2>3. job'[w] = j /\ job' = [job EXCEPT ![w] = job'[w]]
      BY <1>1, <2>1
    <2>4. Facts(w)' /\ ~At(w, "settle", "commit")'
      BY <1>1, <2>2, <2>3 DEF Facts, CardFact, OrderFact, PurchaseFact, SettleFact, AnswerFact,
                              At, Asks, data, SameGift, assertSameApproval
    <2> QED BY <1>1, <2>3, <2>4, QuietF
  <1> QED BY <1>2, <1>3 DEF runSerializableTransaction

LEMMA OthersF ==
    ASSUME IInv, IInv', FInv, NEW w \in Workers \cup Sweepers, Return(w) \/ Crash(w)
    PROVE  FInv'
BY FinishF DEF Return, Crash

-----------------------------------------------------------------------------
(* The actions that write cards.                                             *)

LEMMA CardsOnly ==
    ASSUME IInv, FInv, NEW w,
           UNCHANGED <<wallet, ledger, gifts, circle, purchases, orders, referral>>,
           \A k \in Keys : card[k].sent = 1 => card'[k].sent = 1
    PROVE  Onward(w) /\ AllEntered' /\ PaymentPaysOnce' /\ CapHolds'
  <1>1. Onward(w)
    BY DEF Onward, Grown, Rewarded, IInv, TypeOK
  <1>2. AllEntered'
    BY DEF FInv, AllEntered, GiftsEntered, PurchasesEntered, RechargesEntered,
           RewardsEntered, Entered, RowsIn
  <1>3. PaymentPaysOnce' /\ CapHolds'
    BY DEF FInv, PaymentPaysOnce, CapHolds, Rewarded
  <1> QED BY <1>1, <1>2, <1>3

\* One card is written, and it stays one.
LEMMA OneCardWritten ==
    ASSUME FInv, IInv, NEW k \in Keys, gifts' = gifts,
           \A x \in Keys \ {k} : card'[x] = card[x],
           card'[k].sent <= 1, card'[k].delivered => card'[k].sent = 1,
           card'[k].sent > 0 => gifts[k] # None, card[k].sent = 1 => card'[k].sent = 1
    PROVE  OneCard' /\ \A x \in Keys : card[x].sent = 1 => card'[x].sent = 1
BY DEF OneCard, FInv

LEMMA ClaimCardF ==
    ASSUME IInv, IInv', FInv, NEW w \in Workers \cup Sweepers, claimCard(w) PROVE FInv'
  <1> DEFINE k == job[w].req.key
  <1>1. /\ Asks(w, "card") /\ k \in Keys /\ Facts(w) /\ gifts[k] # None
        /\ UNCHANGED <<wallet, ledger, gifts, circle, purchases, orders, referral>>
        /\ card \in [Keys -> CardRow]
    BY ReqFields DEF claimCard, At, FInv, AllFacts, Facts, CardFact, IInv, TypeOK
  <1>2. CASE card' = card /\ Finish(w)
    BY <1>1, <1>2, FinishF DEF data
  <1>3. CASE card' = [card EXCEPT ![k].attempts = @ + 1] /\ Goto(w, "card")
    <2>1. /\ card'[k].sent = card[k].sent /\ card'[k].delivered = card[k].delivered
          /\ \A x \in Keys \ {k} : card'[x] = card[x]
      BY <1>1, <1>3 DEF CardRow
    <2>2. OneCard' /\ \A x \in Keys : card[x].sent = 1 => card'[x].sent = 1
      <3>1. card[k].sent <= 1 /\ (card[k].delivered => card[k].sent = 1)
        BY <1>1 DEF FInv, OneCard
      <3> QED BY <1>1, <2>1, <3>1, OneCardWritten
    <2>3. Onward(w) /\ AllEntered' /\ PaymentPaysOnce' /\ CapHolds'
      BY <1>1, <2>2, CardsOnly
    <2>4. /\ job' = [job EXCEPT ![w] = job'[w]]
          /\ job'[w].req = job[w].req /\ job'[w].pc = "card"
      BY <1>3, JobAfter
    <2>5. Facts(w)' /\ ~At(w, "settle", "commit")'
      BY <1>1, <2>4 DEF Facts, CardFact, OrderFact, PurchaseFact, SettleFact, AnswerFact,
                        At, Asks
    <2> QED BY <2>2, <2>3, <2>4, <2>5, FStep
  <1> QED BY <1>1, <1>2, <1>3 DEF claimCard

LEMMA IssueCardF ==
    ASSUME IInv, IInv', FInv, NEW w \in Workers \cup Sweepers, issueTransferCard(w)
    PROVE  FInv'
  <1> DEFINE k == job[w].req.key
  <1>1. /\ Facts(w) /\ (Asks(w, "gift") \/ Asks(w, "card"))
        /\ gifts[k] # None /\ Goto(w, "mark")
        /\ card' = [card EXCEPT ![k].sent = IF @ = 0 THEN 1 ELSE @]
        /\ UNCHANGED <<wallet, ledger, gifts, circle, purchases, orders, referral>>
        /\ card \in [Keys -> CardRow]
    BY DEF issueTransferCard, insertCard, FInv, AllFacts, Facts, CardFact, Asks, IInv, TypeOK
  <1>2. k \in Keys
    BY <1>1, ReqFields
  <1>3. /\ card'[k].sent = 1 /\ \A x \in Keys \ {k} : card'[x] = card[x]
    <2>1. card[k].sent \in Nat /\ card[k].sent <= 1
      BY <1>1, <1>2 DEF CardRow, FInv, OneCard
    <2>2. card'[k].sent = IF card[k].sent = 0 THEN 1 ELSE card[k].sent
      BY <1>1, <1>2 DEF CardRow
    <2> QED BY SMTT(30), <1>1, <2>1, <2>2
  <1>4. OneCard' /\ \A x \in Keys : card[x].sent = 1 => card'[x].sent = 1
    BY SMTT(30), <1>1, <1>2, <1>3, OneCardWritten
  <1>5. Onward(w) /\ AllEntered' /\ PaymentPaysOnce' /\ CapHolds'
    BY <1>1, <1>4, CardsOnly
  <1>6. /\ job' = [job EXCEPT ![w] = job'[w]] /\ job'[w].answer = job[w].answer
        /\ job'[w].req = job[w].req /\ job'[w].pc = "mark"
    BY <1>1, JobAfter
  <1>7. Facts(w)' /\ ~At(w, "settle", "commit")'
    BY <1>1, <1>3, <1>6 DEF Facts, CardFact, OrderFact, PurchaseFact, SettleFact, AnswerFact,
                            At, Asks, SameGift
  <1> QED BY <1>4, <1>5, <1>6, <1>7, FStep

LEMMA MarkDeliveredF ==
    ASSUME IInv, IInv', FInv, NEW w \in Workers \cup Sweepers, markDelivered(w)
    PROVE  FInv'
  <1> DEFINE k == job[w].req.key
  <1>1. /\ Facts(w) /\ (Asks(w, "gift") \/ Asks(w, "card"))
        /\ gifts[k] # None /\ card[k].sent = 1 /\ Finish(w)
        /\ card' = [card EXCEPT ![k].delivered = TRUE]
        /\ UNCHANGED <<wallet, ledger, gifts, circle, purchases, orders, referral>>
        /\ card \in [Keys -> CardRow]
    BY DEF markDelivered, FInv, AllFacts, Facts, CardFact, Asks, IInv, TypeOK
  <1>2. k \in Keys
    BY <1>1, ReqFields
  <1>3. card'[k].sent = 1 /\ \A x \in Keys \ {k} : card'[x] = card[x]
    BY <1>1, <1>2 DEF CardRow
  <1>4. OneCard' /\ \A x \in Keys : card[x].sent = 1 => card'[x].sent = 1
    BY <1>1, <1>2, <1>3, OneCardWritten
  <1>5. Onward(w) /\ AllEntered' /\ PaymentPaysOnce' /\ CapHolds'
    BY <1>1, <1>4, CardsOnly
  <1>6. /\ job' = [job EXCEPT ![w] = job'[w]]
        /\ job'[w].req = None /\ job'[w].pc = "idle"
    BY <1>1, JobAfter
  <1>7. Facts(w)' /\ ~At(w, "settle", "commit")'
    BY <1>6, DoneFacts DEF AnswerFact, Asks
  <1> QED BY <1>4, <1>5, <1>6, <1>7, FStep

-----------------------------------------------------------------------------
(* What is added to the ledger.                                              *)

Longer(L, M) == Len(L) <= Len(M) /\ \A i \in 1 .. Len(L) : M[i] = L[i]

\* No new row is about it.
LEMMA StillEntered ==
    ASSUME NEW L \in Seq(Row), NEW M \in Seq(Row), Longer(L, M), NEW t, NEW r,
           \A i \in Len(L) + 1 .. Len(M) : ~(M[i].type = t /\ M[i].related = r),
           NEW fact, NEW u, NEW a, Entered(L, t, r, fact, u, a)
    PROVE  Entered(M, t, r, fact, u, a)
  <1>1. /\ Len(L) \in Nat /\ Len(M) \in Nat
        /\ DOMAIN L = 1 .. Len(L) /\ DOMAIN M = 1 .. Len(M)
    OBVIOUS
  <1>2. RowsIn(M, t, r) = RowsIn(L, t, r)
    BY <1>1 DEF RowsIn, Longer
  <1> QED BY <1>1, <1>2 DEF Entered, Longer

\* One new row is.
LEMMA NowEntered ==
    ASSUME NEW L \in Seq(Row), NEW M \in Seq(Row), Longer(L, M), NEW t, NEW r,
           NEW n \in Len(L) + 1 .. Len(M), NEW u, NEW a,
           M[n].type = t, M[n].related = r, M[n].user = u, M[n].amount = a,
           \A i \in Len(L) + 1 .. Len(M) : i # n => ~(M[i].type = t /\ M[i].related = r),
           RowsIn(L, t, r) = {}
    PROVE  Entered(M, t, r, TRUE, u, a)
  <1>1. /\ Len(L) \in Nat /\ Len(M) \in Nat
        /\ DOMAIN L = 1 .. Len(L) /\ DOMAIN M = 1 .. Len(M)
    OBVIOUS
  <1>2. RowsIn(M, t, r) = {n}
    BY <1>1 DEF RowsIn, Longer
  <1> QED BY <1>1, <1>2 DEF Entered

\* The new rows are of other kinds.
LEMMA OtherKinds ==
    ASSUME IInv, IInv', FInv, Grown, NEW T,
           \A i \in Len(ledger) + 1 .. Len(ledger') : ledger'[i].type \in T
    PROVE  /\ gifts' = gifts /\ T \cap {"GIFT_SENT", "GIFT_RECEIVED"} = {} => GiftsEntered'
           /\ purchases' = purchases /\ "PURCHASE" \notin T => PurchasesEntered'
           /\ orders' = orders /\ "RECHARGE" \notin T => RechargesEntered'
           /\ referral' = referral /\ T \cap {"REFERRAL_REWARD", "REFERRAL_BONUS"} = {}
                 => RewardsEntered'
  <1>1. ledger \in Seq(Row) /\ ledger' \in Seq(Row) /\ Longer(ledger, ledger')
    BY DEF IInv, TypeOK, Grown, Longer
  <1>2. ASSUME NEW t, t \notin T, NEW r, NEW fact, NEW u, NEW a,
               Entered(ledger, t, r, fact, u, a)
        PROVE  Entered(ledger', t, r, fact, u, a)
    BY <1>1, <1>2, StillEntered
  <1>3. AllEntered
    BY DEF FInv
  <1>4. ASSUME gifts' = gifts, T \cap {"GIFT_SENT", "GIFT_RECEIVED"} = {} PROVE GiftsEntered'
    <2>1. "GIFT_SENT" \notin T /\ "GIFT_RECEIVED" \notin T
      BY <1>4
    <2> QED BY <1>2, <1>3, <1>4, <2>1 DEF AllEntered, GiftsEntered
  <1>5. ASSUME purchases' = purchases, "PURCHASE" \notin T PROVE PurchasesEntered'
    BY <1>2, <1>3, <1>5 DEF AllEntered, PurchasesEntered
  <1>6. ASSUME orders' = orders, "RECHARGE" \notin T PROVE RechargesEntered'
    BY <1>2, <1>3, <1>6 DEF AllEntered, RechargesEntered
  <1>7. ASSUME referral' = referral, T \cap {"REFERRAL_REWARD", "REFERRAL_BONUS"} = {}
        PROVE  RewardsEntered'
    <2>1. "REFERRAL_REWARD" \notin T /\ "REFERRAL_BONUS" \notin T
      BY <1>7
    <2> QED BY <1>2, <1>3, <1>7, <2>1 DEF AllEntered, RewardsEntered
  <1> QED BY <1>4, <1>5, <1>6, <1>7

-----------------------------------------------------------------------------
(* Steps of no worker.                                                       *)

LEMMA WorldF ==
    ASSUME IInv, IInv', FInv, UNCHANGED <<job, referral>>,
           \A w \in Workers \cup Sweepers : Onward(w),
           AllEntered', PaymentPaysOnce', OneCard', CapHolds'
    PROVE  FInv'
  <1>1. AllFacts'
    <2>1. ASSUME NEW v \in Workers \cup Sweepers PROVE Facts(v)'
      BY FactsKept
    <2> QED BY <2>1 DEF AllFacts
  <1>2. OneSettlement'
    BY DEF OneSettlement, FInv, At, Asks
  <1> QED BY <1>1, <1>2 DEF FInv

\* An order is written that is not, and was not, being paid out.
LEMMA OrdersOnly ==
    ASSUME IInv, FInv, NEW w, NEW o \in Orders,
           UNCHANGED <<wallet, ledger, gifts, card, circle, purchases, referral>>,
           \A p \in Orders \ {o} : orders'[p] = orders[p],
           orders[o].status \notin {"PROCESSING", "APPROVED"},
           orders'[o].status # "APPROVED"
    PROVE  Onward(w) /\ AllEntered' /\ OneCard' /\ CapHolds'
  <1>1. Onward(w)
    BY DEF Onward, Grown, Rewarded, IInv, TypeOK
  <1>2. RechargesEntered'
    BY DEF FInv, AllEntered, RechargesEntered, Entered, RowsIn
  <1>3. AllEntered'
    BY <1>2 DEF FInv, AllEntered, GiftsEntered, PurchasesEntered, RewardsEntered,
                Entered, RowsIn
  <1>4. OneCard' /\ CapHolds'
    BY DEF FInv, OneCard, CapHolds, Rewarded
  <1> QED BY <1>1, <1>3, <1>4

LEMMA WorldFSteps ==
    ASSUME IInv, IInv', FInv,
           \/ \E k \in Keys : GracePasses(k)
           \/ \E o \in Orders : rejectOrder(o)
           \/ Midnight
           \/ UNCHANGED vars
    PROVE  FInv'
  <1>1. ASSUME NEW k \in Keys, GracePasses(k) PROVE FInv'
    <2>1. /\ card'[k].sent = card[k].sent /\ card'[k].delivered = card[k].delivered
          /\ \A x \in Keys \ {k} : card'[x] = card[x]
          /\ UNCHANGED <<wallet, ledger, gifts, circle, purchases, orders, referral, job>>
      BY <1>1 DEF GracePasses, CardRow, IInv, TypeOK
    <2>2. card[k].sent <= 1 /\ (card[k].delivered => card[k].sent = 1) /\ gifts[k] # None
      BY <1>1 DEF FInv, OneCard, GracePasses
    <2>3. OneCard' /\ \A x \in Keys : card[x].sent = 1 => card'[x].sent = 1
      BY <2>1, <2>2, OneCardWritten
    <2>4. \A w \in Workers \cup Sweepers : Onward(w)
      BY <2>1, <2>3, CardsOnly
    <2>5. AllEntered' /\ PaymentPaysOnce' /\ CapHolds'
      BY <2>1, <2>3, CardsOnly
    <2> QED BY <2>1, <2>3, <2>4, <2>5, WorldF
  <1>2. ASSUME NEW o \in Orders, rejectOrder(o) PROVE FInv'
    <2>1. /\ \A p \in Orders \ {o} : orders'[p] = orders[p]
          /\ orders[o].status = "WAITING_REVIEW" /\ orders'[o].status = "REJECTED"
          /\ orders'[o].payment = orders[o].payment
          /\ UNCHANGED <<wallet, ledger, gifts, card, circle, purchases, referral, job>>
      BY <1>2 DEF rejectOrder, IInv, TypeOK, OrderRow
    <2>2. \A w \in Workers \cup Sweepers : Onward(w)
      BY <2>1, OrdersOnly
    <2>3. AllEntered' /\ OneCard' /\ CapHolds'
      BY <2>1, OrdersOnly
    <2>4. PaymentPaysOnce'
      <3>1. \A p \in Orders : orders'[p].payment = orders[p].payment
        BY <2>1
      <3> QED BY <3>1 DEF PaymentPaysOnce, FInv
    <2> QED BY <2>1, <2>2, <2>3, <2>4, WorldF
  <1>3. CASE Midnight \/ UNCHANGED vars
    <2>1. UNCHANGED data /\ UNCHANGED <<job, referral>>
      BY <1>3 DEF Midnight, vars, data
    <2>2. \A w \in Workers \cup Sweepers : Onward(w)
      BY <2>1, SameData
    <2>3. AllEntered' /\ PaymentPaysOnce' /\ OneCard' /\ CapHolds'
      BY <2>1, SameData
    <2> QED BY <2>1, <2>2, <2>3, WorldF
  <1> QED BY <1>1, <1>2, <1>3

-----------------------------------------------------------------------------
(* The actions that write orders, and that move coins.                       *)

LEMMA ClaimApprovalF ==
    ASSUME IInv, IInv', FInv, NEW w \in Workers \cup Sweepers, claimApproval(w) PROVE FInv'
  <1> DEFINE q == job[w].req
             o == q.order
  <1>1. /\ Asks(w, "approve") /\ q.op = "approve" /\ Facts(w) /\ o \in Orders
        /\ q.payment \in Payments
        /\ UNCHANGED <<wallet, ledger, gifts, card, circle, purchases, referral>>
    BY ReqFields DEF claimApproval, At, Asks, FInv, AllFacts
  <1>2. CASE /\ UNCHANGED orders
             /\ \/ Answer(w, q, "stateConflict") \/ Answer(w, q, "conflict")
                \/ Answer(w, q, "paymentDuplicate")
    BY <1>1, <1>2, RefusedF DEF data
  <1>3. CASE /\ UNCHANGED orders /\ Answer(w, q, "ok")
             /\ orders[o].status = "APPROVED" /\ assertSameApproval(o, q)
    <2>1. /\ job' = [job EXCEPT ![w] = job'[w]]
          /\ job'[w].req = q /\ job'[w].pc = "answered" /\ job'[w].answer = "ok"
      BY <1>3, JobAfter
    <2>2. AnswerFact(w)' /\ ~Asks(w, "card")' /\ ~Asks(w, "settle")'
      BY <1>1, <1>3, <2>1 DEF AnswerFact, Asks, assertSameApproval
    <2> QED BY <1>1, <1>3, <2>1, <2>2, DoneFacts, QuietF DEF data
  <1>4. CASE /\ UNCHANGED orders /\ Goto(w, "fulfil")
             /\ orders[o].status = "PROCESSING" /\ assertSameApproval(o, q)
    <2>1. /\ job' = [job EXCEPT ![w] = job'[w]] /\ job'[w].answer = job[w].answer
          /\ job'[w].req = q /\ job'[w].pc = "fulfil"
      BY <1>4, JobAfter
    <2>2. Facts(w)' /\ ~At(w, "settle", "commit")'
      BY <1>1, <1>4, <2>1 DEF Facts, CardFact, OrderFact, PurchaseFact, SettleFact,
                              AnswerFact, At, Asks, assertSameApproval
    <2> QED BY <1>1, <1>4, <2>1, <2>2, QuietF DEF data
  <1>5. CASE /\ orders[o].status = "WAITING_REVIEW" /\ ~DuplicatePayment(q)
             /\ orders' = [orders EXCEPT ![o] = [status |-> "PROCESSING",
                                                 payment |-> q.payment,
                                                 amount |-> q.amount]]
             /\ Goto(w, "fulfil")
    <2>1. /\ job' = [job EXCEPT ![w] = job'[w]] /\ job'[w].answer = job[w].answer
          /\ job'[w].req = q /\ job'[w].pc = "fulfil"
      BY <1>5, JobAfter
    <2>2. /\ orders'[o].status = "PROCESSING" /\ orders'[o].payment = q.payment
          /\ orders'[o].amount = q.amount /\ \A p \in Orders \ {o} : orders'[p] = orders[p]
      BY <1>1, <1>5 DEF IInv, TypeOK
    <2>3. Onward(w) /\ AllEntered' /\ OneCard' /\ CapHolds'
      BY <1>1, <1>5, <2>2, OrdersOnly
    <2>4. PaymentPaysOnce'
      <3>1. PaymentPaysOnce
        BY DEF FInv
      <3>2. \A p \in Orders \ {o} : orders[p].payment # q.payment
        BY <1>5 DEF DuplicatePayment
      <3> QED BY <2>2, <3>1, <3>2 DEF PaymentPaysOnce
    <2>5. AnswerFact(w)'
      <3>1. ~(Asks(w, "approve") /\ job[w].answer = "ok")
        BY <1>1, <1>5 DEF Facts, AnswerFact
      <3> QED BY <1>1, <2>1, <3>1 DEF AnswerFact, Asks
    <2>6. Facts(w)' /\ ~At(w, "settle", "commit")'
      BY <1>1, <2>1, <2>2, <2>5 DEF Facts, CardFact, OrderFact, PurchaseFact, SettleFact,
                                    At, Asks, assertSameApproval
    <2> QED BY <2>1, <2>3, <2>4, <2>6, FStep
  <1> QED BY <1>2, <1>3, <1>4, <1>5 DEF claimApproval

LEMMA FulfillCoinsF ==
    ASSUME IInv, IInv', FInv, NEW w \in Workers \cup Sweepers, fulfillCoins(w) PROVE FInv'
  <1> DEFINE q == job[w].req
             o == q.order
             n == Len(ledger) + 1
  <1>1. /\ Asks(w, "approve") /\ q.op = "approve" /\ Facts(w) /\ o \in Orders
        /\ orders[o].status \in {"PROCESSING", "APPROVED"} /\ assertSameApproval(o, q)
        /\ UNCHANGED <<gifts, card, circle, purchases, referral>>
        /\ ledger \in Seq(Row) /\ ledger' \in Seq(Row) /\ orders \in [Orders -> OrderRow]
    BY ReqFields DEF fulfillCoins, At, Asks, FInv, AllFacts, Facts, OrderFact, IInv, TypeOK
  <1>2. /\ job' = [job EXCEPT ![w] = job'[w]]
        /\ job'[w].req = q /\ job'[w].pc = "answered" /\ job'[w].answer = "ok"
    BY JobAfter DEF fulfillCoins
  <1>3. CASE orders[o].status = "APPROVED"
    <2>1. UNCHANGED data
      BY <1>1, <1>3 DEF fulfillCoins, data
    <2>2. AnswerFact(w)' /\ ~Asks(w, "card")' /\ ~Asks(w, "settle")'
      BY <1>1, <1>2, <1>3, <2>1 DEF AnswerFact, Asks, assertSameApproval, data
    <2> QED BY <1>2, <2>1, <2>2, DoneFacts, QuietF
  <1>4. CASE orders[o].status # "APPROVED"
    <2>1. RowsIn(ledger, "RECHARGE", o) = {}
      BY <1>1, <1>4 DEF FInv, AllEntered, RechargesEntered, Entered
    <2>2. creditInTransaction(OrderOf[o], "RECHARGE", q.amount, o, today)
          /\ orders' = [orders EXCEPT ![o].status = "APPROVED"]
      BY <1>4, <2>1 DEF fulfillCoins, Recharged, RowsIn
    <2>3. /\ Len(ledger) \in Nat /\ Len(ledger') = n
          /\ \A i \in 1 .. Len(ledger) : ledger'[i] = ledger[i]
          /\ ledger'[n].type = "RECHARGE" /\ ledger'[n].related = o
          /\ ledger'[n].user = OrderOf[o] /\ ledger'[n].amount = q.amount
      BY <1>1, <2>2 DEF creditInTransaction, Entry
    <2>4. /\ orders'[o].status = "APPROVED" /\ orders'[o].payment = orders[o].payment
          /\ orders'[o].amount = orders[o].amount /\ orders[o].amount = q.amount
          /\ \A p \in Orders \ {o} : orders'[p] = orders[p]
      BY <1>1, <2>2 DEF OrderRow, assertSameApproval
    <2> HIDE DEF n
    <2>5. Grown /\ Longer(ledger, ledger') /\ n \in Len(ledger) + 1 .. Len(ledger')
          /\ \A i \in Len(ledger) + 1 .. Len(ledger') : i = n
      BY <2>3 DEF Grown, Longer, n
    <2>6. GiftsEntered' /\ PurchasesEntered' /\ RewardsEntered'
      <3> DEFINE T == {"RECHARGE"}
      <3>1. \A i \in Len(ledger) + 1 .. Len(ledger') : ledger'[i].type \in T
        BY <2>3, <2>5
      <3>2. /\ "PURCHASE" \notin T /\ T \cap {"GIFT_SENT", "GIFT_RECEIVED"} = {}
            /\ T \cap {"REFERRAL_REWARD", "REFERRAL_BONUS"} = {}
        OBVIOUS
      <3> HIDE DEF T
      <3> QED BY <1>1, <2>5, <3>1, <3>2, OtherKinds
    <2>7. RechargesEntered'
      <3>1. ASSUME NEW p \in Orders, p # o
            PROVE  Entered(ledger', "RECHARGE", p, orders'[p].status = "APPROVED", OrderOf[p],
                           orders'[p].amount)
        <4>1. Entered(ledger, "RECHARGE", p, orders'[p].status = "APPROVED", OrderOf[p],
                      orders'[p].amount)
          BY <2>4, <3>1 DEF FInv, AllEntered, RechargesEntered
        <4> QED BY <1>1, <2>3, <2>5, <3>1, <4>1, StillEntered
      <3>2. Entered(ledger', "RECHARGE", o, TRUE, OrderOf[o], q.amount)
        BY <1>1, <2>1, <2>3, <2>5, NowEntered
      <3> QED BY <2>4, <3>1, <3>2 DEF RechargesEntered, Entered
    <2>8. PaymentPaysOnce' /\ OneCard' /\ CapHolds'
      <3>1. \A p \in Orders : orders'[p].payment = orders[p].payment
        BY <2>4
      <3> QED BY <1>1, <3>1 DEF FInv, PaymentPaysOnce, OneCard, CapHolds, Rewarded
    <2>9. Onward(w)
      BY <1>1, <2>4, <2>5 DEF Onward, Rewarded
    <2>10. AnswerFact(w)' /\ ~Asks(w, "card")' /\ ~Asks(w, "settle")'
      BY <1>1, <1>2, <2>4 DEF AnswerFact, Asks, assertSameApproval
    <2>11. Facts(w)' /\ ~At(w, "settle", "commit")'
      BY <1>2, <2>10, DoneFacts
    <2> QED BY <1>2, <2>6, <2>7, <2>8, <2>9, <2>11, FStep DEF AllEntered
  <1> QED BY <1>3, <1>4

LEMMA CommitPurchaseF ==
    ASSUME IInv, IInv', FInv, NEW w \in Workers \cup Sweepers, commitPurchase(w)
    PROVE  FInv'
  <1> DEFINE q == job[w].req
             k == q.key
             n == Len(ledger) + 1
  <1>1. /\ Asks(w, "expand") /\ q.op = "expand" /\ k \in Keys /\ q.product \in Products
        /\ q.product # None /\ purchases[k] = None
        /\ UNCHANGED <<gifts, card, orders, referral>>
        /\ ledger \in Seq(Row) /\ ledger' \in Seq(Row)
        /\ purchases \in [Keys -> Products \cup {None}]
    BY ReqFields, NoneAssumption
       DEF commitPurchase, At, Asks, FInv, AllFacts, Facts, PurchaseFact, IInv, TypeOK
  <1>2. /\ job' = [job EXCEPT ![w] = job'[w]]
        /\ job'[w].req = q /\ job'[w].pc = "answered" /\ job'[w].answer = "ok"
    BY JobAfter DEF commitPurchase
  <1>3. purchases'[k] = q.product /\ \A x \in Keys \ {k} : purchases'[x] = purchases[x]
    BY <1>1 DEF commitPurchase
  <1>4. RowsIn(ledger, "PURCHASE", k) = {}
    BY <1>1 DEF FInv, AllEntered, PurchasesEntered, Entered
  <1>5. ledger' = Append(ledger, Entry(Owner, "PURCHASE", -q.product.price, k, today))
    BY DEF commitPurchase
  <1>6. /\ Len(ledger) \in Nat /\ Len(ledger') = n
        /\ \A i \in 1 .. Len(ledger) : ledger'[i] = ledger[i]
        /\ ledger'[n].type = "PURCHASE" /\ ledger'[n].related = k
        /\ ledger'[n].user = Owner /\ ledger'[n].amount = -q.product.price
    BY <1>1, <1>5 DEF Entry
  <1> HIDE DEF n
  <1>7. Grown /\ Longer(ledger, ledger') /\ n \in Len(ledger) + 1 .. Len(ledger')
        /\ \A i \in Len(ledger) + 1 .. Len(ledger') : i = n
    BY <1>6 DEF Grown, Longer, n
  <1>8. GiftsEntered' /\ RechargesEntered' /\ RewardsEntered'
    <2> DEFINE T == {"PURCHASE"}
    <2>1. \A i \in Len(ledger) + 1 .. Len(ledger') : ledger'[i].type \in T
      BY <1>6, <1>7
    <2>2. /\ "RECHARGE" \notin T /\ T \cap {"GIFT_SENT", "GIFT_RECEIVED"} = {}
          /\ T \cap {"REFERRAL_REWARD", "REFERRAL_BONUS"} = {}
      OBVIOUS
    <2> HIDE DEF T
    <2> QED BY <1>1, <1>7, <2>1, <2>2, OtherKinds
  <1>9. PurchasesEntered'
    <2>1. ASSUME NEW x \in Keys, x # k
          PROVE  Entered(ledger', "PURCHASE", x, purchases'[x] # None, Owner,
                         -purchases'[x].price)
      <3>1. Entered(ledger, "PURCHASE", x, purchases'[x] # None, Owner, -purchases'[x].price)
        BY <1>3, <2>1 DEF FInv, AllEntered, PurchasesEntered
      <3> QED BY <1>1, <1>6, <1>7, <2>1, <3>1, StillEntered
    <2>2. Entered(ledger', "PURCHASE", k, TRUE, Owner, -q.product.price)
      BY <1>1, <1>4, <1>6, <1>7, NowEntered
    <2> QED BY <1>1, <1>3, <2>1, <2>2 DEF PurchasesEntered, Entered
  <1>10. PaymentPaysOnce' /\ OneCard' /\ CapHolds'
    BY <1>1 DEF FInv, PaymentPaysOnce, OneCard, CapHolds, Rewarded
  <1>11. Onward(w)
    <2>1. Written(Owner)
      BY <1>6, <1>7 DEF Written
    <2> QED BY <1>1, <1>3, <1>7, <2>1 DEF Onward, Rewarded
  <1>12. AnswerFact(w)' /\ ~Asks(w, "card")' /\ ~Asks(w, "settle")'
    BY <1>1, <1>2, <1>3 DEF AnswerFact, Asks
  <1>13. Facts(w)' /\ ~At(w, "settle", "commit")'
    BY <1>2, <1>12, DoneFacts
  <1> QED BY <1>2, <1>8, <1>9, <1>10, <1>11, <1>13, FStep DEF AllEntered

LEMMA CommitGiftF ==
    ASSUME IInv, IInv', FInv, NEW w \in Workers \cup Sweepers, commitGift(w)
    PROVE  FInv'
  <1> DEFINE q == job[w].req
             k == q.key
             g == [sender |-> q.user, recipient |-> q.peer, amount |-> q.amount]
             n == Len(ledger) + 1
  <1>1. /\ Asks(w, "gift") /\ q.op = "gift" /\ k \in Keys /\ gifts[k] = None
        /\ q.user \in Users /\ q.peer \in Users /\ q.amount \in Amounts
        /\ UNCHANGED <<card, circle, purchases, orders, referral>>
        /\ ledger \in Seq(Row) /\ ledger' \in Seq(Row)
        /\ gifts \in [Keys -> GiftRow \cup {None}] /\ job \in [Workers \cup Sweepers -> Job]
    BY ReqFields DEF commitGift, At, Asks, IInv, TypeOK
  <1>2. g # None /\ SameGift(g, q)
    BY <1>1, NoneAssumption DEF SameGift
  <1>3. gifts'[k] = g /\ \A x \in Keys \ {k} : gifts'[x] = gifts[x]
    BY <1>1 DEF commitGift
  <1>4. RowsIn(ledger, "GIFT_SENT", k) = {} /\ RowsIn(ledger, "GIFT_RECEIVED", k) = {}
    BY <1>1 DEF FInv, AllEntered, GiftsEntered, Entered
  <1>5. PICK d \in job[w].day .. today :
           ledger' = ledger \o <<Entry(q.user, "GIFT_SENT", -q.amount, k, d),
                                 Entry(q.peer, "GIFT_RECEIVED", q.amount, k, d)>>
    BY DEF commitGift
  <1>6. /\ Len(ledger) \in Nat /\ Len(ledger') = n + 1
        /\ \A i \in 1 .. Len(ledger) : ledger'[i] = ledger[i]
        /\ ledger'[n].type = "GIFT_SENT" /\ ledger'[n].related = k
        /\ ledger'[n].user = q.user /\ ledger'[n].amount = -q.amount
        /\ ledger'[n + 1].type = "GIFT_RECEIVED" /\ ledger'[n + 1].related = k
        /\ ledger'[n + 1].user = q.peer /\ ledger'[n + 1].amount = q.amount
    <2> DEFINE a == Entry(q.user, "GIFT_SENT", -q.amount, k, d)
               b == Entry(q.peer, "GIFT_RECEIVED", q.amount, k, d)
    <2>1. /\ a.type = "GIFT_SENT" /\ a.related = k /\ a.user = q.user /\ a.amount = -q.amount
          /\ b.type = "GIFT_RECEIVED" /\ b.related = k /\ b.user = q.peer
          /\ b.amount = q.amount
      BY DEF Entry
    <2>2. ledger' = ledger \o <<a, b>>
      BY <1>5
    <2> HIDE DEF a, b
    <2>3. /\ Len(ledger) \in Nat /\ Len(ledger') = n + 1
          /\ \A i \in 1 .. Len(ledger) : ledger'[i] = ledger[i]
          /\ ledger'[n] = a /\ ledger'[n + 1] = b
      BY <1>1, <2>2
    <2> HIDE DEF n
    <2> QED BY <2>1, <2>3
  <1>7. /\ Grown /\ Longer(ledger, ledger')
        /\ n \in Len(ledger) + 1 .. Len(ledger') /\ n + 1 \in Len(ledger) + 1 .. Len(ledger')
        /\ n # n + 1 /\ \A i \in Len(ledger) + 1 .. Len(ledger') : i = n \/ i = n + 1
    BY <1>6 DEF Grown, Longer
  <1> HIDE DEF n, g
  <1>8. PurchasesEntered' /\ RechargesEntered' /\ RewardsEntered'
    <2> DEFINE T == {"GIFT_SENT", "GIFT_RECEIVED"}
    <2>1. \A i \in Len(ledger) + 1 .. Len(ledger') : ledger'[i].type \in T
      BY <1>6, <1>7
    <2>2. /\ "RECHARGE" \notin T /\ "PURCHASE" \notin T
          /\ T \cap {"REFERRAL_REWARD", "REFERRAL_BONUS"} = {}
      OBVIOUS
    <2> HIDE DEF T
    <2> QED BY <1>1, <1>7, <2>1, <2>2, OtherKinds
  <1>9. GiftsEntered'
    <2>1. ASSUME NEW x \in Keys, x # k, NEW t, NEW u, NEW a,
                 Entered(ledger, t, x, gifts'[x] # None, u, a)
          PROVE  Entered(ledger', t, x, gifts'[x] # None, u, a)
      BY <1>1, <1>6, <1>7, <2>1, StillEntered
    <2>2. ASSUME NEW x \in Keys, x # k
          PROVE  /\ Entered(ledger', "GIFT_SENT", x, gifts'[x] # None, gifts'[x].sender,
                            -gifts'[x].amount)
                 /\ Entered(ledger', "GIFT_RECEIVED", x, gifts'[x] # None,
                            gifts'[x].recipient, gifts'[x].amount)
      BY <1>3, <2>1, <2>2 DEF FInv, AllEntered, GiftsEntered
    <2>3. Entered(ledger', "GIFT_SENT", k, TRUE, q.user, -q.amount)
      <3>1. \A i \in Len(ledger) + 1 .. Len(ledger') :
               i # n => ~(ledger'[i].type = "GIFT_SENT" /\ ledger'[i].related = k)
        BY <1>6, <1>7
      <3> QED BY <1>1, <1>4, <1>6, <1>7, <3>1, NowEntered
    <2>4. Entered(ledger', "GIFT_RECEIVED", k, TRUE, q.peer, q.amount)
      <3>1. \A i \in Len(ledger) + 1 .. Len(ledger') :
               i # n + 1 => ~(ledger'[i].type = "GIFT_RECEIVED" /\ ledger'[i].related = k)
        BY <1>6, <1>7
      <3> QED BY <1>1, <1>4, <1>6, <1>7, <3>1, NowEntered
    <2>5. /\ gifts'[k] # None /\ gifts'[k].sender = q.user /\ gifts'[k].recipient = q.peer
          /\ gifts'[k].amount = q.amount
      BY <1>2, <1>3 DEF g
    <2> QED BY <2>2, <2>3, <2>4, <2>5 DEF GiftsEntered, Entered
  <1>10. PaymentPaysOnce' /\ OneCard' /\ CapHolds'
    <2>1. \A x \in Keys : gifts[x] # None => gifts'[x] # None
      BY <1>1, <1>3
    <2> QED BY <1>1, <2>1 DEF FInv, PaymentPaysOnce, OneCard, CapHolds, Rewarded
  <1>11. Onward(w)
    BY <1>1, <1>3, <1>7 DEF Onward, Rewarded
  <1>12. /\ job' = [job EXCEPT ![w] = job'[w]]
         /\ job'[w].req = q /\ job'[w].pc = "card" /\ job'[w].answer = "ok"
    <2> DEFINE j == [Idle EXCEPT !.req = q, !.pc = "card", !.answer = "ok"]
    <2>1. j.req = q /\ j.pc = "card" /\ j.answer = "ok" /\ job' = [job EXCEPT ![w] = j]
      BY DEF commitGift, Idle
    <2> HIDE DEF j
    <2> QED BY <1>1, <2>1
  <1>13. Facts(w)' /\ ~At(w, "settle", "commit")'
    BY <1>1, <1>2, <1>3, <1>12 DEF Facts, CardFact, OrderFact, PurchaseFact, SettleFact,
                                   AnswerFact, At, Asks
  <1> QED BY <1>8, <1>9, <1>10, <1>11, <1>12, <1>13, FStep DEF AllEntered

\* A referral that is settled without a reward.
LEMMA SettlementRefusedF ==
    ASSUME IInv, IInv', FInv, NEW w \in Workers \cup Sweepers, commitSettlement(w),
           job[w].verdict # "REWARDED"
    PROVE  FInv'
  <1> DEFINE r == job[w].req.referral
  <1>1. /\ At(w, "settle", "commit") /\ r \in Referrals /\ referral[r] = "PENDING"
        /\ UNCHANGED <<wallet, ledger, gifts, card, circle, purchases, orders>>
        /\ referral' = [referral EXCEPT ![r] = job[w].verdict] /\ Finish(w)
        /\ referral \in [Referrals -> {"PENDING"} \cup Verdicts]
    BY ReqFields DEF commitSettlement, At, FInv, AllFacts, Facts, SettleFact, IInv, TypeOK
  <1>2. /\ referral'[r] # "REWARDED" /\ referral[r] # "REWARDED"
        /\ \A x \in Referrals \ {r} : referral'[x] = referral[x]
    BY <1>1
  <1>3. \A u \in Users : Rewarded(u)' = Rewarded(u)
    BY <1>2 DEF Rewarded
  <1>4. Onward(w)
    BY <1>1, <1>2, <1>3 DEF Onward, Grown, IInv, TypeOK
  <1>5. RewardsEntered'
    BY <1>1, <1>2 DEF FInv, AllEntered, RewardsEntered, Entered, RowsIn
  <1>6. AllEntered'
    BY <1>1, <1>5 DEF FInv, AllEntered, GiftsEntered, PurchasesEntered, RechargesEntered,
                      Entered, RowsIn
  <1>7. PaymentPaysOnce' /\ OneCard' /\ CapHolds'
    BY <1>1, <1>3 DEF FInv, PaymentPaysOnce, OneCard, CapHolds
  <1>8. /\ job' = [job EXCEPT ![w] = job'[w]]
        /\ job'[w].req = None /\ job'[w].pc = "idle"
    BY <1>1, JobAfter
  <1>9. Facts(w)' /\ ~At(w, "settle", "commit")'
    BY <1>8, DoneFacts DEF AnswerFact, Asks
  <1> QED BY <1>4, <1>6, <1>7, <1>8, <1>9, FStep

\* A reward is booked for the inviter and the invitee.
LEMMA SettlementRewardedF ==
    ASSUME IInv, IInv', FInv, NEW w \in Workers \cup Sweepers, commitSettlement(w),
           job[w].verdict = "REWARDED"
    PROVE  FInv'
  <1> DEFINE r == job[w].req.referral
             n == Len(ledger) + 1
  <1>1. /\ At(w, "settle", "commit") /\ r \in Referrals /\ referral[r] = "PENDING"
        /\ UNCHANGED <<gifts, card, circle, purchases, orders>>
        /\ referral' = [referral EXCEPT ![r] = "REWARDED"] /\ Finish(w)
        /\ Cardinality(Rewarded(r.inviter)) < MonthlyCap
        /\ ledger \in Seq(Row) /\ ledger' \in Seq(Row)
        /\ referral \in [Referrals -> {"PENDING"} \cup Verdicts]
    BY ReqFields DEF commitSettlement, At, FInv, AllFacts, Facts, SettleFact, IInv, TypeOK
  <1>2. PICK v \in Users : v = r.inviter
    BY <1>1, ReferralsAssumption
  <1>3. referral'[r] = "REWARDED" /\ \A x \in Referrals \ {r} : referral'[x] = referral[x]
    BY <1>1
  <1>4. RowsIn(ledger, "REFERRAL_REWARD", r) = {} /\ RowsIn(ledger, "REFERRAL_BONUS", r) = {}
    BY <1>1 DEF FInv, AllEntered, RewardsEntered, Entered
  <1>5. ledger' = ledger \o <<Entry(r.inviter, "REFERRAL_REWARD", Reward, r, today),
                              Entry(r.invitee, "REFERRAL_BONUS", Reward, r, today)>>
    BY DEF commitSettlement
  <1>6. /\ Len(ledger) \in Nat /\ Len(ledger') = n + 1
        /\ \A i \in 1 .. Len(ledger) : ledger'[i] = ledger[i]
        /\ ledger'[n].type = "REFERRAL_REWARD" /\ ledger'[n].related = r
        /\ ledger'[n].user = r.inviter /\ ledger'[n].amount = Reward
        /\ ledger'[n + 1].type = "REFERRAL_BONUS" /\ ledger'[n + 1].related = r
        /\ ledger'[n + 1].user = r.invitee /\ ledger'[n + 1].amount = Reward
    <2> DEFINE a == Entry(r.inviter, "REFERRAL_REWARD", Reward, r, today)
               b == Entry(r.invitee, "REFERRAL_BONUS", Reward, r, today)
    <2>1. /\ a.type = "REFERRAL_REWARD" /\ a.related = r /\ a.user = r.inviter
          /\ a.amount = Reward
          /\ b.type = "REFERRAL_BONUS" /\ b.related = r /\ b.user = r.invitee
          /\ b.amount = Reward
      BY DEF Entry
    <2>2. ledger' = ledger \o <<a, b>>
      BY <1>5
    <2> HIDE DEF a, b
    <2>3. /\ Len(ledger) \in Nat /\ Len(ledger') = n + 1
          /\ \A i \in 1 .. Len(ledger) : ledger'[i] = ledger[i]
          /\ ledger'[n] = a /\ ledger'[n + 1] = b
      BY <1>1, <2>2
    <2> HIDE DEF n
    <2> QED BY <2>1, <2>3
  <1>7. /\ Grown /\ Longer(ledger, ledger')
        /\ n \in Len(ledger) + 1 .. Len(ledger') /\ n + 1 \in Len(ledger) + 1 .. Len(ledger')
        /\ n # n + 1 /\ \A i \in Len(ledger) + 1 .. Len(ledger') : i = n \/ i = n + 1
    BY <1>6 DEF Grown, Longer
  <1> HIDE DEF n
  <1>8. GiftsEntered' /\ PurchasesEntered' /\ RechargesEntered'
    <2> DEFINE T == {"REFERRAL_REWARD", "REFERRAL_BONUS"}
    <2>1. \A i \in Len(ledger) + 1 .. Len(ledger') : ledger'[i].type \in T
      BY <1>6, <1>7
    <2>2. /\ "RECHARGE" \notin T /\ "PURCHASE" \notin T
          /\ T \cap {"GIFT_SENT", "GIFT_RECEIVED"} = {}
      OBVIOUS
    <2> HIDE DEF T
    <2> QED BY <1>1, <1>7, <2>1, <2>2, OtherKinds
  <1>9. RewardsEntered'
    <2>1. ASSUME NEW x \in Referrals, x # r, NEW t, NEW u, NEW a,
                 Entered(ledger, t, x, referral'[x] = "REWARDED", u, a)
          PROVE  Entered(ledger', t, x, referral'[x] = "REWARDED", u, a)
      BY <1>1, <1>6, <1>7, <2>1, StillEntered
    <2>2. ASSUME NEW x \in Referrals, x # r
          PROVE  /\ Entered(ledger', "REFERRAL_REWARD", x, referral'[x] = "REWARDED",
                            x.inviter, Reward)
                 /\ Entered(ledger', "REFERRAL_BONUS", x, referral'[x] = "REWARDED",
                            x.invitee, Reward)
      BY <1>3, <2>1, <2>2 DEF FInv, AllEntered, RewardsEntered
    <2>3. Entered(ledger', "REFERRAL_REWARD", r, TRUE, r.inviter, Reward)
      <3>1. \A i \in Len(ledger) + 1 .. Len(ledger') :
               i # n => ~(ledger'[i].type = "REFERRAL_REWARD" /\ ledger'[i].related = r)
        BY <1>6, <1>7
      <3> QED BY <1>1, <1>4, <1>6, <1>7, <3>1, NowEntered
    <2>4. Entered(ledger', "REFERRAL_BONUS", r, TRUE, r.invitee, Reward)
      <3>1. \A i \in Len(ledger) + 1 .. Len(ledger') :
               i # n + 1 => ~(ledger'[i].type = "REFERRAL_BONUS" /\ ledger'[i].related = r)
        BY <1>6, <1>7
      <3> QED BY <1>1, <1>4, <1>6, <1>7, <3>1, NowEntered
    <2> QED BY <1>3, <2>2, <2>3, <2>4 DEF RewardsEntered, Entered
  <1>10. \A u \in Users : u # v => Rewarded(u)' = Rewarded(u)
    BY <1>2, <1>3 DEF Rewarded
  <1>11. Rewarded(v)' = Rewarded(v) \cup {r} /\ r \notin Rewarded(v)
    BY <1>1, <1>2, <1>3 DEF Rewarded
  <1>12. CapHolds'
    <2>1. \A u \in Users : IsFiniteSet(Rewarded(u)) /\ Cardinality(Rewarded(u)) <= MonthlyCap
      BY DEF FInv, CapHolds
    <2>2. ASSUME NEW u \in Users, u # v
          PROVE  IsFiniteSet(Rewarded(u)') /\ Cardinality(Rewarded(u)') <= MonthlyCap
      <3>1. Rewarded(u)' = Rewarded(u)
        BY <1>10, <2>2
      <3> QED BY <2>1, <3>1
    <2>3. IsFiniteSet(Rewarded(v)') /\ Cardinality(Rewarded(v)') <= MonthlyCap
      <3> DEFINE R == Rewarded(v)
      <3>1. IsFiniteSet(R) /\ R \cup {r} = Rewarded(v)' /\ r \notin R
        BY <1>11, <2>1
      <3>2. Cardinality(R) < MonthlyCap /\ Cardinality(R) \in Nat
        BY <1>1, <1>2, <2>1, FS_CardinalityType
      <3> HIDE DEF R
      <3>3. IsFiniteSet(R \cup {r}) /\ Cardinality(R \cup {r}) = Cardinality(R) + 1
        BY <3>1, FS_AddElement
      <3>4. Cardinality(R) + 1 <= MonthlyCap
        BY <3>2, BoundsAssumption
      <3>5. IsFiniteSet(Rewarded(v)') /\ Cardinality(Rewarded(v)') = Cardinality(R) + 1
        BY <3>1, <3>3
      <3> QED BY <3>4, <3>5
    <2> QED BY <2>2, <2>3 DEF CapHolds
  <1>13. PaymentPaysOnce' /\ OneCard'
    BY <1>1 DEF FInv, PaymentPaysOnce, OneCard
  <1>14. Onward(w)
    <2>1. Written(v)
      BY <1>2, <1>6, <1>7 DEF Written
    <2> QED BY <1>1, <1>3, <1>7, <1>10, <2>1 DEF Onward
  <1>15. /\ job' = [job EXCEPT ![w] = job'[w]]
         /\ job'[w].req = None /\ job'[w].pc = "idle"
    BY <1>1, JobAfter
  <1>16. Facts(w)' /\ ~At(w, "settle", "commit")'
    BY <1>15, DoneFacts DEF AnswerFact, Asks
  <1> QED BY <1>8, <1>9, <1>12, <1>13, <1>14, <1>15, <1>16, FStep DEF AllEntered

-----------------------------------------------------------------------------

LEMMA InitF == Init => FInv
  <1> SUFFICES ASSUME Init PROVE FInv
    OBVIOUS
  <1>1. DOMAIN ledger = {}
    BY DEF Init
  <1>2. AllEntered
    BY <1>1 DEF Init, AllEntered, GiftsEntered, PurchasesEntered, RechargesEntered,
                RewardsEntered, Entered, RowsIn
  <1>3. PaymentPaysOnce /\ OneCard
    BY DEF Init, PaymentPaysOnce, OneCard
  <1>4. CapHolds
    <2>1. ASSUME NEW u \in Users
          PROVE  IsFiniteSet(Rewarded(u)) /\ Cardinality(Rewarded(u)) <= MonthlyCap
      <3>1. Rewarded(u) = {}
        BY DEF Init, Rewarded
      <3> QED BY <3>1, FS_EmptySet, BoundsAssumption
    <2> QED BY <2>1 DEF CapHolds
  <1>5. \A w \in Workers \cup Sweepers : job[w].req = None /\ job[w].pc = "idle"
    BY DEF Init, Idle
  <1>6. AllFacts
    BY <1>5 DEF AllFacts, Facts, CardFact, OrderFact, PurchaseFact, SettleFact, AnswerFact,
                At, Asks
  <1>7. OneSettlement
    BY <1>5 DEF OneSettlement, At, Asks
  <1> QED BY <1>2, <1>3, <1>4, <1>6, <1>7 DEF FInv

LEMMA NextF == IInv /\ FInv /\ [Next]_vars => FInv'
  <1> SUFFICES ASSUME IInv, FInv, [Next]_vars PROVE FInv'
    OBVIOUS
  <1>1. IInv'
    BY NextOK
  <1>2. ASSUME NEW w \in Workers \cup Sweepers, commitSettlement(w) PROVE FInv'
    BY <1>1, <1>2, SettlementRefusedF, SettlementRewardedF
  <1>3. ASSUME NEW w \in Workers \cup Sweepers, Step(w) PROVE FInv'
    BY <1>1, <1>2, <1>3, SendGiftF, BeginGiftF, GiftKeyTakenF, CommitGiftF, IssueCardF,
       MarkDeliveredF, BeginsF, BeginPurchaseF, CommitPurchaseF, ClaimApprovalF,
       FulfillCoinsF, SettleOneF, RetryF, OthersF DEF Step
  <1>4. ASSUME NEW w \in Sweepers, Cron(w) PROVE FInv'
    <2>1. w \in Workers \cup Sweepers
      OBVIOUS
    <2> QED BY <1>1, <1>4, <2>1, BeginsF, ClaimCardF, WorldFSteps DEF Cron
  <1> QED BY <1>1, <1>3, <1>4, WorldFSteps DEF Next

\* What requests and tables agree on while gifts, purchases, recharges and
\* settlements interleave, fail and are retried: the stronger invariant all
\* the results below are read off.
THEOREM FactsInvariant == Spec => [](IInv /\ FInv)
  <1> QED BY InitOK, NextOK, InitF, NextF, PTL DEF Spec

LEMMA EnteredIsBooked ==
    ASSUME NEW t, NEW x, NEW fact \in BOOLEAN, NEW u, NEW a, Entered(ledger, t, x, fact, u, a)
    PROVE  Booked(t, x, fact, u, a)
  <1>1. Rows(t, x) = RowsIn(ledger, t, x)
    BY DEF Rows, RowsIn
  <1>2. CASE ~fact
    <2>1. Rows(t, x) = {}
      BY <1>1, <1>2 DEF Entered
    <2> QED BY <1>2, <2>1, FS_EmptySet DEF Booked
  <1>3. CASE fact
    <2>1. PICK i \in DOMAIN ledger : /\ Rows(t, x) = {i}
                                     /\ ledger[i].user = u /\ ledger[i].amount = a
      BY <1>1, <1>3 DEF Entered
    <2>2. Cardinality(Rows(t, x)) = 1
      BY <2>1, FS_Singleton
    <2> QED BY <1>3, <2>1, <2>2 DEF Booked
  <1> QED BY <1>2, <1>3

\* Every gift, purchase, approved order and rewarded referral has exactly the
\* ledger rows it calls for, and no row is there without one, whatever was
\* retried, replayed, approved twice or cut short.
THEOREM CoinsMovedOnce == Spec => []CoinsMoveOnce
  <1>1. FInv => CoinsMoveOnce
    <2> SUFFICES ASSUME AllEntered PROVE CoinsMoveOnce
      BY DEF FInv
    <2>1. ASSUME NEW k \in Keys
          PROVE  /\ Booked("GIFT_SENT", k, gifts[k] # None, gifts[k].sender, -gifts[k].amount)
                 /\ Booked("GIFT_RECEIVED", k, gifts[k] # None, gifts[k].recipient,
                           gifts[k].amount)
      BY EnteredIsBooked DEF AllEntered, GiftsEntered
    <2>2. ASSUME NEW k \in Keys
          PROVE  Booked("PURCHASE", k, purchases[k] # None, Owner, -purchases[k].price)
      BY EnteredIsBooked DEF AllEntered, PurchasesEntered
    <2>3. ASSUME NEW o \in Orders
          PROVE  Booked("RECHARGE", o, orders[o].status = "APPROVED", OrderOf[o],
                        orders[o].amount)
      BY EnteredIsBooked DEF AllEntered, RechargesEntered
    <2>4. ASSUME NEW r \in Referrals
          PROVE  /\ Booked("REFERRAL_REWARD", r, referral[r] = "REWARDED", r.inviter, Reward)
                 /\ Booked("REFERRAL_BONUS", r, referral[r] = "REWARDED", r.invitee, Reward)
      BY EnteredIsBooked DEF AllEntered, RewardsEntered
    <2> QED BY <2>1, <2>2, <2>3, <2>4 DEF CoinsMoveOnce
  <1> QED BY <1>1, FactsInvariant, PTL

\* Two orders are never approved for the same payment.
THEOREM PaymentsPayOnce == Spec => []PaymentPaysOnce
  <1>1. FInv => PaymentPaysOnce
    BY DEF FInv
  <1> QED BY <1>1, FactsInvariant, PTL

\* The recipient of a gift sees at most one card, and sees it when the gift is
\* marked delivered, whoever issues it and however often.
THEOREM CardsAreSingle == Spec => []OneCard
  <1>1. FInv => OneCard
    BY DEF FInv
  <1> QED BY <1>1, FactsInvariant, PTL

\* An answer "ok" or "conflict" is true of the tables when it is given and as
\* long as the request is there.
THEOREM AnswersHold == Spec => []AnswersAreHonest
  <1>1. FInv => AnswersAreHonest
    BY DEF FInv, AllFacts, Facts, AnswerFact, AnswersAreHonest
  <1> QED BY <1>1, FactsInvariant, PTL

\* Settlements that count the rewards of an inviter at the same time do not
\* reward more than the cap.
THEOREM CapIsKept == Spec => []MonthlyCapHolds
  <1>1. FInv => MonthlyCapHolds
    BY DEF FInv, CapHolds, MonthlyCapHolds
  <1> QED BY <1>1, FactsInvariant, PTL

-----------------------------------------------------------------------------
(* What a purchase adds to the capacity.                                     *)

LEMMA MinOfThree ==
    ASSUME NEW a \in Nat, NEW b \in Nat, NEW c \in Nat
    PROVE  Min({a, b, c}) \in Nat
  <1>1. \E x \in {a, b, c} : \A y \in {a, b, c} : x <= y
    <2>1. CASE a <= b /\ a <= c
      BY <2>1
    <2>2. CASE b <= a /\ b <= c
      BY <2>2
    <2>3. CASE c <= a /\ c <= b
      BY <2>3
    <2> QED BY <2>1, <2>2, <2>3
  <1>2. Min({a, b, c}) \in {a, b, c}
    BY <1>1 DEF Min
  <1> QED BY <1>2

LEMMA PurchaseRaises ==
    ASSUME IInv, FInv, NEW w \in Workers \cup Sweepers, commitPurchase(w)
    PROVE  SeatsRaised
  <1> DEFINE q == job[w].req
             p == q.product
             k == q.key
  <1>1. /\ k \in Keys /\ p \in Products /\ purchases[k] = None /\ job[w].seen = circle
        /\ Capacity(Expanded(circle, p)) - Capacity(circle) = p.seats
        /\ circle \in CircleRow /\ purchases \in [Keys -> Products \cup {None}]
        /\ circle' = [max |-> Expanded(job[w].seen, p).max, seats |-> circle.seats + p.seats]
        /\ purchases' = [purchases EXCEPT ![k] = p]
    BY ReqFields DEF commitPurchase, At, FInv, AllFacts, Facts, PurchaseFact, IInv, TypeOK
  <1>2. circle' = Expanded(circle, p)
    BY <1>1 DEF Expanded
  <1>3. p.seats \in Nat /\ p # None
    BY <1>1, ProductsAssumption, NoneAssumption
  <1>4. Capacity(circle) \in Nat
    <2>1. circle.max \in Nat /\ Base + circle.seats \in Nat /\ HardLimit \in Nat
      BY <1>1, BoundsAssumption DEF CircleRow
    <2> QED BY <2>1, MinOfThree DEF Capacity
  <1>5. Capacity(Expanded(circle, p)) \in Nat
    <2>1. circle.max \in Nat /\ Base + (circle.seats + p.seats) \in Nat /\ HardLimit \in Nat
      BY <1>1, <1>3, BoundsAssumption DEF CircleRow
    <2>2. Min({Min({circle.max, HardLimit}) + p.seats, HardLimit}) \in Nat
      <3>1. Min({circle.max, HardLimit}) \in Nat
        BY <2>1, MinOfTwo
      <3>2. Min({circle.max, HardLimit}) + p.seats \in Nat
        BY <1>3, <3>1
      <3> QED BY <2>1, <3>2, MinOfTwo
    <2> DEFINE m == Min({Min({circle.max, HardLimit}) + p.seats, HardLimit})
    <2>3. Expanded(circle, p).max = m /\ Expanded(circle, p).seats = circle.seats + p.seats
      BY DEF Expanded
    <2> HIDE DEF m
    <2>4. m \in Nat
      BY <2>2 DEF m
    <2> QED BY <2>1, <2>3, <2>4, MinOfThree DEF Capacity
  <1>6. Capacity(Expanded(circle, p)) = Capacity(circle) + p.seats
    BY <1>1, <1>3, <1>4, <1>5
  <1>7. Capacity(circle)' = Capacity(Expanded(circle, p))
    BY <1>2 DEF Capacity
  <1>8. purchases'[k] = p /\ purchases'[k] # purchases[k]
    BY <1>1, <1>3
  <1>9. Capacity(circle)' = Capacity(circle) + purchases'[k].seats
    BY <1>6, <1>7, <1>8
  <1> QED BY <1>1, <1>8, <1>9 DEF SeatsRaised

\* A purchase raises the capacity in force by the seats that were paid for:
\* its snapshot is not stale, so the circle and the hard limit are as they
\* were when the purchase was found to fit.
THEOREM SeatsPaidAreUsable == Spec => SeatsAreUsable
  <1>1. IInv /\ FInv /\ [Next]_vars => [SeatsRaised]_vars
    <2> SUFFICES ASSUME IInv, FInv, Next PROVE SeatsRaised
      BY DEF vars
    <2>1. ASSUME NEW w \in Workers \cup Sweepers, Step(w), ~commitPurchase(w)
          PROVE  purchases' = purchases
      BY <2>1 DEF Step, sendGift, beginGift, giftKeyTaken, commitGift, issueTransferCard,
                  markDelivered, purchase, beginPurchase, approveOrder, claimApproval,
                  fulfillCoins, settleReferrals, settleOne, commitSettlement,
                  runSerializableTransaction, Return, Crash, data
    <2>2. ASSUME NEW w \in Sweepers, Cron(w) PROVE purchases' = purchases
      BY <2>2 DEF Cron, compensate, claimCard, GracePasses, data
    <2>3. CASE Midnight \/ \E o \in Orders : rejectOrder(o)
      BY <2>3 DEF Midnight, rejectOrder, data, SeatsRaised
    <2> QED BY <2>1, <2>2, <2>3, PurchaseRaises DEF Next, SeatsRaised
  <1> QED BY <1>1, FactsInvariant, PTL DEF Spec, SeatsAreUsable


-----------------------------------------------------------------------------
(* What a user sends in a day.  A transaction that found room for its gift   *)
(* counts the rows since its own day; unless its snapshot is stale they are  *)
(* still the same at the commit, and the rows of the day it books the gift   *)
(* on are among them.                                                        *)

Terms(L) == [i \in DOMAIN L |-> -L[i].amount]
SentFrom(L, u, d) == {i \in DOMAIN L : /\ L[i].user = u /\ L[i].type = "GIFT_SENT"
                                       /\ L[i].day >= d}
SentOn(L, u, d) == {i \in DOMAIN L : /\ L[i].user = u /\ L[i].day = d
                                     /\ L[i].type = "GIFT_SENT"}
Total(L, S) == SumFunctionOnSet(Terms(L), S)

RoomOK(w) ==
    At(w, "gift", "commit") /\ ~Stale(w, {job[w].req.user, job[w].req.peer})
        => Total(ledger, SentFrom(ledger, job[w].req.user, job[w].day)) + job[w].req.amount
              <= DailyLimit

SendsAreDebits == \A i \in DOMAIN ledger : ledger[i].type = "GIFT_SENT" => -ledger[i].amount \in Nat

WithinLimit == \A u \in Users, d \in 1 .. Days : Total(ledger, SentOn(ledger, u, d)) <= DailyLimit

AllRoomOK == \A w \in Workers \cup Sweepers : RoomOK(w)

DInv == SendsAreDebits /\ WithinLimit /\ AllRoomOK

LEMMA FinitePart ==
    ASSUME NEW L \in Seq(Row), NEW S \in SUBSET DOMAIN L
    PROVE  IsFiniteSet(S)
  <1>1. DOMAIN L = 1 .. Len(L) /\ Len(L) \in Int /\ 1 \in Int
    OBVIOUS
  <1>2. IsFiniteSet(1 .. Len(L))
    BY <1>1, FS_Interval
  <1> QED BY <1>1, <1>2, FS_Subset

LEMMA SameTotal ==
    ASSUME NEW L \in Seq(Row), NEW M \in Seq(Row), Longer(L, M), NEW S \in SUBSET DOMAIN L
    PROVE  Total(M, S) = Total(L, S)
  <1>1. /\ DOMAIN L = 1 .. Len(L) /\ DOMAIN M = 1 .. Len(M)
        /\ Len(L) \in Nat /\ Len(M) \in Nat
    OBVIOUS
  <1>2. IsFiniteSet(S)
    BY FinitePart
  <1>3. \A i \in S : Terms(M)[i] = Terms(L)[i]
    BY <1>1 DEF Terms, Longer
  <1>4. SumFunctionOnSet(Terms(M), S) = SumFunctionOnSet(Terms(L), S)
    BY <1>2, <1>3, SumSame
  <1> QED BY <1>4 DEF Total

LEMMA OneTermMore ==
    ASSUME NEW L \in Seq(Row), NEW M \in Seq(Row), Longer(L, M), NEW S \in SUBSET DOMAIN L,
           NEW n \in Len(L) + 1 .. Len(M)
    PROVE  Total(M, S \cup {n}) = Total(L, S) - M[n].amount /\ Total(L, S) \in Int
  <1>1. /\ DOMAIN L = 1 .. Len(L) /\ DOMAIN M = 1 .. Len(M)
        /\ Len(L) \in Nat /\ Len(M) \in Nat
    OBVIOUS
  <1>2. IsFiniteSet(S) /\ n \notin S /\ n \in DOMAIN M
    <2>1. n \notin S /\ n \in DOMAIN M
      BY <1>1
    <2> QED BY <2>1, FinitePart
  <1>3. \A i \in DOMAIN M : M[i].amount \in Int /\ Terms(M)[i] = -M[i].amount
    <2>1. \A i \in DOMAIN M : M[i] \in Row
      OBVIOUS
    <2> QED BY <2>1 DEF Row, Terms
  <1>4. \A i \in S \cup {n} : Terms(M)[i] \in Int
    BY <1>1, <1>2, <1>3 DEF Longer
  <1>5. SumFunctionOnSet(Terms(M), S \cup {n}) = SumFunctionOnSet(Terms(M), S) + Terms(M)[n]
    BY <1>2, <1>4, SumAdd
  <1>6. Total(M, S) = Total(L, S)
    BY SameTotal
  <1>7. SumFunctionOnSet(Terms(M), S) \in Int
    BY <1>2, <1>4, SumInt
  <1>8. /\ Total(M, S \cup {n}) = Total(M, S) - M[n].amount /\ Total(M, S) \in Int
    BY <1>2, <1>3, <1>5, <1>7 DEF Total
  <1> QED BY <1>6, <1>8

\* The rows of a day are among those since an earlier one.
LEMMA DayWithin ==
    ASSUME NEW L \in Seq(Row), NEW u, NEW d \in Int, NEW e \in Int, e <= d,
           \A i \in DOMAIN L : L[i].type = "GIFT_SENT" => -L[i].amount \in Nat
    PROVE  Total(L, SentOn(L, u, d)) <= Total(L, SentFrom(L, u, e))
  <1>1. IsFiniteSet(SentFrom(L, u, e))
    <2>1. SentFrom(L, u, e) \in SUBSET DOMAIN L
      BY DEF SentFrom
    <2> QED BY <2>1, FinitePart
  <1>3. SentOn(L, u, d) \in SUBSET SentFrom(L, u, e)
    BY DEF SentOn, SentFrom
  <1>4. \A i \in SentFrom(L, u, e) : Terms(L)[i] \in Nat
    BY DEF SentFrom, Terms
  <1>5. SumFunctionOnSet(Terms(L), SentOn(L, u, d)) <= SumFunctionOnSet(Terms(L), SentFrom(L, u, e))
    BY <1>1, <1>3, <1>4, SumFewer
  <1> QED BY <1>5 DEF Total

\* Nothing new is sent by u.
LEMMA NothingSent ==
    ASSUME NEW L \in Seq(Row), NEW M \in Seq(Row), Longer(L, M), NEW u, NEW d,
           \A i \in Len(L) + 1 .. Len(M) : ~(M[i].user = u /\ M[i].type = "GIFT_SENT")
    PROVE  /\ Total(M, SentFrom(M, u, d)) = Total(L, SentFrom(L, u, d))
           /\ Total(M, SentOn(M, u, d)) = Total(L, SentOn(L, u, d))
  <1>1. /\ DOMAIN L = 1 .. Len(L) /\ DOMAIN M = 1 .. Len(M)
        /\ Len(L) \in Nat /\ Len(M) \in Nat
    OBVIOUS
  <1>2. SentFrom(M, u, d) = SentFrom(L, u, d) /\ SentFrom(L, u, d) \in SUBSET DOMAIN L
    BY <1>1 DEF SentFrom, Longer
  <1>3. SentOn(M, u, d) = SentOn(L, u, d) /\ SentOn(L, u, d) \in SUBSET DOMAIN L
    BY <1>1 DEF SentOn, Longer
  <1> QED BY <1>2, <1>3, SameTotal

\* The room found by a transaction is there until its snapshot is stale.
LEMMA RoomKept ==
    ASSUME IInv, IInv', Grown, NEW v \in Workers \cup Sweepers, job'[v] = job[v], RoomOK(v)
    PROVE  RoomOK(v)'
  <1> DEFINE q == job[v].req
             S == {q.user, q.peer}
  <1>1. ledger \in Seq(Row) /\ ledger' \in Seq(Row) /\ Longer(ledger, ledger')
    BY DEF IInv, TypeOK, Grown, Longer
  <1> SUFFICES ASSUME At(v, "gift", "commit"), ~Stale(v, S)'
               PROVE  Total(ledger', SentFrom(ledger', q.user, job[v].day)) + q.amount
                         <= DailyLimit
    BY DEF RoomOK, At, Asks
  <1>2. job[v].pc = "commit"
    BY DEF At
  <1>3. ~Stale(v, S) /\ \A u \in S : ~Written(u)
    <2>1. PICK R : R = S
      OBVIOUS
    <2>2. ~Stale(v, R)'
      BY <2>1 DEF Stale
    <2>3. ~Stale(v, R) /\ \A u \in R : ~Written(u)
      BY <1>1, <1>2, <2>2, FreshBefore
    <2> QED BY <2>1, <2>3
  <1>4. \A i \in Len(ledger) + 1 .. Len(ledger') :
           ~(ledger'[i].user = q.user /\ ledger'[i].type = "GIFT_SENT")
    BY <1>3 DEF Written
  <1>5. Total(ledger', SentFrom(ledger', q.user, job[v].day))
           = Total(ledger, SentFrom(ledger, q.user, job[v].day))
    BY <1>1, <1>4, NothingSent
  <1> QED BY <1>3, <1>5 DEF RoomOK

\* A step of w books no gift.
LEMMA NoGiftStep ==
    ASSUME IInv, IInv', DInv, NEW w \in Workers \cup Sweepers, Grown,
           job' = [job EXCEPT ![w] = job'[w]], RoomOK(w)',
           \A i \in Len(ledger) + 1 .. Len(ledger') : ledger'[i].type # "GIFT_SENT"
    PROVE  DInv'
  <1>1. ledger \in Seq(Row) /\ ledger' \in Seq(Row) /\ Longer(ledger, ledger')
    BY DEF IInv, TypeOK, Grown, Longer
  <1>2. /\ DOMAIN ledger = 1 .. Len(ledger) /\ DOMAIN ledger' = 1 .. Len(ledger')
        /\ Len(ledger) \in Nat /\ Len(ledger') \in Nat
    BY <1>1
  <1>3. SendsAreDebits'
    BY <1>1, <1>2 DEF DInv, SendsAreDebits, Longer
  <1>4. WithinLimit'
    <2>1. ASSUME NEW u \in Users, NEW d \in 1 .. Days
          PROVE  Total(ledger', SentOn(ledger', u, d)) <= DailyLimit
      <3>1. Total(ledger', SentOn(ledger', u, d)) = Total(ledger, SentOn(ledger, u, d))
        BY <1>1, NothingSent
      <3> QED BY <3>1 DEF DInv, WithinLimit
    <2> QED BY <2>1 DEF WithinLimit
  <1>5. AllRoomOK'
    <2>1. ASSUME NEW v \in Workers \cup Sweepers, v # w PROVE RoomOK(v)'
      <3>1. job'[v] = job[v]
        BY <2>1, JobType
      <3>2. RoomOK(v)
        BY DEF DInv, AllRoomOK
      <3> QED BY <3>1, <3>2, RoomKept
    <2> QED BY <2>1 DEF AllRoomOK
  <1> QED BY <1>3, <1>4, <1>5 DEF DInv

\* Neither does a step of no worker.
LEMMA NoStepD ==
    ASSUME IInv, IInv', DInv, UNCHANGED <<ledger, job>>
    PROVE  DInv'
  <1>1. Len(ledger) \in Nat /\ Grown
    BY DEF IInv, TypeOK, Grown
  <1>2. SendsAreDebits' /\ WithinLimit'
    BY DEF DInv, SendsAreDebits, WithinLimit
  <1>3. ASSUME NEW v \in Workers \cup Sweepers PROVE RoomOK(v)'
    <2>1. RoomOK(v)
      BY DEF DInv, AllRoomOK
    <2> QED BY <1>1, <2>1, RoomKept
  <1> QED BY <1>2, <1>3 DEF DInv, AllRoomOK

\* A step that leaves the ledger alone and w outside the commit of a gift.
LEMMA QuietD ==
    ASSUME IInv, IInv', DInv, NEW w \in Workers \cup Sweepers, ledger' = ledger,
           job' = [job EXCEPT ![w] = job'[w]], ~At(w, "gift", "commit")'
    PROVE  DInv'
  <1>1. Len(ledger) \in Nat /\ Grown /\ RoomOK(w)'
    BY DEF IInv, TypeOK, Grown, RoomOK
  <1> QED BY <1>1, NoGiftStep

LEMMA BeginGiftD ==
    ASSUME IInv, IInv', DInv, NEW w \in Workers \cup Sweepers, beginGift(w) PROVE DInv'
  <1> DEFINE q == job[w].req
  <1>1. ledger' = ledger
    BY DEF beginGift, data
  <1>2. CASE \E a : Answer(w, q, a)
    <2>1. job' = [job EXCEPT ![w] = job'[w]] /\ job'[w].pc = "answered"
      BY <1>2, JobAfter
    <2> QED BY <1>1, <2>1, QuietD DEF At
  <1>3. CASE /\ sentSince(q.user, job[w].day) + q.amount <= DailyLimit
             /\ Snapshot(w, None, None)
    <2>1. /\ job' = [job EXCEPT ![w] = job'[w]] /\ job'[w].req = q
      BY <1>3, JobAfter
    <2>2. job'[w].day = job[w].day
      BY <1>3, JobType DEF Snapshot, Job
    <2>3. sentSince(q.user, job[w].day) = Total(ledger, SentFrom(ledger, q.user, job[w].day))
      BY DEF sentSince, Total, SentFrom, Terms
    <2>4. RoomOK(w)'
      BY <1>1, <1>3, <2>1, <2>2, <2>3 DEF RoomOK
    <2>5. Len(ledger) \in Nat /\ Grown
      BY <1>1 DEF IInv, TypeOK, Grown
    <2> QED BY <1>1, <2>1, <2>4, <2>5, NoGiftStep
  <1> QED BY <1>2, <1>3 DEF beginGift

\* The rows of a gift, booked on a day between its own and today.
LEMMA CommitGiftD ==
    ASSUME IInv, IInv', DInv, NEW w \in Workers \cup Sweepers, commitGift(w) PROVE DInv'
  <1> DEFINE q == job[w].req
             n == Len(ledger) + 1
             e == job[w].day
  <1>1. /\ ledger \in Seq(Row) /\ ledger' \in Seq(Row)
        /\ job \in [Workers \cup Sweepers -> Job] /\ Len(ledger) \in Nat
        /\ q.user \in Users /\ q.amount \in Nat \ {0} /\ q.amount \in Amounts
        /\ today \in 1 .. Days /\ e \in Int /\ DailyLimit \in Nat
    <2>1. ledger \in Seq(Row) /\ ledger' \in Seq(Row) /\ Len(ledger) \in Nat
      BY DEF IInv, TypeOK
    <2>2. job \in [Workers \cup Sweepers -> Job] /\ today \in 1 .. Days /\ job[w] \in Job
      BY JobType
    <2>3. e \in Int /\ DailyLimit \in Nat
      BY <2>2, BoundsAssumption DEF Job
    <2>4. q.user \in Users /\ q.amount \in Amounts
      BY ReqFields DEF commitGift, At
    <2> QED BY <2>1, <2>2, <2>3, <2>4, AmountsAssumption
  <1>2. PICK d \in e .. today :
           ledger' = ledger \o <<Entry(q.user, "GIFT_SENT", -q.amount, q.key, d),
                                 Entry(q.peer, "GIFT_RECEIVED", q.amount, q.key, d)>>
    BY DEF commitGift
  <1>3. /\ ledger'[n].user = q.user /\ ledger'[n].type = "GIFT_SENT"
        /\ ledger'[n].amount = -q.amount /\ ledger'[n].day = d
        /\ ledger'[n + 1].type = "GIFT_RECEIVED"
        /\ Len(ledger') = n + 1 /\ \A i \in 1 .. Len(ledger) : ledger'[i] = ledger[i]
    <2> DEFINE a == Entry(q.user, "GIFT_SENT", -q.amount, q.key, d)
               b == Entry(q.peer, "GIFT_RECEIVED", q.amount, q.key, d)
    <2>1. /\ a.user = q.user /\ a.type = "GIFT_SENT" /\ a.amount = -q.amount /\ a.day = d
          /\ b.type = "GIFT_RECEIVED"
      BY DEF Entry
    <2>2. ledger' = ledger \o <<a, b>>
      BY <1>2
    <2> HIDE DEF a, b
    <2>3. /\ Len(ledger') = n + 1 /\ \A i \in 1 .. Len(ledger) : ledger'[i] = ledger[i]
          /\ ledger'[n] = a /\ ledger'[n + 1] = b
      BY <1>1, <2>2
    <2> HIDE DEF n
    <2> QED BY <2>1, <2>3
  <1>4. /\ Grown /\ Longer(ledger, ledger') /\ n \in Len(ledger) + 1 .. Len(ledger')
        /\ DOMAIN ledger = 1 .. Len(ledger) /\ DOMAIN ledger' = 1 .. Len(ledger) \cup {n, n + 1}
    BY <1>1, <1>3 DEF Grown, Longer
  <1>5. SendsAreDebits'
    BY <1>1, <1>3, <1>4 DEF DInv, SendsAreDebits
  <1>6. Total(ledger, SentOn(ledger, q.user, d)) + q.amount <= DailyLimit
    <2>1. Total(ledger, SentFrom(ledger, q.user, e)) + q.amount <= DailyLimit
      BY DEF DInv, AllRoomOK, RoomOK, commitGift
    <2>2. d \in Int /\ e <= d
      BY <1>1
    <2>3. \A i \in DOMAIN ledger : ledger[i].type = "GIFT_SENT" => -ledger[i].amount \in Nat
      BY DEF DInv, SendsAreDebits
    <2>4. Total(ledger, SentOn(ledger, q.user, d)) <= Total(ledger, SentFrom(ledger, q.user, e))
      BY <1>1, <2>2, <2>3, DayWithin
    <2>5. SentOn(ledger, q.user, d) \in SUBSET DOMAIN ledger
          /\ SentFrom(ledger, q.user, e) \in SUBSET DOMAIN ledger
      BY DEF SentOn, SentFrom
    <2>6. Total(ledger, SentOn(ledger, q.user, d)) \in Int
          /\ Total(ledger, SentFrom(ledger, q.user, e)) \in Int
      BY <1>1, <1>4, <2>5, OneTermMore
    <2> QED BY <1>1, <2>1, <2>4, <2>6
  <1>7. WithinLimit'
    <2>1. ASSUME NEW u \in Users, NEW x \in 1 .. Days
          PROVE  Total(ledger', SentOn(ledger', u, x)) <= DailyLimit
      <3>1. SentOn(ledger, u, x) \in SUBSET DOMAIN ledger
        BY DEF SentOn
      <3>2. CASE u = q.user /\ x = d
        <4>1. SentOn(ledger', u, x) = SentOn(ledger, u, x) \cup {n}
          BY <1>1, <1>3, <1>4, <3>2 DEF SentOn
        <4>2. /\ Total(ledger', SentOn(ledger, u, x) \cup {n})
                   = Total(ledger, SentOn(ledger, u, x)) - ledger'[n].amount
              /\ Total(ledger, SentOn(ledger, u, x)) \in Int
          BY <1>1, <1>4, <3>1, OneTermMore
        <4> QED BY <1>1, <1>3, <1>6, <3>2, <4>1, <4>2
      <3>3. CASE ~(u = q.user /\ x = d)
        <4>1. SentOn(ledger', u, x) = SentOn(ledger, u, x)
          BY <1>1, <1>3, <1>4, <3>3 DEF SentOn
        <4>2. Total(ledger', SentOn(ledger, u, x)) = Total(ledger, SentOn(ledger, u, x))
          BY <1>1, <1>4, <3>1, SameTotal
        <4> QED BY <4>1, <4>2 DEF DInv, WithinLimit
      <3> QED BY <3>2, <3>3
    <2> QED BY <2>1 DEF WithinLimit
  <1>8. job'[w].pc = "card" /\ \A v \in Workers \cup Sweepers : v # w => job'[v] = job[v]
    <2> DEFINE j == [Idle EXCEPT !.req = q, !.pc = "card", !.answer = "ok"]
    <2>1. j.pc = "card" /\ job' = [job EXCEPT ![w] = j]
      BY DEF commitGift, Idle
    <2> HIDE DEF j
    <2> QED BY <1>1, <2>1
  <1>9. AllRoomOK'
    <2>1. RoomOK(w)'
      BY <1>8 DEF RoomOK, At
    <2>2. ASSUME NEW v \in Workers \cup Sweepers, v # w PROVE RoomOK(v)'
      <3>1. RoomOK(v) /\ job'[v] = job[v]
        BY <1>8, <2>2 DEF DInv, AllRoomOK
      <3> QED BY <1>4, <3>1, RoomKept
    <2> QED BY <2>1, <2>2 DEF AllRoomOK
  <1> QED BY <1>5, <1>7, <1>9 DEF DInv

\* The rows of a purchase, a recharge or a reward are no gifts.
LEMMA OneRowAdded ==
    ASSUME IInv, NEW e, e.type # "GIFT_SENT", ledger' = Append(ledger, e)
    PROVE  /\ Grown
           /\ \A i \in Len(ledger) + 1 .. Len(ledger') : ledger'[i].type # "GIFT_SENT"
  <1> DEFINE n == Len(ledger)
  <1>1. ledger \in Seq(Row)
    BY DEF IInv, TypeOK
  <1>2. /\ n \in Nat /\ Len(ledger') = n + 1 /\ ledger'[n + 1] = e
        /\ \A i \in 1 .. n : ledger'[i] = ledger[i]
    BY <1>1
  <1> QED BY <1>2 DEF Grown

LEMMA TwoRowsAdded ==
    ASSUME IInv, NEW d, NEW e, d.type # "GIFT_SENT", e.type # "GIFT_SENT",
           ledger' = ledger \o <<d, e>>
    PROVE  /\ Grown
           /\ \A i \in Len(ledger) + 1 .. Len(ledger') : ledger'[i].type # "GIFT_SENT"
  <1> DEFINE n == Len(ledger)
  <1>1. ledger \in Seq(Row)
    BY DEF IInv, TypeOK
  <1>2. /\ n \in Nat /\ Len(ledger') = n + 2 /\ ledger'[n + 1] = d /\ ledger'[n + 2] = e
        /\ \A i \in 1 .. n : ledger'[i] = ledger[i]
    BY <1>1
  <1> QED BY <1>2 DEF Grown

LEMMA OtherRowsD ==
    ASSUME IInv, IInv', DInv, NEW w \in Workers \cup Sweepers,
           commitPurchase(w) \/ fulfillCoins(w) \/ commitSettlement(w)
    PROVE  DInv'
  <1>1. /\ job' = [job EXCEPT ![w] = job'[w]] /\ job'[w].pc \in {"answered", "idle"}
    BY JobAfter DEF commitPurchase, fulfillCoins, commitSettlement
  <1>2. CASE ledger' = ledger
    BY <1>1, <1>2, QuietD DEF At
  <1>3. ASSUME NEW e, e.type # "GIFT_SENT", ledger' = Append(ledger, e) PROVE DInv'
    BY <1>1, <1>3, OneRowAdded, NoGiftStep DEF RoomOK, At
  <1>4. ASSUME NEW d, NEW e, d.type # "GIFT_SENT", e.type # "GIFT_SENT",
               ledger' = ledger \o <<d, e>>
        PROVE  DInv'
    BY <1>1, <1>4, TwoRowsAdded, NoGiftStep DEF RoomOK, At
  <1>5. CASE commitPurchase(w)
    <2> DEFINE e == Entry(Owner, "PURCHASE", -job[w].req.product.price, job[w].req.key, today)
    <2>1. e.type # "GIFT_SENT" /\ ledger' = Append(ledger, e)
      BY <1>5 DEF commitPurchase, Entry
    <2> HIDE DEF e
    <2> QED BY <1>3, <2>1
  <1>6. CASE fulfillCoins(w)
    <2> DEFINE q == job[w].req
               e == Entry(OrderOf[q.order], "RECHARGE", q.amount, q.order, today)
    <2>1. e.type # "GIFT_SENT"
      BY DEF Entry
    <2>2. ledger' = ledger \/ ledger' = Append(ledger, e)
      BY <1>6 DEF fulfillCoins, creditInTransaction
    <2> HIDE DEF e
    <2> QED BY <1>2, <1>3, <2>1, <2>2
  <1>7. CASE commitSettlement(w)
    <2> DEFINE r == job[w].req.referral
               d == Entry(r.inviter, "REFERRAL_REWARD", Reward, r, today)
               e == Entry(r.invitee, "REFERRAL_BONUS", Reward, r, today)
    <2>1. d.type # "GIFT_SENT" /\ e.type # "GIFT_SENT"
      BY DEF Entry
    <2>2. ledger' = ledger \/ ledger' = ledger \o <<d, e>>
      BY <1>7 DEF commitSettlement
    <2> HIDE DEF d, e
    <2> QED BY <1>2, <1>4, <2>1, <2>2
  <1> QED BY <1>5, <1>6, <1>7

\* The steps of a request that write no ledger and take no snapshot for a gift.
LEMMA QuietStepsD ==
    ASSUME IInv, IInv', DInv, NEW w \in Workers \cup Sweepers,
           \/ sendGift(w) \/ giftKeyTaken(w) \/ issueTransferCard(w) \/ markDelivered(w)
           \/ purchase(w) \/ beginPurchase(w) \/ approveOrder(w) \/ claimApproval(w)
           \/ settleReferrals(w) \/ settleOne(w) \/ Return(w) \/ Crash(w)
           \/ compensate(w) \/ claimCard(w)
    PROVE  DInv'
  <1>1. ledger' = ledger
    BY DEF sendGift, giftKeyTaken, issueTransferCard, markDelivered, purchase, beginPurchase,
           approveOrder, claimApproval, settleReferrals, settleOne, Return, Crash,
           compensate, claimCard, data
  <1>2. ASSUME NEW q, NEW pc, pc \in {"begin", "claim"}, Begin(w, q, pc) PROVE DInv'
    BY <1>1, <1>2, JobAfter, QuietD DEF At
  <1>3. ASSUME NEW q, NEW a, Answer(w, q, a) PROVE DInv'
    BY <1>1, <1>3, JobAfter, QuietD DEF At
  <1>4. ASSUME NEW pc, pc \in {"card", "mark", "fulfil"}, Goto(w, pc) PROVE DInv'
    BY <1>1, <1>4, JobAfter, QuietD DEF At
  <1>5. CASE Finish(w)
    BY <1>1, <1>5, JobAfter, QuietD DEF At
  <1>6. ASSUME NEW seen, NEW verdict, Snapshot(w, seen, verdict), job[w].req.op # "gift"
        PROVE  DInv'
    BY <1>1, <1>6, JobAfter, QuietD DEF At, Asks
  <1>7. CASE sendGift(w) \/ giftKeyTaken(w)
    BY <1>2, <1>3, <1>7 DEF sendGift, giftKeyTaken
  <1>8. CASE issueTransferCard(w) \/ markDelivered(w) \/ Return(w) \/ Crash(w) \/ claimCard(w)
    BY <1>4, <1>5, <1>8 DEF issueTransferCard, markDelivered, Return, Crash, claimCard
  <1>9. CASE purchase(w) \/ approveOrder(w) \/ settleReferrals(w) \/ compensate(w)
    BY <1>2, <1>3, <1>9 DEF purchase, approveOrder, settleReferrals, compensate
  <1>10. CASE beginPurchase(w)
    BY <1>3, <1>6, <1>10 DEF beginPurchase, At, Asks
  <1>11. CASE claimApproval(w)
    BY <1>3, <1>4, <1>11 DEF claimApproval
  <1>12. CASE settleOne(w)
    BY <1>5, <1>6, <1>12 DEF settleOne, At, Asks
  <1> QED BY <1>7, <1>8, <1>9, <1>10, <1>11, <1>12

LEMMA RetryD ==
    ASSUME IInv, IInv', DInv, NEW w \in Workers \cup Sweepers, runSerializableTransaction(w)
    PROVE  DInv'
  <1>1. ledger' = ledger /\ job \in [Workers \cup Sweepers -> Job] /\ job[w] \in Job
    BY JobType DEF runSerializableTransaction, data
  <1>2. CASE Answer(w, job[w].req, "failed")
    BY <1>1, <1>2, JobAfter, QuietD DEF At
  <1>3. CASE job' = [job EXCEPT ![w].pc = "begin", ![w].tries = @ + 1, ![w].since = 0,
                                ![w].seen = None, ![w].verdict = None]
    <2> DEFINE j == [job[w] EXCEPT !.pc = "begin", !.tries = @ + 1, !.since = 0,
                                   !.seen = None, !.verdict = None]
    <2>1. job' = [job EXCEPT ![w] = j] /\ j.pc = "begin"
      BY <1>1, <1>3 DEF Job
    <2> HIDE DEF j
    <2>2. job' = [job EXCEPT ![w] = job'[w]] /\ job'[w].pc = "begin"
      BY <1>1, <2>1
    <2> QED BY <1>1, <2>2, QuietD DEF At
  <1> QED BY <1>2, <1>3 DEF runSerializableTransaction

LEMMA InitD == Init => DInv
  <1> SUFFICES ASSUME Init PROVE DInv
    OBVIOUS
  <1>1. DOMAIN ledger = {}
    BY DEF Init
  <1>2. SendsAreDebits
    BY <1>1 DEF SendsAreDebits
  <1>3. WithinLimit
    <2>1. ASSUME NEW u \in Users, NEW d \in 1 .. Days
          PROVE  Total(ledger, SentOn(ledger, u, d)) <= DailyLimit
      <3>1. SentOn(ledger, u, d) = {}
        BY <1>1 DEF SentOn
      <3> QED BY <3>1, SumEmpty, BoundsAssumption DEF Total
    <2> QED BY <2>1 DEF WithinLimit
  <1>4. AllRoomOK
    BY DEF Init, Idle, AllRoomOK, RoomOK, At
  <1> QED BY <1>2, <1>3, <1>4 DEF DInv

LEMMA NextD == IInv /\ DInv /\ [Next]_vars => DInv'
  <1> SUFFICES ASSUME IInv, DInv, [Next]_vars PROVE DInv'
    OBVIOUS
  <1>1. IInv'
    BY NextOK
  <1>2. ASSUME NEW w \in Workers \cup Sweepers, Step(w) PROVE DInv'
    BY <1>1, <1>2, QuietStepsD, BeginGiftD, CommitGiftD, OtherRowsD, RetryD DEF Step
  <1>3. ASSUME NEW w \in Sweepers, Cron(w) PROVE DInv'
    <2>1. w \in Workers \cup Sweepers
      OBVIOUS
    <2>2. ASSUME NEW k \in Keys, GracePasses(k) PROVE DInv'
      BY <1>1, <2>2, NoStepD DEF GracePasses
    <2> QED BY <1>1, <1>3, <2>1, <2>2, QuietStepsD DEF Cron
  <1>4. ASSUME NEW o \in Orders, rejectOrder(o) PROVE DInv'
    BY <1>1, <1>4, NoStepD DEF rejectOrder
  <1>5. CASE Midnight \/ UNCHANGED vars
    BY <1>1, <1>5, NoStepD DEF Midnight, vars, data
  <1> QED BY <1>2, <1>3, <1>4, <1>5 DEF Next

\* sendGift never lets a user send more than GIFT_DAILY_LIMIT in a day,
\* whatever gifts of the user run at the same time, fail, are retried, or
\* begin before midnight and commit after it.
THEOREM DailyLimitKept == Spec => []DailyLimitHolds
  <1>1. WithinLimit => DailyLimitHolds
    BY DEF WithinLimit, DailyLimitHolds, Total, SentOn, Terms
  <1>2. DInv => DailyLimitHolds
    BY <1>1 DEF DInv
  <1> QED BY <1>2, InitOK, NextOK, InitD, NextD, PTL DEF Spec
=============================================================================
