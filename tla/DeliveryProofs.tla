---------------------------- MODULE DeliveryProofs ----------------------------
(* Proofs about the two services whose work passes from worker to worker:   *)
(* PushOutbox, for any number of device tokens, workers, pollers and        *)
(* attempts, and Friendship, for any number of rows, messages and workers.  *)
(*                                                                          *)
(* The outbox keeps the promise of PushDelivery.  As long as no worker      *)
(* outlives its lease, at most one worker has the job in hand (Lone), and   *)
(* the rows it is about to send to stay as it found them, because everybody *)
(* else only touches rows whose push is out (Ready).  A deleted             *)
(* announcement takes the lease away, but then nobody goes on to send       *)
(* (Gone).                                                                  *)
(*                                                                          *)
(* The chat of two friends holds a beginning of the thread of an accepted   *)
(* request, in its order, each message once.  The k-th clean message of a   *)
(* thread has one place in the chat, Before(k).  A worker that copies       *)
(* message k knows that the clean messages before it are in the chat        *)
(* (Knows), however old that knowledge is, for nothing leaves the chat.  So *)
(* either k is there already, then the lookup finds it, or the chat ends    *)
(* just before the place of k.                                              *)
EXTENDS PushOutbox, Friendship, FiniteSetTheorems, SequenceTheorems, TLAPS

-----------------------------------------------------------------------------
(* The push outbox: the inductive invariant.                                *)

AllOutcomes == ExpoOutcomes \cup JPushOutcomes

DeliveryRow == [status : {"none", "PENDING", "FAILED", "SENT", "CONFIRMED", "TERMINAL"},
                attempts : Nat]
JobRow == [pc : {"idle", "claimed", "listed", "empty", "picked", "sending", "sent", "recorded"},
           listed : SUBSET PushTokens, pending : SUBSET PushTokens,
           outcome : UNION {[S -> AllOutcomes] : S \in SUBSET PushTokens}]
PollRow == [pc : {"idle", "asked", "counted"}, rows : SUBSET PushTokens, close : BOOLEAN]

PushType ==
    /\ outbox \in [status : {"none", "PENDING", "FAILED", "PROCESSING", "COMPLETED", "TERMINAL"},
                   lease : PushWorkers \cup {NoLease}, cancelled : BOOLEAN]
    /\ delivery \in [PushTokens -> DeliveryRow]
    /\ active \in SUBSET PushTokens
    /\ notice \in [kind : PushKinds \cup {"none"}, deleted : BOOLEAN]
    /\ pushJob \in [PushWorkers -> JobRow]
    /\ poll \in [PushPollers -> PollRow]
    /\ pushEvents \in Nat
    /\ overtaken \in BOOLEAN

\* Nothing happens to a job before it is there, and every message that was
\* sent has its outcome.
Unmade == notice.kind = "none" => outbox.status = "none"
SentOK == \A w \in PushWorkers :
    pushJob[w].pc = "sent" => pushJob[w].outcome \in [pushJob[w].pending -> AllOutcomes]

\* Whoever has the job in hand holds its lease, unless the announcement was
\* deleted.
Lone == ~notice.deleted =>
    \A w \in PushWorkers : pushJob[w].pc # "idle" => HasLease(w)

\* Nobody is sending a deleted announcement.
Gone == notice.deleted =>
    /\ notice.kind = "announcement"
    /\ \A w \in PushWorkers : pushJob[w].pc \notin {"sending", "sent"}

\* What is about to be sent to is still to be sent to.
Ready == ~notice.deleted =>
    \A w \in PushWorkers : pushJob[w].pc \in {"picked", "sending", "sent"} =>
        \A t \in pushJob[w].pending : Retriable(t)

PushInv == PushType /\ Unmade /\ SentOK /\ (overtaken \/ (Lone /\ Gone /\ Ready))

-----------------------------------------------------------------------------
(* What a step does to one worker and to the rows.                          *)

\* How the rows move, as PushDelivery allows.
Moves == \A t \in PushTokens :
    Promise!May([status |-> delivery[t].status, tries |-> delivery[t].attempts],
                [status |-> delivery'[t].status, tries |-> delivery'[t].attempts])

Kept == PushInv' /\ (overtaken' \/ Moves)

LEMMA NoJobType == NoJob \in JobRow /\ NoJob.pc = "idle"
  <1>1. NoOutcome \in [{} -> AllOutcomes]
    BY DEF NoOutcome
  <1>2. NoOutcome \in UNION {[S -> AllOutcomes] : S \in SUBSET PushTokens}
    BY <1>1
  <1> HIDE DEF NoOutcome
  <1> QED BY <1>2 DEF NoJob, JobRow

LEMMA SamePushRows == ASSUME UNCHANGED delivery PROVE Moves
BY DEF Moves, Promise!May

\* The row of a worker after a step of it.
LEMMA OneJob ==
    ASSUME PushType, NEW w \in PushWorkers, NEW j \in JobRow,
           pushJob' = [pushJob EXCEPT ![w] = j]
    PROVE  /\ pushJob' \in [PushWorkers -> JobRow] /\ pushJob'[w] = j
           /\ \A v \in PushWorkers : v # w => pushJob'[v] = pushJob[v]
BY DEF PushType

\* A step of the worker alone: it goes on with the job it has in hand.
LEMMA PushWorkerStep ==
    ASSUME PushInv, NEW w \in PushWorkers, NEW j \in JobRow,
           pushJob' = [pushJob EXCEPT ![w] = j],
           UNCHANGED <<outbox, notice, poll, overtaken>>, pushEvents' \in Nat,
           delivery' \in [PushTokens -> DeliveryRow], active' \in SUBSET PushTokens,
           overtaken \/ Moves,
           j.pc # "idle" => pushJob[w].pc # "idle",
           j.pc \in {"sending", "sent"} =>
               pushJob[w].pc \in {"sending", "sent"} \/ ~notice.deleted
                  \/ notice.kind # "announcement",
           j.pc = "sent" => j.outcome \in [j.pending -> AllOutcomes],
           ~overtaken /\ ~notice.deleted =>
              /\ j.pc \in {"picked", "sending", "sent"} => \A t \in j.pending : Retriable(t)'
              /\ pushJob[w].pc # "idle"
    PROVE  Kept
  <1>1. /\ pushJob' \in [PushWorkers -> JobRow] /\ pushJob'[w] = j
        /\ \A v \in PushWorkers : v # w => pushJob'[v] = pushJob[v]
    BY OneJob DEF PushInv
  <1>2. PushType'
    BY <1>1 DEF PushInv, PushType
  <1>3. Unmade' /\ SentOK'
    BY <1>1 DEF PushInv, Unmade, SentOK
  <1>4. ASSUME ~overtaken PROVE Lone' /\ Gone' /\ Ready'
    <2>1. Lone /\ Gone /\ Ready
      BY <1>4 DEF PushInv
    <2>2. Lone'
      BY <1>1, <2>1 DEF Lone, HasLease
    <2>3. Gone'
      BY <1>1, <2>1 DEF Gone
    <2>4. Ready'
      <3>1. ASSUME ~notice.deleted, NEW v \in PushWorkers, v # w PROVE pushJob[v].pc = "idle"
        BY <1>4, <2>1, <3>1 DEF Lone, HasLease
      <3> QED BY <1>1, <1>4, <3>1 DEF Ready
    <2> QED BY <2>2, <2>3, <2>4
  <1> QED BY <1>2, <1>3, <1>4 DEF Kept, PushInv

\* The worker gives the job back, if it still has its lease, and is done.
LEMMA SettledStep ==
    ASSUME PushInv, NEW w \in PushWorkers, NEW status \in {"FAILED", "COMPLETED", "TERMINAL"},
           Settled(w, status), UNCHANGED <<delivery, active, notice, poll, overtaken>>,
           pushEvents' \in Nat
    PROVE  Kept
  <1>1. /\ pushJob' \in [PushWorkers -> JobRow] /\ pushJob'[w].pc = "idle"
        /\ \A v \in PushWorkers : v # w => pushJob'[v] = pushJob[v]
    BY OneJob, NoJobType DEF PushInv, Settled
  <1>2. outbox' = IF HasLease(w) THEN [outbox EXCEPT !.status = status, !.lease = NoLease]
                  ELSE outbox
    BY DEF Settled
  <1>3. PushType'
    BY <1>1, <1>2 DEF PushInv, PushType
  <1>4. Unmade' /\ SentOK'
    BY <1>1, <1>2 DEF PushInv, PushType, Unmade, SentOK, HasLease
  <1>5. ASSUME ~overtaken PROVE Lone' /\ Gone' /\ Ready'
    <2>1. Lone /\ Gone /\ Ready
      BY <1>5 DEF PushInv
    <2>2. Lone'
      BY <1>1, <1>2, <2>1 DEF Lone, HasLease
    <2>3. Gone' /\ Ready'
      BY <1>1, <2>1 DEF Gone, Ready, Retriable
    <2> QED BY <2>2, <2>3
  <1> QED BY <1>3, <1>4, <1>5, SamePushRows DEF Kept, PushInv

\* No worker moves, and no lease is given or taken.
LEMMA AroundStep ==
    ASSUME PushInv, UNCHANGED <<pushJob, overtaken>>, PushType', Unmade',
           overtaken \/ Moves,
           \A w \in PushWorkers : HasLease(w) => HasLease(w)',
           notice'.deleted = notice.deleted,
           ~overtaken /\ notice.deleted => notice'.kind = notice.kind,
           ~overtaken /\ ~notice.deleted => \A t \in PushTokens : Retriable(t) => Retriable(t)'
    PROVE  Kept
  <1>1. SentOK'
    BY DEF PushInv, SentOK
  <1>2. ASSUME ~overtaken PROVE Lone' /\ Gone' /\ Ready'
    <2>1. Lone /\ Gone /\ Ready
      BY <1>2 DEF PushInv
    <2>2. Lone'
      BY <2>1 DEF Lone
    <2>3. Gone'
      BY <1>2, <2>1 DEF Gone
    <2>4. Ready'
      <3>1. \A w \in PushWorkers : pushJob[w].pending \in SUBSET PushTokens
        BY DEF PushInv, PushType, JobRow
      <3> QED BY <1>2, <2>1, <3>1 DEF Ready
    <2> QED BY <2>2, <2>3, <2>4
  <1> QED BY <1>1, <1>2 DEF Kept, PushInv

\* The status of some rows is overwritten.
LEMMA Overwritten ==
    ASSUME PushType, NEW S, NEW status \in {"FAILED", "CONFIRMED", "TERMINAL"},
           Overwrite(S, status)
    PROVE  /\ delivery' \in [PushTokens -> DeliveryRow]
           /\ \A t \in PushTokens \cap S : /\ delivery'[t].status = status
                                           /\ delivery'[t].attempts = delivery[t].attempts
           /\ \A t \in PushTokens \ S : delivery'[t] = delivery[t]
  <1>1. delivery \in [PushTokens -> DeliveryRow]
    BY DEF PushType
  <1>2. ASSUME NEW t \in PushTokens
        PROVE  /\ [delivery[t] EXCEPT !.status = status] \in DeliveryRow
               /\ [delivery[t] EXCEPT !.status = status].status = status
               /\ [delivery[t] EXCEPT !.status = status].attempts = delivery[t].attempts
    BY <1>1 DEF DeliveryRow
  <1> QED BY <1>1, <1>2 DEF Overwrite

-----------------------------------------------------------------------------
(* The steps of the workers.                                                *)

LEMMA JobsTyped ==
    ASSUME PushInv, NEW w \in PushWorkers
    PROVE  /\ PushType /\ delivery \in [PushTokens -> DeliveryRow] /\ pushJob[w] \in JobRow
           /\ active \in SUBSET PushTokens /\ pushEvents \in Nat
BY DEF PushInv, PushType

LEMMA RowsTyped ==
    ASSUME PushInv
    PROVE  /\ PushType /\ delivery \in [PushTokens -> DeliveryRow]
           /\ active \in SUBSET PushTokens /\ pushEvents \in Nat
BY DEF PushInv, PushType

LEMMA ClaimJob ==
    ASSUME PushInv, NEW w \in PushWorkers, claimJob(w) PROVE Kept
  <1> DEFINE j == [pushJob[w] EXCEPT !.pc = "claimed"]
  <1>1. /\ pushJob' = [pushJob EXCEPT ![w] = j] /\ pushJob[w] = NoJob
        /\ outbox' = [outbox EXCEPT !.status = "PROCESSING", !.lease = w]
        /\ UNCHANGED <<delivery, active, notice, poll>>
    BY DEF claimJob
  <1>2. j \in JobRow /\ j.pc = "claimed"
    BY JobsTyped DEF JobRow
  <1> HIDE DEF j
  <1>3. /\ pushJob' \in [PushWorkers -> JobRow] /\ pushJob'[w] = j
        /\ \A v \in PushWorkers : v # w => pushJob'[v] = pushJob[v]
    BY <1>1, <1>2, OneJob DEF PushInv
  <1>4. PushType'
    <2>1. PushType
      BY DEF PushInv
    <2>2. overtaken' \in BOOLEAN
      <3>1. overtaken \in BOOLEAN
        BY <2>1 DEF PushType
      <3>2. overtaken' = overtaken \/ overtaken' = TRUE
        BY DEF claimJob
      <3> QED BY <3>1, <3>2
    <2>3. pushEvents' \in Nat
      BY <2>1 DEF claimJob, PushType
    <2> QED BY <1>1, <1>3, <2>1, <2>2, <2>3 DEF PushType
  <1>5. Unmade' /\ SentOK'
    BY <1>1, <1>2, <1>3 DEF claimJob, PushInv, Unmade, SentOK
  <1>6. ASSUME ~overtaken' PROVE Lone' /\ Gone' /\ Ready'
    <2>1. /\ ~overtaken /\ overtaken' = overtaken
          /\ \/ outbox.status \in {"PENDING", "FAILED"}
             \/ outbox.status = "PROCESSING" /\ ~Sending(outbox.lease)
      BY <1>6 DEF claimJob, PushInv, PushType
    <2>2. Lone /\ Gone /\ Ready
      BY <2>1 DEF PushInv
    <2>3. ASSUME ~notice.deleted, NEW v \in PushWorkers PROVE pushJob[v].pc = "idle"
      <3>1. SUFFICES ASSUME pushJob[v].pc # "idle" PROVE FALSE
        OBVIOUS
      <3>2. outbox.status = "PROCESSING" /\ outbox.lease = v
        BY <2>2, <2>3, <3>1 DEF Lone, HasLease
      <3> QED BY <2>1, <3>1, <3>2 DEF Sending
    <2>4. outbox'.status = "PROCESSING" /\ outbox'.lease = w
      BY <1>1 DEF PushInv, PushType
    <2>5. Lone'
      BY <1>1, <1>3, <2>3, <2>4 DEF Lone, HasLease
    <2>6. Gone'
      BY <1>1, <1>2, <1>3, <2>2 DEF Gone
    <2>7. Ready'
      BY <1>1, <1>2, <1>3, <2>3 DEF Ready
    <2> QED BY <2>5, <2>6, <2>7
  <1> QED BY <1>1, <1>4, <1>5, <1>6, SamePushRows DEF Kept, PushInv

LEMMA ListActiveTokens ==
    ASSUME PushInv, NEW w \in PushWorkers, listActiveTokens(w) PROVE Kept
  <1> DEFINE j == [pushJob[w] EXCEPT !.pc = "listed", !.listed = active]
  <1>1. /\ pushJob' = [pushJob EXCEPT ![w] = j] /\ pushJob[w].pc = "claimed"
        /\ UNCHANGED <<outbox, active, notice, poll, pushEvents, overtaken>>
    BY DEF listActiveTokens
  <1>2. j \in JobRow /\ j.pc = "listed"
    BY JobsTyped DEF JobRow
  <1> HIDE DEF j
  <1>3. delivery' \in [PushTokens -> DeliveryRow]
    BY JobsTyped DEF listActiveTokens, DeliveryRow
  <1>4. Moves
    BY DEF listActiveTokens, Moves, Promise!May
  <1> QED BY <1>1, <1>2, <1>3, <1>4, JobsTyped, PushWorkerStep

LEMMA PickDeliveries ==
    ASSUME PushInv, NEW w \in PushWorkers, pickDeliveries(w) PROVE Kept
  <1> DEFINE retriable == {t \in PushTokens : Retriable(t)}
             pending == retriable \cap pushJob[w].listed
             j == [pushJob[w] EXCEPT !.pc = IF pending = {} THEN "empty" ELSE "picked",
                                     !.listed = {}, !.pending = pending]
  <1>1. /\ pushJob' = [pushJob EXCEPT ![w] = j] /\ pushJob[w].pc = "listed"
        /\ Overwrite(retriable \ pushJob[w].listed, "TERMINAL")
        /\ UNCHANGED <<outbox, active, notice, poll, pushEvents, overtaken>>
    BY DEF pickDeliveries
  <1>2. j \in JobRow /\ j.pc \in {"empty", "picked"} /\ j.pending = pending
    BY JobsTyped DEF JobRow
  <1> HIDE DEF j
  <1>3. /\ delivery' \in [PushTokens -> DeliveryRow]
        /\ \A t \in PushTokens \cap (retriable \ pushJob[w].listed) :
              delivery'[t].status = "TERMINAL" /\ delivery'[t].attempts = delivery[t].attempts
        /\ \A t \in PushTokens \ (retriable \ pushJob[w].listed) : delivery'[t] = delivery[t]
    BY <1>1, JobsTyped, Overwritten
  <1>4. Moves
    BY <1>3 DEF Moves, Promise!May, Promise!Open, Retriable
  <1>5. \A t \in j.pending : Retriable(t)'
    BY <1>2, <1>3 DEF Retriable
  <1> QED BY <1>1, <1>2, <1>3, <1>4, <1>5, JobsTyped, PushWorkerStep

LEMMA RecheckLease ==
    ASSUME PushInv, NEW w \in PushWorkers, recheckLease(w) PROVE Kept
  <1>1. pushJob[w].pc = "picked" /\ UNCHANGED <<outbox, active, notice, poll, pushEvents, overtaken>>
    BY DEF recheckLease
  <1>2. CASE notice.kind = "announcement" /\ ~(HasLease(w) /\ ~notice.deleted)
    <2> DEFINE S == {t \in PushTokens : delivery[t].status \in {"PENDING", "FAILED"}
                                        /\ outbox.cancelled}
    <2>1. Overwrite(S, "TERMINAL") /\ pushJob' = [pushJob EXCEPT ![w] = NoJob]
      BY <1>2 DEF recheckLease
    <2>2. /\ delivery' \in [PushTokens -> DeliveryRow]
          /\ \A t \in PushTokens \cap S :
                delivery'[t].status = "TERMINAL" /\ delivery'[t].attempts = delivery[t].attempts
          /\ \A t \in PushTokens \ S : delivery'[t] = delivery[t]
      BY <2>1, JobsTyped, Overwritten
    <2>3. Moves
      BY <2>2 DEF Moves, Promise!May, Promise!Open
    <2> QED BY <1>1, <2>1, <2>2, <2>3, JobsTyped, NoJobType, PushWorkerStep
  <1>3. CASE ~(notice.kind = "announcement" /\ ~(HasLease(w) /\ ~notice.deleted))
    <2> DEFINE j == [pushJob[w] EXCEPT !.pc = "sending"]
    <2>1. pushJob' = [pushJob EXCEPT ![w] = j] /\ UNCHANGED delivery
      BY <1>3 DEF recheckLease
    <2>2. j \in JobRow /\ j.pc = "sending" /\ j.pending = pushJob[w].pending
      BY JobsTyped DEF JobRow
    <2> HIDE DEF j
    <2>3. ~overtaken /\ ~notice.deleted => \A t \in j.pending : Retriable(t)'
      BY <1>1, <2>1, <2>2 DEF PushInv, Ready, Retriable
    <2> QED BY <1>1, <1>3, <2>1, <2>2, <2>3, JobsTyped, SamePushRows, PushWorkerStep
  <1> QED BY <1>2, <1>3

LEMMA SendToTokens ==
    ASSUME PushInv, NEW w \in PushWorkers, sendToTokens(w) PROVE Kept
  <1>1. PICK outcome \in [pushJob[w].pending -> ExpoOutcomes \cup JPushOutcomes] :
           /\ pushJob' = [pushJob EXCEPT ![w].pc = "sent", ![w].outcome = outcome]
           /\ Disable({t \in pushJob[w].pending : outcome[t] = "dead"})
    BY DEF sendToTokens
  <1> DEFINE j == [pushJob[w] EXCEPT !.pc = "sent", !.outcome = outcome]
  <1>2. /\ pushJob' = [pushJob EXCEPT ![w] = j] /\ pushJob[w].pc = "sending"
        /\ UNCHANGED <<outbox, delivery, notice, poll, pushEvents, overtaken>>
    BY <1>1 DEF sendToTokens
  <1>3. outcome \in UNION {[S -> AllOutcomes] : S \in SUBSET PushTokens}
    <2>1. pushJob[w].pending \in SUBSET PushTokens
      BY JobsTyped DEF JobRow
    <2> QED BY <1>1, <2>1 DEF AllOutcomes
  <1>4. /\ j \in JobRow /\ j.pc = "sent" /\ j.pending = pushJob[w].pending
        /\ j.outcome = outcome
    BY <1>3, JobsTyped DEF JobRow
  <1> HIDE DEF j
  <1>5. j.outcome \in [j.pending -> AllOutcomes]
    BY <1>1, <1>4 DEF AllOutcomes
  <1>6. ~overtaken /\ ~notice.deleted => \A t \in j.pending : Retriable(t)'
    BY <1>2, <1>4 DEF PushInv, Ready, Retriable
  <1>7. active' \in SUBSET PushTokens
    BY <1>1, JobsTyped DEF Disable
  <1> QED BY <1>2, <1>4, <1>5, <1>6, <1>7, JobsTyped, SamePushRows, PushWorkerStep

LEMMA RecordOutcomes ==
    ASSUME PushInv, NEW w \in PushWorkers, recordOutcomes(w) PROVE Kept
  <1> DEFINE pending == pushJob[w].pending
             outcome == pushJob[w].outcome
             j == [pushJob[w] EXCEPT !.pc = "recorded",
                      !.pending = {t \in pending : outcome[t] = "retry"}, !.outcome = NoOutcome]
  <1>1. /\ pushJob' = [pushJob EXCEPT ![w] = j] /\ pushJob[w].pc = "sent"
        /\ UNCHANGED <<outbox, active, notice, poll, pushEvents, overtaken>>
        /\ delivery' = [t \in PushTokens |-> IF t \in pending THEN deliveryOutcomeWrite(w, t)
                                             ELSE delivery[t]]
    BY DEF recordOutcomes
  <1>2. pending \in SUBSET PushTokens /\ outcome \in [pending -> AllOutcomes]
    BY <1>1, JobsTyped DEF JobRow, PushInv, SentOK
  <1>3. j \in JobRow /\ j.pc = "recorded"
    <2>1. NoOutcome \in UNION {[S -> AllOutcomes] : S \in SUBSET PushTokens}
      BY NoJobType DEF NoJob, JobRow
    <2> HIDE DEF NoOutcome
    <2> QED BY <1>2, <2>1, JobsTyped DEF JobRow
  <1> HIDE DEF j
  <1>4. ASSUME NEW t \in pending
        PROVE  /\ delivery'[t].status \in {"SENT", "FAILED", "CONFIRMED", "TERMINAL"}
               /\ delivery'[t].attempts = delivery[t].attempts + 1
               /\ delivery'[t] \in DeliveryRow
    <2>1. OutcomeStatus(outcome[t]) \in {"SENT", "FAILED", "CONFIRMED", "TERMINAL"}
      BY <1>2 DEF AllOutcomes, ExpoOutcomes, JPushOutcomes, OutcomeStatus
    <2>2. t \in PushTokens /\ delivery[t].attempts \in Nat
      BY <1>2, JobsTyped DEF DeliveryRow
    <2>3. delivery'[t] = [status |-> OutcomeStatus(outcome[t]),
                          attempts |-> delivery[t].attempts + 1]
      BY <1>1, <2>2 DEF deliveryOutcomeWrite
    <2> QED BY <2>1, <2>2, <2>3 DEF DeliveryRow
  <1>5. \A t \in PushTokens \ pending : delivery'[t] = delivery[t]
    BY <1>1
  <1>6. delivery' \in [PushTokens -> DeliveryRow]
    <2>1. \A t \in PushTokens : delivery'[t] \in DeliveryRow
      BY <1>4, <1>5, JobsTyped
    <2>2. delivery' = [t \in PushTokens |-> delivery'[t]]
      BY <1>1
    <2> QED BY <2>1, <2>2
  <1>7. ASSUME ~overtaken PROVE Moves
    <2>1. \A t \in pending : Retriable(t)
      BY <1>1, <1>7 DEF PushInv, Gone, Ready
    <2> QED BY <1>4, <1>5, <2>1 DEF Moves, Promise!May, Promise!Open, Promise!Final, Retriable
  <1> QED BY <1>1, <1>3, <1>6, <1>7, JobsTyped, PushWorkerStep

LEMMA EndOfJob ==
    ASSUME PushInv, NEW w \in PushWorkers,
           isCirclePushSkipped(w) \/ finishEmpty(w) \/ finishJob(w) \/ failJob(w)
    PROVE  Kept
  <1>1. \/ Settled(w, "FAILED") \/ Settled(w, "COMPLETED") \/ Settled(w, "TERMINAL")
    BY DEF isCirclePushSkipped, finishEmpty, finishJob, failJob
  <1>2. UNCHANGED <<delivery, active, notice, poll, overtaken>> /\ pushEvents' \in Nat
    BY JobsTyped DEF isCirclePushSkipped, finishEmpty, finishJob, failJob
  <1> QED BY <1>1, <1>2, SettledStep

LEMMA Crash ==
    ASSUME PushInv, NEW w \in PushWorkers, PushCrash(w) PROVE Kept
  <1>1. /\ pushJob' = [pushJob EXCEPT ![w] = NoJob] /\ pushJob[w].pc # "idle"
        /\ UNCHANGED <<outbox, delivery, active, notice, poll, overtaken>>
        /\ pushEvents' \in Nat
    BY JobsTyped DEF PushCrash
  <1> QED BY <1>1, JobsTyped, NoJobType, SamePushRows, PushWorkerStep

-----------------------------------------------------------------------------
(* The steps of the pollers.                                                *)

\* A poller that touches neither the rows nor the job.
LEMMA PollsOnly ==
    ASSUME PushInv, NEW p \in PushPollers,
           pollReceiptBatch(p) \/ countRows(p) \/ \E t \in PushTokens : noReceipt(p, t)
    PROVE  Kept
  <1>1. UNCHANGED <<outbox, delivery, active, notice, pushJob, pushEvents, overtaken>>
    BY DEF pollReceiptBatch, countRows, noReceipt
  <1>2. NoPoll \in PollRow
    BY DEF NoPoll, PollRow
  <1>3. \A q \in PushPollers : poll[q] \in PollRow
    BY DEF PushInv, PushType
  <1>4. poll' \in [PushPollers -> PollRow]
    <2>1. CASE pollReceiptBatch(p)
      <3>1. PICK rows \in SUBSET PushTokens :
               poll' = [poll EXCEPT ![p] = [NoPoll EXCEPT !.pc = "asked", !.rows = rows]]
        BY <2>1 DEF pollReceiptBatch
      <3>2. [NoPoll EXCEPT !.pc = "asked", !.rows = rows] \in PollRow
        BY <1>2 DEF PollRow
      <3> QED BY <3>1, <3>2 DEF PushInv, PushType
    <2>2. CASE countRows(p)
      <3> DEFINE close == (\E t \in PushTokens : Exhausted(t)) /\ ~AwaitingReceipt
      <3>1. poll' = [poll EXCEPT ![p] = [NoPoll EXCEPT !.pc = "counted", !.close = close]]
        BY <2>2 DEF countRows
      <3>2. close \in BOOLEAN
        OBVIOUS
      <3> HIDE DEF close
      <3>3. [NoPoll EXCEPT !.pc = "counted", !.close = close] \in PollRow
        BY <1>2, <3>2 DEF PollRow
      <3> QED BY <3>1, <3>3 DEF PushInv, PushType
    <2>3. CASE \E t \in PushTokens : noReceipt(p, t)
      <3>1. PICK t \in PushTokens : poll' = [poll EXCEPT ![p].rows = @ \ {t}]
        BY <2>3 DEF noReceipt, Answered
      <3>2. [poll[p] EXCEPT !.rows = @ \ {t}] \in PollRow
        BY <1>3 DEF PollRow
      <3> QED BY <3>1, <3>2 DEF PushInv, PushType
    <2> QED BY <2>1, <2>2, <2>3
  <1>5. PushType'
    BY <1>1, <1>4 DEF PushInv, PushType
  <1>6. Unmade'
    BY <1>1 DEF PushInv, Unmade
  <1> QED BY <1>1, <1>5, <1>6, SamePushRows, AroundStep DEF HasLease, Retriable

\* The answer of a receipt.
LEMMA Receipt ==
    ASSUME PushInv, NEW p \in PushPollers, NEW t \in PushTokens,
           confirmReceipt(p, t) \/ deadReceipt(p, t) \/ retryReceipt(p, t)
    PROVE  Kept
  <1>1. UNCHANGED <<notice, pushJob, pushEvents, overtaken>> /\ Answered(p, t)
    BY DEF confirmReceipt, deadReceipt, retryReceipt
  <1>2. poll' \in [PushPollers -> PollRow]
    <2>1. [poll[p] EXCEPT !.rows = @ \ {t}] \in PollRow
      BY DEF PushInv, PushType, PollRow
    <2> QED BY <1>1, <2>1 DEF Answered, PushInv, PushType
  <1>3. active' \in SUBSET PushTokens
    BY RowsTyped DEF confirmReceipt, deadReceipt, retryReceipt, Disable
  <1>4. outbox' = outbox \/ (outbox.status = "COMPLETED"
                               /\ outbox' = [outbox EXCEPT !.status = "PENDING"])
    BY DEF confirmReceipt, deadReceipt, retryReceipt
  <1>5. /\ delivery' \in [PushTokens -> DeliveryRow]
        /\ \A x \in PushTokens :
              \/ delivery'[x] = delivery[x]
              \/ /\ delivery[x].status = "SENT"
                 /\ delivery'[x].status \in {"FAILED", "CONFIRMED", "TERMINAL"}
                 /\ delivery'[x].attempts = delivery[x].attempts
    <2> DEFINE S == {t} \cap {x \in PushTokens : delivery[x].status = "SENT"}
    <2>1. CASE delivery[t].status = "SENT"
      <3>1. S = {t}
        BY <2>1
      <3>2. \E status \in {"FAILED", "CONFIRMED", "TERMINAL"} : Overwrite({t}, status)
        BY <2>1, <3>1 DEF confirmReceipt, deadReceipt, retryReceipt
      <3> QED BY <2>1, <3>2, RowsTyped, Overwritten
    <2>2. CASE delivery[t].status # "SENT"
      <3>1. S = {}
        BY <2>2
      <3>2. UNCHANGED delivery \/ \E status \in {"CONFIRMED", "TERMINAL"} : Overwrite({}, status)
        BY <2>2, <3>1 DEF confirmReceipt, deadReceipt, retryReceipt
      <3> QED BY <3>2, RowsTyped, Overwritten
    <2> QED BY <2>1, <2>2
  <1>6. Moves
    BY <1>5 DEF Moves, Promise!May, Promise!Final
  <1>7. PushType'
    BY <1>1, <1>2, <1>3, <1>4, <1>5 DEF PushInv, PushType
  <1>8. Unmade' /\ \A w \in PushWorkers : HasLease(w) => HasLease(w)'
    BY <1>1, <1>4 DEF PushInv, PushType, Unmade, HasLease
  <1>9. \A x \in PushTokens : Retriable(x) => Retriable(x)'
    BY <1>5 DEF Retriable
  <1> QED BY <1>1, <1>6, <1>7, <1>8, <1>9, AroundStep

LEMMA Reconcile ==
    ASSUME PushInv, NEW p \in PushPollers, reconcileCompletedOutboxes(p) PROVE Kept
  <1>1. /\ UNCHANGED <<delivery, active, notice, pushJob, pushEvents, overtaken>>
        /\ poll' = [poll EXCEPT ![p] = NoPoll]
        /\ outbox' = outbox \/ (outbox.status = "COMPLETED"
                                  /\ outbox' = [outbox EXCEPT !.status = "TERMINAL"])
    BY DEF reconcileCompletedOutboxes
  <1>2. NoPoll \in PollRow
    BY DEF NoPoll, PollRow
  <1>3. PushType'
    BY <1>1, <1>2 DEF PushInv, PushType
  <1>4. Unmade' /\ \A w \in PushWorkers : HasLease(w) => HasLease(w)'
    BY <1>1 DEF PushInv, PushType, Unmade, HasLease
  <1> QED BY <1>1, <1>3, <1>4, SamePushRows, AroundStep DEF Retriable

-----------------------------------------------------------------------------
(* The steps around the job.                                                *)

LEMMA Tokens ==
    ASSUME PushInv, NEW t \in PushTokens, registerPushToken(t) \/ ForgetToken(t) PROVE Kept
  <1>1. /\ UNCHANGED <<outbox, delivery, notice, pushJob, poll, overtaken>>
        /\ active' \in SUBSET PushTokens /\ pushEvents' \in Nat
    BY RowsTyped DEF registerPushToken, ForgetToken
  <1>2. PushType'
    BY <1>1 DEF PushInv, PushType
  <1>3. Unmade'
    BY <1>1 DEF PushInv, Unmade
  <1> QED BY <1>1, <1>2, <1>3, SamePushRows, AroundStep DEF HasLease, Retriable

LEMMA CreateNotification ==
    ASSUME PushInv, NEW kind \in PushKinds, createNotification(kind) PROVE Kept
  <1>1. /\ UNCHANGED <<delivery, active, pushJob, poll, pushEvents, overtaken>>
        /\ notice.kind = "none" /\ notice' = [notice EXCEPT !.kind = kind]
        /\ outbox.status = "none" /\ outbox' = [outbox EXCEPT !.status = "PENDING"]
    BY DEF createNotification, PushInv, Unmade
  <1>2. PushType'
    BY <1>1 DEF PushInv, PushType
  <1>3. Unmade' /\ notice'.deleted = notice.deleted
    BY <1>1, PushAssumption DEF PushInv, PushType, Unmade
  <1>4. ~overtaken => ~notice.deleted
    BY <1>1 DEF PushInv, Gone
  <1> QED BY <1>1, <1>2, <1>3, <1>4, SamePushRows, AroundStep DEF HasLease, Retriable

LEMMA RetryPush ==
    ASSUME PushInv, retryPush PROVE Kept
  <1>1. /\ UNCHANGED <<active, notice, pushJob, poll, overtaken>> /\ pushEvents' \in Nat
        /\ outbox.status = "FAILED"
        /\ outbox' = [outbox EXCEPT !.status = "PENDING", !.lease = NoLease]
    BY RowsTyped DEF retryPush
  <1>2. \A t \in PushTokens : delivery[t] \in DeliveryRow
    BY DEF PushInv, PushType
  <1>3. \A t \in PushTokens :
           /\ delivery'[t] \in DeliveryRow
           /\ \/ delivery'[t] = delivery[t]
              \/ /\ delivery[t].status = "FAILED" /\ delivery'[t].status = "FAILED"
                 /\ delivery'[t].attempts = 0
    BY <1>2 DEF retryPush, DeliveryRow
  <1>4. delivery' \in [PushTokens -> DeliveryRow]
    BY <1>3 DEF retryPush
  <1>5. Moves
    BY <1>3 DEF Moves, Promise!May
  <1>6. PushType'
    BY <1>1, <1>4 DEF PushInv, PushType
  <1>7. Unmade'
    BY <1>1 DEF PushInv, Unmade
  <1>8. \A t \in PushTokens : Retriable(t) => Retriable(t)'
    BY <1>2, <1>3, PushAssumption DEF Retriable, DeliveryRow
  <1> QED BY <1>1, <1>5, <1>6, <1>7, <1>8, AroundStep DEF HasLease

\* The lease is gone, but whoever had it has not begun to send.
LEMMA DeleteAnnouncement ==
    ASSUME PushInv, deleteAnnouncement PROVE Kept
  <1> DEFINE S == {t \in PushTokens : delivery[t].status \in {"PENDING", "FAILED"}}
             caught == \E w \in PushWorkers : pushJob[w].pc \in {"sending", "sent"}
  <1>1. /\ UNCHANGED <<active, pushJob, poll, pushEvents>>
        /\ notice.kind = "announcement" /\ notice' = [notice EXCEPT !.deleted = TRUE]
        /\ outbox' = outbox \/ outbox' = [status |-> "TERMINAL", lease |-> NoLease, cancelled |-> TRUE]
        /\ Overwrite(S, "TERMINAL")
    BY DEF deleteAnnouncement
  <1>2. overtaken' = (overtaken \/ caught)
    BY DEF deleteAnnouncement
  <1>3. /\ delivery' \in [PushTokens -> DeliveryRow]
        /\ \A t \in PushTokens \cap S :
              delivery'[t].status = "TERMINAL" /\ delivery'[t].attempts = delivery[t].attempts
        /\ \A t \in PushTokens \ S : delivery'[t] = delivery[t]
    BY <1>1, RowsTyped, Overwritten
  <1>4. Moves
    BY <1>3 DEF Moves, Promise!May, Promise!Open
  <1>5. PushType'
    <2>1. overtaken' \in BOOLEAN
      <3> HIDE DEF caught
      <3>1. CASE overtaken \/ caught
        <4>1. overtaken' = TRUE
          BY <1>2, <3>1
        <4> QED BY <4>1
      <3>2. CASE ~(overtaken \/ caught)
        <4>1. overtaken' = FALSE
          BY <1>2, <3>2
        <4> QED BY <4>1
      <3> QED BY <3>1, <3>2
    <2>2. outbox' \in [status : {"none", "PENDING", "FAILED", "PROCESSING", "COMPLETED", "TERMINAL"},
                       lease : PushWorkers \cup {NoLease}, cancelled : BOOLEAN]
      <3>1. outbox' = outbox \/ outbox' = [status |-> "TERMINAL", lease |-> NoLease, cancelled |-> TRUE]
        BY <1>1
      <3>2. [status |-> "TERMINAL", lease |-> NoLease, cancelled |-> TRUE] \in
                [status : {"none", "PENDING", "FAILED", "PROCESSING", "COMPLETED", "TERMINAL"},
                 lease : PushWorkers \cup {NoLease}, cancelled : BOOLEAN]
        OBVIOUS
      <3> QED BY <3>1, <3>2 DEF PushInv, PushType
    <2>3. notice' \in [kind : PushKinds \cup {"none"}, deleted : BOOLEAN]
      BY <1>1 DEF PushInv, PushType
    <2> HIDE DEF S, caught
    <2> QED BY <1>1, <1>3, <2>1, <2>2, <2>3 DEF PushInv, PushType
  <1>6. Unmade' /\ SentOK'
    BY <1>1 DEF PushInv, PushType, Unmade, SentOK
  <1>7. notice'.deleted = TRUE /\ notice'.kind = "announcement"
    BY <1>1 DEF PushInv, PushType
  <1>8. ASSUME ~overtaken' PROVE Lone' /\ Gone' /\ Ready'
    <2>1. ~caught
      BY <1>2, <1>8
    <2>2. Gone'
      BY <1>1, <1>7, <2>1 DEF Gone
    <2> QED BY <1>7, <2>2 DEF Lone, Ready
  <1> QED BY <1>4, <1>5, <1>6, <1>8 DEF Kept, PushInv

-----------------------------------------------------------------------------
(* The theorems about the outbox.                                           *)

LEMMA InitStep == ASSUME PushInit PROVE PushInv /\ Promise!Init
  <1>1. PushType
    <2>1. pushJob \in [PushWorkers -> JobRow]
      BY NoJobType DEF PushInit
    <2>2. NoPoll \in PollRow
      BY DEF NoPoll, PollRow
    <2> QED BY <2>1, <2>2 DEF PushInit, PushType, DeliveryRow
  <1>2. \A w \in PushWorkers : pushJob[w].pc = "idle"
    BY NoJobType DEF PushInit
  <1>3. Unmade /\ SentOK /\ Lone /\ Gone /\ Ready
    BY <1>2 DEF PushInit, Unmade, SentOK, Lone, Gone, Ready
  <1>4. Promise!Init
    BY DEF PushInit, Promise!Init
  <1> QED BY <1>1, <1>3, <1>4 DEF PushInv

LEMMA NextStep == ASSUME PushInv, [PushNext]_pushVars PROVE Kept
  <1>1. ASSUME NEW w \in PushWorkers, claimJob(w) \/ Works(w) \/ failJob(w) \/ PushCrash(w)
        PROVE  Kept
    BY <1>1, ClaimJob, ListActiveTokens, PickDeliveries, RecheckLease, SendToTokens,
       RecordOutcomes, EndOfJob, Crash DEF Works
  <1>2. ASSUME NEW p \in PushPollers,
               \/ pollReceiptBatch(p) \/ countRows(p) \/ reconcileCompletedOutboxes(p)
               \/ \E t \in PushTokens : \/ confirmReceipt(p, t) \/ deadReceipt(p, t)
                                        \/ retryReceipt(p, t) \/ noReceipt(p, t)
        PROVE  Kept
    BY <1>2, PollsOnly, Receipt, Reconcile
  <1>3. ASSUME NEW t \in PushTokens,
               registerPushToken(t) \/ deletePushToken(t) \/ deleteStaleTokens(t)
        PROVE  Kept
    BY <1>3, Tokens DEF deletePushToken, deleteStaleTokens
  <1>4. CASE UNCHANGED pushVars
    <2>1. UNCHANGED <<outbox, delivery, active, notice, pushJob, poll, pushEvents, overtaken>>
      BY <1>4 DEF pushVars
    <2>2. PushType'
      BY <2>1 DEF PushInv, PushType
    <2>3. Unmade'
      BY <2>1 DEF PushInv, Unmade
    <2> QED BY <2>1, <2>2, <2>3, SamePushRows, AroundStep DEF HasLease, Retriable
  <1> QED BY <1>1, <1>2, <1>3, <1>4, CreateNotification, DeleteAnnouncement, RetryPush
          DEF PushNext

\* A lease once outlived stays so.
LEMMA OvertakenStays == ASSUME PushInv, [PushNext]_pushVars, overtaken PROVE overtaken'
BY DEF PushNext, Works, claimJob, isCirclePushSkipped, listActiveTokens, pickDeliveries, finishEmpty,
       recheckLease, sendToTokens, recordOutcomes, finishJob, failJob, PushCrash, pollReceiptBatch,
       countRows, reconcileCompletedOutboxes, confirmReceipt, deadReceipt, retryReceipt, noReceipt,
       registerPushToken, deletePushToken, deleteStaleTokens, ForgetToken, createNotification,
       deleteAnnouncement, retryPush, pushVars

\* The invariant of the outbox: unless a worker outlived its lease, one worker
\* at a time has the job in hand (claimJob), and what it is about to send to
\* is still to be sent to when it sends (pickDeliveries, recheckLease).
THEOREM PushInvariant == PushSpec => []PushInv
  <1>1. PushInit => PushInv
    BY InitStep
  <1>2. PushInv /\ [PushNext]_pushVars => PushInv'
    BY NextStep DEF Kept
  <1> QED BY <1>1, <1>2, PTL DEF PushSpec

\* The outbox implements PushDelivery: whatever is retried, opened again,
\* polled, deleted or crashes, a device whose push is out is not pushed to
\* again (processPending, pollReceipts, deleteAnnouncement, retryPush).
THEOREM PromiseKept == PushSpec => KeepsPromise
  <1>1. PushInit => Promise!Init
    BY InitStep
  <1>2. ASSUME PushInv, [PushNext]_pushVars PROVE Promise!Next
    <2>1. Kept
      BY <1>2, NextStep
    <2>2. overtaken \in BOOLEAN /\ overtaken' \in BOOLEAN
      BY <1>2, <2>1 DEF Kept, PushInv, PushType
    <2>3. CASE overtaken'
      BY <2>2, <2>3 DEF Promise!Next, Promise!Tear
    <2>4. CASE ~overtaken'
      <3>1. overtaken' = overtaken
        <4>1. overtaken => overtaken'
          BY <1>2, OvertakenStays
        <4> QED BY <2>2, <2>4, <4>1
      <3>2. Moves
        BY <2>1, <2>4 DEF Kept
      <3> QED BY <3>1, <3>2 DEF Promise!Next, Promise!Kept, Moves
    <2> QED BY <2>3, <2>4
  <1>3. PushInv /\ [PushNext]_pushVars =>
            [Promise!Next]_<<[t \in PushTokens |-> [status |-> delivery[t].status,
                                                    tries |-> delivery[t].attempts]], overtaken>>
    BY <1>2
  <1> QED BY <1>1, <1>3, PushInvariant, PTL DEF PushSpec, KeepsPromise, Promise!Spec

-----------------------------------------------------------------------------
(* Friendship: beginnings of a thread.                                      *)

Texts == {"clean", "blocked"}
Ids == ({"message"} \X Nat) \cup {<<"greeting", 0>>, <<"reply", 0>>}

Has(ids, id) == \E n \in 1..Len(ids) : ids[n] = id

Inserted(ids, id) == IF Has(ids, id) THEN ids ELSE Append(ids, id)

\* One place of the chat is right.
Place(id, n, msgs) ==
    \/ msgs # <<>> /\ id[1] = "message" /\ id[2] \in CleanIndices(msgs)
                   /\ Before(id[2], msgs) = n
    \/ msgs # <<>> /\ id[1] = "reply" /\ n = 1 + Cardinality(CleanIndices(msgs))
    \/ msgs = <<>> /\ id[1] \in {"greeting", "reply"}

\* The chat ids holds the thread msgs in its order.
InOrder(ids, msgs) ==
    \A n \in 1..Len(ids) :
        /\ Place(ids[n], n, msgs)
        /\ msgs = <<>> => \A m \in 1..(n - 1) : ids[m] # ids[n]

\* The clean messages up to the i-th message are in the chat; or all are.
Upto(ids, msgs, i) == \A k \in CleanIndices(msgs) : k <= i => Has(ids, <<"message", k>>)
All(ids, msgs) == \A k \in CleanIndices(msgs) : Has(ids, <<"message", k>>)

LEMMA CleanAre ==
    ASSUME NEW msgs \in Seq(Texts)
    PROVE  /\ Len(msgs) \in Nat /\ CleanIndices(msgs) \subseteq 1..Len(msgs)
           /\ IsFiniteSet(CleanIndices(msgs)) /\ Cardinality(CleanIndices(msgs)) \in Nat
           /\ msgs = <<>> => CleanIndices(msgs) = {}
  <1>1. Len(msgs) \in Nat /\ (msgs = <<>> => Len(msgs) = 0)
    BY LenProperties, EmptySeq
  <1>2. CleanIndices(msgs) \subseteq 1..Len(msgs)
    BY DEF CleanIndices
  <1>3. IsFiniteSet(1..Len(msgs))
    BY <1>1, FS_Interval
  <1>4. IsFiniteSet(CleanIndices(msgs))
    BY <1>2, <1>3, FS_Subset
  <1>5. Cardinality(CleanIndices(msgs)) \in Nat
    BY <1>4, FS_CardinalityType
  <1>6. ASSUME msgs = <<>> PROVE CleanIndices(msgs) = {}
    BY <1>1, <1>2, <1>6
  <1> QED BY <1>1, <1>2, <1>4, <1>5, <1>6

\* The clean messages up to the k-th.
CleanUpto(msgs, k) == {i \in CleanIndices(msgs) : i <= k}

\* A place of its own for every clean message.
LEMMA Places ==
    ASSUME NEW msgs \in Seq(Texts), NEW i \in CleanIndices(msgs), NEW k \in CleanIndices(msgs)
    PROVE  /\ Before(k, msgs) \in 1..Cardinality(CleanIndices(msgs))
           /\ IsFiniteSet(CleanUpto(msgs, k)) /\ Before(k, msgs) = Cardinality(CleanUpto(msgs, k))
           /\ i < k => Before(i, msgs) < Before(k, msgs)
           /\ i # k => Before(i, msgs) # Before(k, msgs)
  <1>1. i \in Nat /\ k \in Nat
    BY CleanAre
  <1>2. \A j \in CleanIndices(msgs) :
          /\ IsFiniteSet(CleanUpto(msgs, j)) /\ Before(j, msgs) = Cardinality(CleanUpto(msgs, j))
          /\ Before(j, msgs) \in Nat
          /\ Before(j, msgs) <= Cardinality(CleanIndices(msgs))
    <2> TAKE j \in CleanIndices(msgs)
    <2>1. CleanUpto(msgs, j) \in SUBSET CleanIndices(msgs)
      BY DEF CleanUpto
    <2>2. /\ IsFiniteSet(CleanUpto(msgs, j))
          /\ Cardinality(CleanUpto(msgs, j)) <= Cardinality(CleanIndices(msgs))
      BY <2>1, CleanAre, FS_Subset
    <2>3. Before(j, msgs) = Cardinality(CleanUpto(msgs, j))
      BY DEF Before, CleanUpto
    <2> QED BY <2>2, <2>3, FS_CardinalityType
  <1>3. Before(k, msgs) > 0
    <2>1. k \in CleanUpto(msgs, k)
      BY <1>1 DEF CleanUpto
    <2>2. Cardinality(CleanUpto(msgs, k)) # 0
      BY <2>1, <1>2, FS_EmptySet
    <2> QED BY <2>2, <1>2
  <1>4. \A a, b \in CleanIndices(msgs) : a < b => Before(a, msgs) < Before(b, msgs)
    <2> SUFFICES ASSUME NEW a \in CleanIndices(msgs), NEW b \in CleanIndices(msgs), a < b
                 PROVE  Before(a, msgs) < Before(b, msgs)
      OBVIOUS
    <2>0. a \in Nat /\ b \in Nat /\ \A j \in CleanIndices(msgs) : j \in Nat
      BY CleanAre
    <2>1. CleanUpto(msgs, a) \in SUBSET CleanUpto(msgs, b)
      <3>1. \A j \in CleanIndices(msgs) : j <= a => j <= b
        BY <2>0
      <3> QED BY <3>1 DEF CleanUpto
    <2>2. b \in CleanUpto(msgs, b) /\ b \notin CleanUpto(msgs, a)
      BY <2>0 DEF CleanUpto
    <2>3. /\ Cardinality(CleanUpto(msgs, a)) <= Cardinality(CleanUpto(msgs, b))
          /\ Cardinality(CleanUpto(msgs, a)) # Cardinality(CleanUpto(msgs, b))
      BY <2>1, <2>2, <1>2, FS_Subset
    <2> QED BY <2>3, <1>2
  <1>5. ASSUME i # k PROVE Before(i, msgs) # Before(k, msgs)
    <2>1. i < k \/ k < i
      BY <1>1, <1>5
    <2> QED BY <2>1, <1>2, <1>4
  <1> QED BY <1>2, <1>3, <1>4, <1>5

\* As many places as messages that are in the chat.
LEMMA PlacesTaken ==
    ASSUME NEW msgs \in Seq(Texts), NEW ids \in Seq(Ids), InOrder(ids, msgs),
           NEW S \in SUBSET CleanIndices(msgs), \A i \in S : Has(ids, <<"message", i>>)
    PROVE  IsFiniteSet(S) /\ Cardinality(S) <= Len(ids)
  <1>1. Len(ids) \in Nat
    BY LenProperties
  <1>2. IsFiniteSet(S) /\ Cardinality(S) \in Nat
    BY CleanAre, FS_Subset, FS_CardinalityType
  <1>3. IsFiniteSet(1..Len(ids)) /\ Cardinality(1..Len(ids)) = Len(ids)
    <2>1. 1 \in Int /\ Len(ids) \in Int
      BY <1>1
    <2>2. /\ IsFiniteSet(1..Len(ids))
          /\ Cardinality(1..Len(ids)) = IF 1 > Len(ids) THEN 0 ELSE Len(ids) - 1 + 1
      BY <2>1, FS_Interval
    <2> QED BY <1>1, <2>2
  <1> DEFINE place == [i \in S |-> Before(i, msgs)]
  <1>4. \A i \in S : Before(i, msgs) \in 1..Len(ids)
    <2> TAKE i \in S
    <2>1. PICK n \in 1..Len(ids) : ids[n] = <<"message", i>>
      BY DEF Has
    <2>2. ids[n][1] = "message" /\ ids[n][2] = i
      BY <2>1
    <2>3. msgs # <<>>
      BY CleanAre
    <2>4. Before(i, msgs) = n
      BY <2>2, <2>3 DEF InOrder, Place
    <2> QED BY <2>4
  <1>5. place \in [S -> 1..Len(ids)]
    BY <1>4
  <1>6. \A i, k \in S : i # k => place[i] # place[k]
    BY Places
  <1> HIDE DEF place
  <1>7. ~(Len(ids) < Cardinality(S))
    BY <1>2, <1>3, <1>5, <1>6, FS_PigeonHole
  <1> QED BY <1>1, <1>2, <1>7

-----------------------------------------------------------------------------
(* What is not there yet is inserted at its place.                          *)

LEMMA MessagePlace ==
    ASSUME NEW msgs \in Seq(Texts), NEW ids \in Seq(Ids), InOrder(ids, msgs),
           NEW k \in CleanIndices(msgs), Upto(ids, msgs, k - 1), ~Has(ids, <<"message", k>>)
    PROVE  Before(k, msgs) = Len(ids) + 1
  <1>1. Len(ids) \in Nat /\ k \in Nat /\ Before(k, msgs) \in Nat
    BY LenProperties, CleanAre, Places
  <1>2. Before(k, msgs) - 1 <= Len(ids)
    <2> DEFINE S == CleanUpto(msgs, k) \ {k}
    <2>1. S \in SUBSET CleanIndices(msgs)
      BY DEF CleanUpto
    <2>2. \A i \in S : Has(ids, <<"message", i>>)
      <3> TAKE i \in S
      <3>1. i \in CleanIndices(msgs) /\ i \in Nat /\ i <= k - 1
        BY <1>1, CleanAre DEF CleanUpto
      <3> QED BY <3>1 DEF Upto
    <2>3. k \in CleanUpto(msgs, k)
      BY <1>1 DEF CleanUpto
    <2>4. Cardinality(S) = Before(k, msgs) - 1
      <3>1. /\ IsFiniteSet(CleanUpto(msgs, k))
            /\ Before(k, msgs) = Cardinality(CleanUpto(msgs, k))
        BY Places
      <3> QED BY <2>3, <3>1, FS_RemoveElement
    <2> HIDE DEF S
    <2>5. Cardinality(S) <= Len(ids)
      BY <2>1, <2>2, PlacesTaken
    <2> QED BY <2>4, <2>5
  <1>3. ASSUME Before(k, msgs) \in 1..Len(ids) PROVE FALSE
    <2> DEFINE n == Before(k, msgs)
    <2>0. n \in 1..Cardinality(CleanIndices(msgs)) /\ msgs # <<>>
      BY Places, CleanAre
    <2>1. CASE ids[n][1] = "message" /\ ids[n][2] \in CleanIndices(msgs)
               /\ Before(ids[n][2], msgs) = n
      <3>1. ids[n][2] = k
        BY <2>1, Places
      <3>2. ids[n] \in Ids
        BY <1>3, ElementOfSeq
      <3>3. ids[n] = <<"message", k>>
        BY <2>1, <3>1, <3>2 DEF Ids
      <3> QED BY <1>3, <3>3 DEF Has
    <2>2. CASE n = 1 + Cardinality(CleanIndices(msgs))
      BY <2>0, <2>2, CleanAre
    <2> HIDE DEF n
    <2>3. n \in 1..Len(ids)
      BY <1>3 DEF n
    <2> QED BY <2>0, <2>1, <2>2, <2>3 DEF InOrder, Place
  <1>4. Before(k, msgs) > 0
    BY Places
  <1> QED BY <1>1, <1>2, <1>3, <1>4

LEMMA ReplyPlace ==
    ASSUME NEW msgs \in Seq(Texts), msgs # <<>>, NEW ids \in Seq(Ids), InOrder(ids, msgs),
           All(ids, msgs), ~Has(ids, <<"reply", 0>>)
    PROVE  Len(ids) = Cardinality(CleanIndices(msgs))
  <1> DEFINE full == Cardinality(CleanIndices(msgs))
  <1>1. Len(ids) \in Nat /\ full \in Nat
    BY LenProperties, CleanAre
  <1>2. full <= Len(ids)
    BY PlacesTaken DEF All
  <1>3. ASSUME full + 1 \in 1..Len(ids) PROVE FALSE
    <2>1. CASE /\ ids[full + 1][2] \in CleanIndices(msgs)
               /\ Before(ids[full + 1][2], msgs) = full + 1
      <3>1. full + 1 \in 1..Cardinality(CleanIndices(msgs))
        BY <2>1, Places
      <3> QED BY <1>1, <3>1
    <2>2. CASE ids[full + 1][1] = "reply"
      <3>1. ids[full + 1] \in Ids
        BY <1>3, ElementOfSeq
      <3>2. ids[full + 1] = <<"reply", 0>>
        BY <2>2, <3>1 DEF Ids
      <3> QED BY <1>3, <3>2 DEF Has
    <2> HIDE DEF full
    <2> QED BY <1>3, <2>1, <2>2 DEF InOrder, Place
  <1> HIDE DEF full
  <1>4. Len(ids) = full
    BY <1>1, <1>2, <1>3
  <1> QED BY <1>4 DEF full

LEMMA Inserting ==
    ASSUME NEW ids \in Seq(Ids), NEW id \in Ids
    PROVE  /\ Inserted(ids, id) \in Seq(Ids) /\ Has(Inserted(ids, id), id)
           /\ \A x : Has(ids, x) => Has(Inserted(ids, id), x)
  <1>1. CASE Has(ids, id)
    BY <1>1 DEF Inserted
  <1>2. CASE ~Has(ids, id)
    <2>1. Inserted(ids, id) = Append(ids, id)
      BY <1>2 DEF Inserted
    <2>2. /\ Append(ids, id) \in Seq(Ids) /\ Len(Append(ids, id)) = Len(ids) + 1
          /\ \A n \in 1..Len(ids) : Append(ids, id)[n] = ids[n]
          /\ Append(ids, id)[Len(ids) + 1] = id
      BY AppendProperties
    <2>3. Len(ids) \in Nat
      BY LenProperties
    <2>4. Has(Append(ids, id), id)
      <3>1. Len(ids) + 1 \in 1..Len(Append(ids, id))
        BY <2>2, <2>3
      <3> QED BY <2>2, <3>1 DEF Has
    <2>5. ASSUME NEW x, Has(ids, x) PROVE Has(Append(ids, id), x)
      <3>1. PICK n \in 1..Len(ids) : ids[n] = x
        BY <2>5 DEF Has
      <3>2. n \in 1..Len(Append(ids, id)) /\ Append(ids, id)[n] = x
        BY <2>2, <2>3, <3>1
      <3> QED BY <3>2 DEF Has
    <2> QED BY <2>1, <2>2, <2>4, <2>5
  <1> QED BY <1>1, <1>2

LEMMA InsertedInOrder ==
    ASSUME NEW msgs \in Seq(Texts), NEW ids \in Seq(Ids), NEW id \in Ids, InOrder(ids, msgs),
           ~Has(ids, id) => Place(id, Len(ids) + 1, msgs)
    PROVE  InOrder(Inserted(ids, id), msgs)
  <1>1. CASE Has(ids, id)
    BY <1>1 DEF Inserted
  <1>2. CASE ~Has(ids, id)
    <2>1. Inserted(ids, id) = Append(ids, id)
      BY <1>2 DEF Inserted
    <2>2. /\ Len(Append(ids, id)) = Len(ids) + 1 /\ Len(ids) \in Nat
          /\ \A n \in 1..Len(ids) : Append(ids, id)[n] = ids[n]
          /\ Append(ids, id)[Len(ids) + 1] = id
      BY AppendProperties, LenProperties
    <2>3. \A n \in 1..Len(ids) : Place(ids[n], n, msgs)
      BY DEF InOrder
    <2>4. \A n \in 1..Len(Append(ids, id)) : Place(Append(ids, id)[n], n, msgs)
      BY <1>2, <2>2, <2>3
    <2>5. ASSUME msgs = <<>>, NEW n \in 1..Len(Append(ids, id)), NEW m \in 1..(n - 1)
          PROVE  Append(ids, id)[m] # Append(ids, id)[n]
      <3>1. m \in 1..Len(ids) /\ Append(ids, id)[m] = ids[m]
        BY <2>2
      <3>2. CASE n \in 1..Len(ids)
        BY <2>2, <2>5, <3>1, <3>2 DEF InOrder
      <3>3. CASE n = Len(ids) + 1
        BY <1>2, <2>2, <3>1, <3>3 DEF Has
      <3> QED BY <2>2, <3>2, <3>3
    <2> QED BY <2>1, <2>4, <2>5 DEF InOrder
  <1> QED BY <1>1, <1>2

-----------------------------------------------------------------------------
(* The inductive invariant of requests and their replay.                    *)

FriendRecords == [sender : Pals, state : {"PENDING", "ACCEPTED", "WITHDRAWN", "REJECTED", "DELETED"}]
Replays == [status : {"none", "PENDING", "PROCESSING", "FAILED", "COMPLETED"}, stage : Nat,
            index : Nat, lease : ReplayWorkers \cup {Nobody}]
Copying == [step : {"rest", "claim", "start", "read", "copy", "saveMessage", "saveThread",
                    "reply", "complete"},
            row : Nat, seen : Replays, stage : Nat, index : Nat, read : Seq(Texts)]

FriendType ==
    /\ friendRows \in Seq(FriendRecords) /\ thread \in Seq(Seq(Texts))
    /\ replay \in Seq(Replays) /\ copied \in Seq(Seq(Ids))
    /\ Len(thread) = Len(friendRows) /\ Len(replay) = Len(friendRows)
    /\ Len(copied) = Len(friendRows)
    /\ worker \in [ReplayWorkers -> Copying]
    /\ blocks \in SUBSET Pals /\ sending \in SUBSET Pals /\ friendEvents \in Nat

\* How far a job has come.
Reached(ids, msgs, stage, index) == Upto(ids, msgs, index) /\ (stage >= 3 => All(ids, msgs))

\* There is a job for an accepted request only, and nothing in the chat before.
RowGood(row, job, msgs, ids) ==
    /\ job.status # "none" => row.state = "ACCEPTED"
    /\ row.state \in {"PENDING", "WITHDRAWN", "REJECTED"} => ids = <<>>
    /\ row.state = "ACCEPTED" => InOrder(ids, msgs) /\ Reached(ids, msgs, job.stage, job.index)

\* What a worker relies on while the friendship stands.
Knows(j, msgs, ids) ==
    /\ j.step = "claim" => Reached(ids, msgs, j.seen.stage, j.seen.index)
    /\ j.step \in {"start", "read", "copy"} => Reached(ids, msgs, j.stage, j.index)
    /\ j.step = "read" => j.stage >= 2
    /\ j.step = "copy" => j.stage = 2
    /\ j.step \in {"copy", "saveMessage", "saveThread"} => j.read = msgs
    /\ j.step = "saveMessage" => Reached(ids, msgs, 2, j.index + 1)
    /\ j.step \in {"saveThread", "reply", "complete"} => All(ids, msgs)

WorkerGood(j, row, msgs, ids) ==
    /\ row.state \in {"ACCEPTED", "DELETED"}
    /\ j.step = "claim" => j.seen.status # "none"
    /\ row.state = "ACCEPTED" => Knows(j, msgs, ids)

RowOK(f) == RowGood(friendRows[f], replay[f], thread[f], copied[f])
WorkerOK(w) ==
    worker[w].step # "rest" =>
        /\ worker[w].row \in FriendRows
        /\ WorkerGood(worker[w], friendRows[worker[w].row], thread[worker[w].row],
                      copied[worker[w].row])

RowsOK == \A f \in FriendRows : RowOK(f)
WorkersOK == \A w \in ReplayWorkers : WorkerOK(w)

FriendInv == FriendType /\ RowsOK /\ WorkersOK

-----------------------------------------------------------------------------
(* The rows.                                                                *)

LEMMA FriendsAre ==
    ASSUME FriendType
    PROVE  /\ Len(friendRows) \in Nat /\ FriendRows = 1..Len(friendRows)
           /\ DOMAIN thread = FriendRows /\ DOMAIN replay = FriendRows
           /\ DOMAIN copied = FriendRows
           /\ \A f \in FriendRows :
                 /\ friendRows[f] \in FriendRecords /\ thread[f] \in Seq(Texts)
                 /\ replay[f] \in Replays /\ copied[f] \in Seq(Ids)
           /\ \A w \in ReplayWorkers : worker[w] \in Copying
  <1>1. /\ Len(friendRows) \in Nat /\ DOMAIN friendRows = 1..Len(friendRows)
        /\ DOMAIN thread = 1..Len(thread) /\ DOMAIN replay = 1..Len(replay)
        /\ DOMAIN copied = 1..Len(copied)
    BY LenProperties DEF FriendType
  <1>2. /\ DOMAIN thread = 1..Len(friendRows) /\ DOMAIN replay = 1..Len(friendRows)
        /\ DOMAIN copied = 1..Len(friendRows)
    BY <1>1 DEF FriendType
  <1>3. ASSUME NEW f \in 1..Len(friendRows)
        PROVE  /\ friendRows[f] \in FriendRecords /\ thread[f] \in Seq(Texts)
               /\ replay[f] \in Replays /\ copied[f] \in Seq(Ids)
    <2>1. f \in 1..Len(thread) /\ f \in 1..Len(replay) /\ f \in 1..Len(copied)
      BY DEF FriendType
    <2> QED BY <2>1, ElementOfSeq DEF FriendType
  <1> QED BY <1>1, <1>2, <1>3 DEF FriendRows, FriendType

\* One place of a sequence is written again.
LEMMA Rewriting ==
    ASSUME NEW S, NEW s \in Seq(S), NEW f \in DOMAIN s, NEW e \in S
    PROVE  /\ [s EXCEPT ![f] = e] \in Seq(S) /\ Len([s EXCEPT ![f] = e]) = Len(s)
           /\ \A g \in DOMAIN s : [s EXCEPT ![f] = e][g] = IF g = f THEN e ELSE s[g]
  <1> DEFINE t == [s EXCEPT ![f] = e]
  <1>1. Len(s) \in Nat /\ DOMAIN s = 1..Len(s) /\ s \in [1..Len(s) -> S]
    BY LenProperties
  <1>2. t \in [1..Len(s) -> S] /\ \A g \in DOMAIN s : t[g] = IF g = f THEN e ELSE s[g]
    BY <1>1
  <1> HIDE DEF t
  <1>3. t \in Seq(S)
    BY <1>1, <1>2, SeqDef
  <1>4. Len(t) = Len(s)
    BY <1>1, <1>2, <1>3, LenProperties
  <1> QED BY <1>2, <1>3, <1>4 DEF t

LEMMA Mapping ==
    ASSUME NEW S, NEW s, NEW n \in Nat, s \in [1..n -> S]
    PROVE  s \in Seq(S) /\ Len(s) = n
  <1>1. s \in Seq(S)
    BY SeqDef
  <1>2. Len(s) \in Nat /\ DOMAIN s = 1..Len(s)
    BY <1>1, LenProperties
  <1> QED BY <1>1, <1>2

\* A chat in which nothing gets lost, and what a worker knows of it.
Grown(before, after) == \A x : Has(before, x) => Has(after, x)

LEMMA ReachedStays ==
    ASSUME NEW before, NEW after, NEW msgs, Grown(before, after)
    PROVE  /\ \A i : Upto(before, msgs, i) => Upto(after, msgs, i)
           /\ All(before, msgs) => All(after, msgs)
           /\ \A stage, index :
                 Reached(before, msgs, stage, index) => Reached(after, msgs, stage, index)
  <1>1. \A i : Upto(before, msgs, i) => Upto(after, msgs, i)
    BY DEF Grown, Upto
  <1>2. All(before, msgs) => All(after, msgs)
    BY DEF Grown, All
  <1> QED BY <1>1, <1>2 DEF Reached

LEMMA GoodStays ==
    ASSUME NEW before, NEW after, NEW msgs, Grown(before, after), NEW j, NEW row,
           WorkerGood(j, row, msgs, before)
    PROVE  WorkerGood(j, row, msgs, after)
  <1>1. Knows(j, msgs, before) => Knows(j, msgs, after)
    BY ReachedStays DEF Knows
  <1> QED BY <1>1 DEF WorkerGood

-----------------------------------------------------------------------------
(* Steps of requests and blocks: only rows that no worker has in hand get   *)
(* ahead, the others are gone.                                              *)

SameRow(f) ==
    /\ friendRows'[f] = friendRows[f] /\ thread'[f] = thread[f]
    /\ replay'[f] = replay[f] /\ copied'[f] = copied[f]

RowStep ==
    /\ worker' = worker /\ FriendRows \subseteq FriendRows'
    /\ \A f \in FriendRows : \/ SameRow(f)
                             \/ friendRows[f].state = "PENDING"
                             \/ friendRows'[f].state = "DELETED"
    /\ \A f \in FriendRows' : RowOK(f)' \/ (f \in FriendRows /\ SameRow(f))

LEMMA RowStepKeeps ==
    ASSUME FriendInv, RowStep
    PROVE  RowsOK' /\ WorkersOK'
  <1>1. ASSUME NEW f \in FriendRows' PROVE RowOK(f)'
    <2>1. CASE f \in FriendRows /\ SameRow(f)
      BY <2>1 DEF FriendInv, RowsOK, RowOK, SameRow
    <2> QED BY <1>1, <2>1 DEF RowStep
  <1>2. ASSUME NEW w \in ReplayWorkers PROVE WorkerOK(w)'
    <2>1. WorkerOK(w) /\ worker'[w] = worker[w]
      BY DEF FriendInv, WorkersOK, RowStep
    <2>2. SUFFICES ASSUME worker[w].step # "rest"
                   PROVE  /\ worker[w].row \in FriendRows'
                          /\ WorkerGood(worker[w], friendRows'[worker[w].row],
                                        thread'[worker[w].row], copied'[worker[w].row])
      BY <2>1 DEF WorkerOK
    <2>3. /\ worker[w].row \in FriendRows
          /\ WorkerGood(worker[w], friendRows[worker[w].row], thread[worker[w].row],
                        copied[worker[w].row])
      BY <2>1, <2>2 DEF WorkerOK
    <2>4. CASE SameRow(worker[w].row)
      BY <2>3, <2>4 DEF SameRow, RowStep
    <2>5. CASE friendRows'[worker[w].row].state = "DELETED"
      BY <2>3, <2>5 DEF WorkerGood, RowStep
    <2>6. friendRows[worker[w].row].state # "PENDING"
      BY <2>3 DEF WorkerGood
    <2> QED BY <2>3, <2>4, <2>5, <2>6 DEF RowStep
  <1> QED BY <1>1, <1>2 DEF RowsOK, WorkersOK

LEMMA SameRows ==
    ASSUME FriendInv, UNCHANGED <<friendRows, thread, replay, copied, worker>>,
           blocks' \in SUBSET Pals, sending' \in SUBSET Pals, friendEvents' \in Nat
    PROVE  FriendInv'
  <1>1. FriendType'
    BY DEF FriendInv, FriendType
  <1>2. RowStep
    BY DEF RowStep, SameRow, FriendRows
  <1> QED BY <1>1, <1>2, RowStepKeeps DEF FriendInv

LEMMA SendStep ==
    ASSUME FriendInv, NEW u \in Pals, NEW m \in {<<>>, <<"clean">>}, sendRequest(u, m)
    PROVE  FriendInv'
  <1>1. CASE \E f \in FriendRows : Active(f)
    BY <1>1, SameRows DEF sendRequest, FriendInv, FriendType
  <1>2. CASE ~\E f \in FriendRows : Active(f)
    <2> DEFINE row == [sender |-> u, state |-> "PENDING"]
    <2>1. /\ friendRows' = Append(friendRows, row) /\ thread' = Append(thread, m)
          /\ replay' = Append(replay, NoReplay) /\ copied' = Append(copied, <<>>)
          /\ worker' = worker /\ blocks' = blocks /\ sending' = sending \ {u}
          /\ friendEvents' = friendEvents
      BY <1>2 DEF sendRequest
    <2>2. row \in FriendRecords /\ NoReplay \in Replays
      BY DEF FriendRecords, Replays, NoReplay
    <2>3. m \in Seq(Texts) /\ <<>> \in Seq(Ids)
      <3>1. <<>> \in Seq(Texts) /\ <<>> \in Seq(Ids)
        BY EmptySeq
      <3>2. "clean" \in Texts
        BY DEF Texts
      <3>3. <<"clean">> \in Seq(Texts)
        BY <3>2
      <3> QED BY <3>1, <3>3
    <2>4. /\ Len(friendRows) \in Nat /\ FriendRows = 1..Len(friendRows)
          /\ Len(thread) = Len(friendRows) /\ Len(replay) = Len(friendRows)
          /\ Len(copied) = Len(friendRows)
      BY FriendsAre DEF FriendInv, FriendType
    <2> HIDE DEF row
    <2>5. /\ friendRows' \in Seq(FriendRecords) /\ Len(friendRows') = Len(friendRows) + 1
          /\ friendRows'[Len(friendRows) + 1] = row
          /\ \A f \in FriendRows : friendRows'[f] = friendRows[f]
      BY <2>1, <2>2, <2>4, AppendProperties DEF FriendInv, FriendType
    <2>6. /\ thread' \in Seq(Seq(Texts)) /\ Len(thread') = Len(friendRows) + 1
          /\ \A f \in FriendRows : thread'[f] = thread[f]
      <3>1. thread \in Seq(Seq(Texts))
        BY DEF FriendInv, FriendType
      <3>2. /\ Append(thread, m) \in Seq(Seq(Texts)) /\ Len(Append(thread, m)) = Len(thread) + 1
            /\ \A f \in 1..Len(thread) : Append(thread, m)[f] = thread[f]
        BY <3>1, <2>3, AppendProperties
      <3> QED BY <2>1, <2>4, <3>2
    <2>7. /\ replay' \in Seq(Replays) /\ Len(replay') = Len(friendRows) + 1
          /\ replay'[Len(friendRows) + 1] = NoReplay
          /\ \A f \in FriendRows : replay'[f] = replay[f]
      BY <2>1, <2>2, <2>4, AppendProperties DEF FriendInv, FriendType
    <2>8. /\ copied' \in Seq(Seq(Ids)) /\ Len(copied') = Len(friendRows) + 1
          /\ copied'[Len(friendRows) + 1] = <<>>
          /\ \A f \in FriendRows : copied'[f] = copied[f]
      BY <2>1, <2>3, <2>4, AppendProperties DEF FriendInv, FriendType
    <2>9. FriendType'
      BY <2>1, <2>5, <2>6, <2>7, <2>8 DEF FriendInv, FriendType
    <2>10. FriendRows' = 1..(Len(friendRows) + 1)
      BY <2>5, <2>9, FriendsAre, LenProperties DEF FriendRows
    <2> PICK last : last = Len(friendRows) + 1
      OBVIOUS
    <2>11. RowOK(last)'
      <3>1. friendRows'[last].state = "PENDING"
        BY <2>5 DEF row
      <3>2. replay'[last].status = "none" /\ copied'[last] = <<>>
        BY <2>7, <2>8 DEF NoReplay
      <3> QED BY <3>1, <3>2 DEF RowOK, RowGood
    <2>12. \A f \in FriendRows : SameRow(f)
      BY <2>5, <2>6, <2>7, <2>8 DEF SameRow
    <2>13. ASSUME NEW f \in FriendRows' PROVE RowOK(f)' \/ (f \in FriendRows /\ SameRow(f))
      <3>1. f \in FriendRows \/ f = last
        BY <2>4, <2>10
      <3> QED BY <3>1, <2>11, <2>12
    <2>14. RowStep
      <3>1. FriendRows \subseteq FriendRows'
        BY <2>4, <2>10
      <3> QED BY <3>1, <2>1, <2>12, <2>13 DEF RowStep
    <2> QED BY <2>9, <2>14, RowStepKeeps DEF FriendInv
  <1> QED BY <1>1, <1>2

\* One open request is written to, closed or accepted.
LEMMA OpenStep ==
    ASSUME FriendInv, NEW f \in FriendRows, friendRows[f].state = "PENDING",
           NEW row \in FriendRecords, NEW msgs \in Seq(Texts), NEW job \in Replays,
           friendRows' = [friendRows EXCEPT ![f] = row], thread' = [thread EXCEPT ![f] = msgs],
           replay' = [replay EXCEPT ![f] = job],
           UNCHANGED <<copied, worker, blocks, sending, friendEvents>>,
           RowGood(row, job, msgs, <<>>)
    PROVE  FriendInv'
  <1>1. /\ DOMAIN friendRows = FriendRows /\ DOMAIN thread = FriendRows
        /\ DOMAIN replay = FriendRows
    BY FriendsAre DEF FriendInv, FriendRows
  <1>2. /\ friendRows' \in Seq(FriendRecords) /\ Len(friendRows') = Len(friendRows)
        /\ \A g \in FriendRows : friendRows'[g] = IF g = f THEN row ELSE friendRows[g]
    BY <1>1, Rewriting DEF FriendInv, FriendType
  <1>3. /\ thread' \in Seq(Seq(Texts)) /\ Len(thread') = Len(thread)
        /\ \A g \in FriendRows : thread'[g] = IF g = f THEN msgs ELSE thread[g]
    BY <1>1, Rewriting DEF FriendInv, FriendType
  <1>4. /\ replay' \in Seq(Replays) /\ Len(replay') = Len(replay)
        /\ \A g \in FriendRows : replay'[g] = IF g = f THEN job ELSE replay[g]
    BY <1>1, Rewriting DEF FriendInv, FriendType
  <1>5. FriendType'
    BY <1>2, <1>3, <1>4 DEF FriendInv, FriendType
  <1>6. FriendRows' = FriendRows
    BY <1>1 DEF FriendRows
  <1>7. copied[f] = <<>>
    BY DEF FriendInv, RowsOK, RowOK, RowGood
  <1>8. RowOK(f)'
    BY <1>2, <1>3, <1>4, <1>7 DEF RowOK
  <1>9. \A g \in FriendRows : g # f => SameRow(g)
    BY <1>2, <1>3, <1>4 DEF SameRow
  <1>10. RowStep
    BY <1>6, <1>8, <1>9 DEF RowStep
  <1> QED BY <1>5, <1>10, RowStepKeeps DEF FriendInv

LEMMA OpenSteps ==
    ASSUME FriendInv, NEW f \in FriendRows,
           \/ \E t \in {"clean", "blocked"} : appendRequestMessage(f, t)
           \/ \E s \in {"WITHDRAWN", "REJECTED"} : closeRequest(f, s)
           \/ acceptRequest(f)
    PROVE  FriendInv'
  <1>1. /\ friendRows[f] \in FriendRecords /\ thread[f] \in Seq(Texts)
        /\ replay[f] \in Replays /\ friendRows \in Seq(FriendRecords)
        /\ f \in DOMAIN friendRows /\ f \in DOMAIN thread /\ f \in DOMAIN replay
    BY FriendsAre DEF FriendInv, FriendType, FriendRows
  <1>2. /\ friendRows = [friendRows EXCEPT ![f] = friendRows[f]]
        /\ thread = [thread EXCEPT ![f] = thread[f]]
        /\ replay = [replay EXCEPT ![f] = replay[f]]
    BY FriendsAre, LenProperties DEF FriendInv, FriendType
  <1>3. RowGood(friendRows[f], replay[f], thread[f], copied[f])
    BY DEF FriendInv, RowsOK, RowOK
  <1>4. ASSUME NEW t \in {"clean", "blocked"}, appendRequestMessage(f, t) PROVE FriendInv'
    <2>1. Append(thread[f], t) \in Seq(Texts)
      BY <1>1, AppendProperties DEF Texts
    <2>2. RowGood(friendRows[f], replay[f], Append(thread[f], t), <<>>)
      BY <1>3, <1>4 DEF RowGood, appendRequestMessage
    <2>3. thread' = [thread EXCEPT ![f] = Append(thread[f], t)]
      BY <1>4 DEF appendRequestMessage
    <2> QED BY ZenonT(30), <1>1, <1>2, <1>4, <2>1, <2>2, <2>3, OpenStep DEF appendRequestMessage
  <1>5. ASSUME NEW s \in {"WITHDRAWN", "REJECTED"}, closeRequest(f, s) PROVE FriendInv'
    <2> DEFINE row == [friendRows[f] EXCEPT !.state = s]
    <2>1. row \in FriendRecords /\ row.state = s
      BY <1>1 DEF FriendRecords
    <2>2. friendRows' = [friendRows EXCEPT ![f] = row]
      BY <1>5 DEF closeRequest
    <2> HIDE DEF row
    <2>3. RowGood(row, replay[f], thread[f], <<>>)
      BY <1>3, <1>5, <2>1 DEF RowGood, closeRequest
    <2>4. /\ friendRows[f].state = "PENDING"
          /\ thread' = [thread EXCEPT ![f] = thread[f]]
          /\ replay' = [replay EXCEPT ![f] = replay[f]]
          /\ UNCHANGED <<copied, worker, blocks, sending, friendEvents>>
      BY <1>2, <1>5 DEF closeRequest
    <2> QED BY <1>1, <2>1, <2>2, <2>3, <2>4, OpenStep
  <1>6. CASE acceptRequest(f)
    <2> DEFINE row == [friendRows[f] EXCEPT !.state = "ACCEPTED"]
               job == [NoReplay EXCEPT !.status = "PENDING"]
    <2>1. row \in FriendRecords /\ row.state = "ACCEPTED"
      BY <1>1 DEF FriendRecords
    <2>2. job \in Replays /\ job.stage = 0 /\ job.index = 0
      BY DEF Replays, NoReplay
    <2>3. friendRows' = [friendRows EXCEPT ![f] = row] /\ replay' = [replay EXCEPT ![f] = job]
      BY <1>6 DEF acceptRequest
    <2> HIDE DEF row, job
    <2>4. InOrder(<<>>, thread[f]) /\ Reached(<<>>, thread[f], 0, 0)
      <3>1. Len(<<>>) = 0
        BY EmptySeq
      <3>2. \A k \in CleanIndices(thread[f]) : ~(k <= 0)
        BY <1>1, CleanAre
      <3> QED BY <3>1, <3>2 DEF InOrder, Reached, Upto
    <2>5. RowGood(row, job, thread[f], <<>>)
      BY <2>1, <2>2, <2>4 DEF RowGood
    <2> QED BY ZenonT(30), <1>1, <1>2, <1>6, <2>1, <2>2, <2>3, <2>5, OpenStep DEF acceptRequest
  <1> QED BY <1>4, <1>5, <1>6

\* Rows that are deleted.
LEMMA DeletedStep ==
    ASSUME FriendInv, NEW rows \in SUBSET FriendRows, Deleted(rows), UNCHANGED <<worker, copied>>,
           blocks' \in SUBSET Pals, sending' \in SUBSET Pals, friendEvents' \in Nat
    PROVE  FriendInv'
  <1> DEFINE n == Len(friendRows)
  <1>1. n \in Nat /\ FriendRows = 1..n /\ DOMAIN copied = FriendRows
    BY FriendsAre DEF FriendInv
  <1>2. \A f \in FriendRows :
          /\ [friendRows[f] EXCEPT !.state = "DELETED"] \in FriendRecords
          /\ [friendRows[f] EXCEPT !.state = "DELETED"].state = "DELETED"
          /\ friendRows[f] \in FriendRecords /\ thread[f] \in Seq(Texts) /\ replay[f] \in Replays
    BY FriendsAre DEF FriendInv, FriendRecords
  <1>3. NoReplay \in Replays /\ <<>> \in Seq(Texts)
    BY EmptySeq DEF Replays, NoReplay
  <1> HIDE DEF n
  <1>4. /\ friendRows' \in [1..n -> FriendRecords] /\ thread' \in [1..n -> Seq(Texts)]
        /\ replay' \in [1..n -> Replays]
    BY <1>1, <1>2, <1>3 DEF Deleted
  <1>5. /\ friendRows' \in Seq(FriendRecords) /\ Len(friendRows') = n
        /\ thread' \in Seq(Seq(Texts)) /\ Len(thread') = n
        /\ replay' \in Seq(Replays) /\ Len(replay') = n
    BY <1>1, <1>4, Mapping
  <1>6. Len(copied) = n
    BY DEF FriendInv, FriendType, n
  <1>7. FriendType'
    BY <1>5, <1>6 DEF FriendInv, FriendType
  <1>8. FriendRows' = FriendRows
    BY <1>1, <1>4 DEF FriendRows
  <1>9. ASSUME NEW f \in FriendRows
        PROVE  \/ f \notin rows /\ SameRow(f)
               \/ friendRows'[f].state = "DELETED" /\ replay'[f] = NoReplay
    BY <1>2, <1>9 DEF Deleted, SameRow
  <1>10. \A f \in FriendRows : RowOK(f)' \/ SameRow(f)
    BY <1>9 DEF RowOK, RowGood, NoReplay
  <1>11. RowStep
    BY <1>8, <1>9, <1>10 DEF RowStep
  <1> QED BY <1>7, <1>11, RowStepKeeps DEF FriendInv

LEMMA FriendEventsCount ==
    ASSUME FriendInv, FriendEvent
    PROVE  friendEvents' \in Nat
  BY DEF FriendInv, FriendType, FriendEvent

LEMMA RequestSteps ==
    ASSUME FriendInv,
           \/ \E u \in Pals : checkRequest(u) \/ blockUser(u) \/ unblockUser(u)
           \/ \E u \in Pals, m \in {<<>>, <<"clean">>} : sendRequest(u, m)
           \/ \E f \in FriendRows, t \in {"clean", "blocked"} : appendRequestMessage(f, t)
           \/ \E f \in FriendRows, s \in {"WITHDRAWN", "REJECTED"} : closeRequest(f, s)
           \/ \E f \in FriendRows : acceptRequest(f) \/ removeFriend(f)
    PROVE  FriendInv'
  <1>1. blocks \in SUBSET Pals /\ sending \in SUBSET Pals /\ friendEvents \in Nat
    BY DEF FriendInv, FriendType
  <1>2. ASSUME NEW u \in Pals, checkRequest(u) PROVE FriendInv'
    BY <1>1, <1>2, SameRows DEF checkRequest
  <1>3. ASSUME NEW u \in Pals, unblockUser(u) PROVE FriendInv'
    BY <1>1, <1>3, SameRows, FriendEventsCount DEF unblockUser
  <1>4. ASSUME NEW u \in Pals, blockUser(u) PROVE FriendInv'
    BY <1>1, <1>4, DeletedStep, FriendEventsCount DEF blockUser
  <1>5. ASSUME NEW f \in FriendRows, removeFriend(f) PROVE FriendInv'
    BY <1>1, <1>5, DeletedStep, FriendEventsCount DEF removeFriend
  <1> QED BY <1>2, <1>3, <1>4, <1>5, SendStep, OpenSteps

-----------------------------------------------------------------------------
(* Steps of one worker.                                                     *)

WorkerFrame ==
    /\ UNCHANGED <<friendRows, thread, blocks, sending>> /\ friendEvents' \in Nat
    /\ replay' \in Seq(Replays) /\ Len(replay') = Len(replay)
    /\ copied' \in Seq(Seq(Ids)) /\ Len(copied') = Len(copied)
    /\ RowsOK' /\ \A f \in FriendRows : Grown(copied[f], copied'[f])

\* What the worker does next is right; nobody else minds.
LEMMA WorkerStep ==
    ASSUME FriendInv, WorkerFrame, NEW w \in ReplayWorkers, NEW j \in Copying,
           worker' = [worker EXCEPT ![w] = j],
           \/ j.step = "rest"
           \/ /\ j.row \in FriendRows
              /\ WorkerGood(j, friendRows[j.row], thread[j.row], copied'[j.row])
    PROVE  FriendInv'
  <1>1. /\ worker' \in [ReplayWorkers -> Copying] /\ worker'[w] = j
        /\ \A v \in ReplayWorkers : v # w => worker'[v] = worker[v]
    BY DEF FriendInv, FriendType
  <1>2. FriendType'
    BY <1>1 DEF FriendInv, FriendType, WorkerFrame
  <1>3. FriendRows' = FriendRows /\ friendRows' = friendRows /\ thread' = thread
    BY DEF WorkerFrame, FriendRows
  <1>4. WorkerOK(w)'
    BY <1>1, <1>3 DEF WorkerOK
  <1>5. ASSUME NEW v \in ReplayWorkers, v # w PROVE WorkerOK(v)'
    <2>1. WorkerOK(v) /\ worker'[v] = worker[v]
      BY <1>1, <1>5 DEF FriendInv, WorkersOK
    <2>2. SUFFICES ASSUME worker[v].step # "rest"
                   PROVE  /\ worker[v].row \in FriendRows
                          /\ WorkerGood(worker[v], friendRows[worker[v].row],
                                        thread[worker[v].row], copied'[worker[v].row])
      BY <1>3, <2>1 DEF WorkerOK
    <2>3. /\ worker[v].row \in FriendRows
          /\ WorkerGood(worker[v], friendRows[worker[v].row], thread[worker[v].row],
                        copied[worker[v].row])
      BY <2>1, <2>2 DEF WorkerOK
    <2>4. Grown(copied[worker[v].row], copied'[worker[v].row])
      BY <2>3 DEF WorkerFrame
    <2> QED BY <2>3, <2>4, GoodStays
  <1>6. WorkersOK'
    BY <1>4, <1>5 DEF WorkersOK
  <1> QED BY <1>2, <1>6 DEF FriendInv, WorkerFrame

\* It reads, waits or is gone.
LEMMA WorkerMoves ==
    ASSUME FriendInv, NEW w \in ReplayWorkers, NEW j \in Copying,
           worker' = [worker EXCEPT ![w] = j], friendEvents' \in Nat,
           UNCHANGED <<friendRows, thread, blocks, sending, replay, copied>>,
           \/ j.step = "rest"
           \/ /\ j.row \in FriendRows
              /\ WorkerGood(j, friendRows[j.row], thread[j.row], copied[j.row])
    PROVE  FriendInv'
  <1>1. RowsOK'
    BY DEF FriendInv, RowsOK, RowOK, FriendRows
  <1>2. \A f \in FriendRows : Grown(copied[f], copied'[f])
    BY DEF Grown
  <1>3. WorkerFrame
    BY <1>1, <1>2 DEF WorkerFrame, FriendInv, FriendType
  <1> QED BY <1>3, WorkerStep

\* It writes the job.
LEMMA WorkerSaves ==
    ASSUME FriendInv, NEW w \in ReplayWorkers, NEW j \in Copying,
           worker' = [worker EXCEPT ![w] = j], friendEvents' \in Nat,
           UNCHANGED <<friendRows, thread, blocks, sending, copied>>,
           NEW f \in FriendRows, NEW job \in Replays, replay' = [replay EXCEPT ![f] = job],
           RowGood(friendRows[f], job, thread[f], copied[f]),
           \/ j.step = "rest"
           \/ j.row = f /\ WorkerGood(j, friendRows[f], thread[f], copied[f])
    PROVE  FriendInv'
  <1>1. /\ replay' \in Seq(Replays) /\ Len(replay') = Len(replay)
        /\ \A g \in FriendRows : replay'[g] = IF g = f THEN job ELSE replay[g]
    BY FriendsAre, Rewriting DEF FriendInv, FriendType
  <1>2. FriendRows' = FriendRows
    BY DEF FriendRows
  <1>3. RowsOK'
    BY <1>1, <1>2 DEF FriendInv, RowsOK, RowOK
  <1>4. \A g \in FriendRows : Grown(copied[g], copied'[g])
    BY DEF Grown
  <1>5. WorkerFrame
    BY <1>1, <1>3, <1>4 DEF WorkerFrame, FriendInv, FriendType
  <1>6. \/ j.step = "rest"
        \/ /\ j.row \in FriendRows
           /\ WorkerGood(j, friendRows[j.row], thread[j.row], copied'[j.row])
    OBVIOUS
  <1> QED BY <1>5, <1>6, WorkerStep

\* It writes to the chat.
LEMMA WorkerCopies ==
    ASSUME FriendInv, NEW w \in ReplayWorkers, NEW j \in Copying,
           worker' = [worker EXCEPT ![w] = j],
           UNCHANGED <<friendRows, thread, blocks, sending, replay, friendEvents>>,
           NEW f \in FriendRows, NEW ids \in Seq(Ids), copied' = [copied EXCEPT ![f] = ids],
           Grown(copied[f], ids), friendRows[f].state \in {"ACCEPTED", "DELETED"},
           friendRows[f].state = "ACCEPTED" => InOrder(ids, thread[f]),
           j.row = f, WorkerGood(j, friendRows[f], thread[f], ids)
    PROVE  FriendInv'
  <1>1. /\ copied' \in Seq(Seq(Ids)) /\ Len(copied') = Len(copied)
        /\ \A g \in FriendRows : copied'[g] = IF g = f THEN ids ELSE copied[g]
    BY FriendsAre, Rewriting DEF FriendInv, FriendType
  <1>2. FriendRows' = FriendRows
    BY DEF FriendRows
  <1>3. RowOK(f) /\ \A g \in FriendRows : RowOK(g)
    BY DEF FriendInv, RowsOK
  <1>4. RowGood(friendRows[f], replay[f], thread[f], ids)
    <2>1. \A stage, index : Reached(copied[f], thread[f], stage, index)
                               => Reached(ids, thread[f], stage, index)
      BY ReachedStays
    <2>2. RowGood(friendRows[f], replay[f], thread[f], copied[f])
      BY <1>3 DEF RowOK
    <2> QED BY <2>1, <2>2 DEF RowGood
  <1>5. RowsOK'
    BY <1>1, <1>2, <1>3, <1>4 DEF RowsOK, RowOK
  <1>6. \A g \in FriendRows : Grown(copied[g], copied'[g])
    BY <1>1 DEF Grown
  <1>7. WorkerFrame
    BY <1>1, <1>5, <1>6 DEF WorkerFrame, FriendInv, FriendType
  <1> QED BY <1>1, <1>7, WorkerStep

\* What a worker at work relies on.
LEMMA AtWork ==
    ASSUME FriendInv, NEW w \in ReplayWorkers, worker[w].step # "rest",
           NEW f, f = worker[w].row
    PROVE  /\ f \in FriendRows /\ worker[w] \in Copying
           /\ WorkerGood(worker[w], friendRows[f], thread[f], copied[f])
           /\ RowGood(friendRows[f], replay[f], thread[f], copied[f])
           /\ friendRows[f] \in FriendRecords /\ thread[f] \in Seq(Texts)
           /\ replay[f] \in Replays /\ copied[f] \in Seq(Ids)
           /\ Leased(w) => friendRows[f].state = "ACCEPTED"
  <1>1. /\ f \in FriendRows
        /\ WorkerGood(worker[w], friendRows[f], thread[f], copied[f])
    BY DEF FriendInv, WorkersOK, WorkerOK
  <1>2. RowGood(friendRows[f], replay[f], thread[f], copied[f])
    BY <1>1 DEF FriendInv, RowsOK, RowOK
  <1>3. Leased(w) => friendRows[f].state = "ACCEPTED"
    BY <1>2 DEF Leased, RowGood
  <1> QED BY <1>1, <1>2, <1>3, FriendsAre DEF FriendInv

LEMMA RestingCopying == Resting \in Copying /\ Resting.step = "rest"
  <1>1. <<>> \in Seq(Texts)
    BY EmptySeq
  <1> QED BY <1>1 DEF Resting, Copying, NoReplay, Replays

LEMMA RestStep ==
    ASSUME FriendInv, NEW w \in ReplayWorkers, worker' = [worker EXCEPT ![w] = Resting],
           UNCHANGED <<friendRows, thread, blocks, sending, replay, copied>>,
           friendEvents' \in Nat
    PROVE  FriendInv'
  BY RestingCopying, WorkerMoves

LEMMA ReadStep ==
    ASSUME FriendInv, NEW w \in ReplayWorkers, NEW f \in FriendRows,
           readReplay(w, f) \/ readStaleReplay(w, f)
    PROVE  FriendInv'
  <1> PICK seen : seen = replay[f]
    OBVIOUS
  <1> DEFINE j == [Resting EXCEPT !.step = "claim", !.row = f, !.seen = seen]
  <1>1. /\ worker' = [worker EXCEPT ![w] = j] /\ friendEvents' \in Nat
        /\ UNCHANGED <<friendRows, thread, blocks, sending, replay, copied>>
        /\ seen.status # "none"
    BY FriendEventsCount DEF readReplay, readStaleReplay, FriendInv, FriendType
  <1>2. seen \in Replays /\ f \in Nat
    BY FriendsAre DEF FriendInv
  <1>3. j \in Copying /\ j.step = "claim" /\ j.row = f /\ j.seen = seen
    BY <1>2, RestingCopying DEF Copying, Resting
  <1> HIDE DEF j
  <1>4. RowGood(friendRows[f], seen, thread[f], copied[f])
    BY DEF FriendInv, RowsOK, RowOK
  <1>5. friendRows[f].state = "ACCEPTED"
    BY <1>1, <1>4 DEF RowGood
  <1>6. WorkerGood(j, friendRows[f], thread[f], copied[f])
    BY <1>1, <1>3, <1>4, <1>5 DEF RowGood, WorkerGood, Knows
  <1> QED BY <1>1, <1>3, <1>6, WorkerMoves

LEMMA ClaimStep ==
    ASSUME FriendInv, NEW w \in ReplayWorkers, claimReplay(w)
    PROVE  FriendInv'
  <1> PICK f, before, seen, old :
        f = worker[w].row /\ before = worker[w] /\ seen = worker[w].seen /\ old = replay[f]
    OBVIOUS
  <1>1. before.step = "claim" /\ friendEvents' \in Nat
    BY DEF claimReplay, FriendInv, FriendType
  <1>2. /\ f \in FriendRows /\ before \in Copying
        /\ WorkerGood(before, friendRows[f], thread[f], copied[f])
        /\ RowGood(friendRows[f], old, thread[f], copied[f]) /\ old \in Replays
    BY <1>1, AtWork
  <1>3. CASE old.status = seen.status /\ (seen.status = "PROCESSING" => old = seen)
    <2> DEFINE j == [before EXCEPT !.step = "start", !.index = seen.index, !.stage = seen.stage]
               job == [old EXCEPT !.status = "PROCESSING", !.lease = w]
    <2>1. seen \in Replays
      BY <1>2 DEF Copying
    <2>2. /\ j \in Copying /\ j.step = "start" /\ j.row = f /\ j.stage = seen.stage
          /\ j.index = seen.index
      BY <1>2, <2>1 DEF Copying, Replays
    <2>3. /\ job \in Replays /\ job.status = "PROCESSING" /\ job.stage = old.stage
          /\ job.index = old.index
      BY <1>2 DEF Replays
    <2>4. worker' = [worker EXCEPT ![w] = j] /\ replay' = [replay EXCEPT ![f] = job]
      <3>1. worker \in [ReplayWorkers -> Copying] /\ f \in DOMAIN replay
        BY <1>2, FriendsAre DEF FriendInv, FriendType
      <3>2. /\ replay' = [replay EXCEPT ![f].status = "PROCESSING", ![f].lease = w]
            /\ worker' = [worker EXCEPT ![w].step = "start", ![w].index = seen.index,
                                        ![w].stage = seen.stage]
        BY <1>3 DEF claimReplay
      <3>3. replay' = [replay EXCEPT ![f] = job]
        BY <3>1, <3>2
      <3>4. worker' = [worker EXCEPT ![w] = j]
        BY <3>1, <3>2
      <3> QED BY <3>3, <3>4
    <2> HIDE DEF j, job
    <2>5. seen.status # "none" /\ friendRows[f].state = "ACCEPTED"
      BY <1>1, <1>2, <1>3 DEF WorkerGood, RowGood
    <2>6. RowGood(friendRows[f], job, thread[f], copied[f])
      BY <1>2, <2>3, <2>5 DEF RowGood
    <2>7. WorkerGood(j, friendRows[f], thread[f], copied[f])
      BY <1>1, <1>2, <2>2, <2>5 DEF WorkerGood, Knows
    <2>8. UNCHANGED <<friendRows, thread, blocks, sending, copied>>
      BY DEF claimReplay
    <2> QED BY <1>1, <1>2, <2>2, <2>3, <2>4, <2>6, <2>7, <2>8, WorkerSaves
  <1>4. CASE ~(old.status = seen.status /\ (seen.status = "PROCESSING" => old = seen))
    BY <1>1, <1>4, RestStep DEF claimReplay
  <1> QED BY <1>3, <1>4

LEMMA PersistStep ==
    ASSUME FriendInv, NEW w \in ReplayWorkers, worker[w].step # "rest",
           NEW stage \in Nat, NEW index \in Nat, NEW step \in {"read", "copy", "reply"},
           persistProgress(w, stage, index, step),
           UNCHANGED <<friendRows, thread, blocks, sending, copied, friendEvents>>,
           NEW f, f = worker[w].row,
           friendRows[f].state = "ACCEPTED" =>
              /\ Reached(copied[f], thread[f], stage, index)
              /\ step = "read" => stage >= 2
              /\ step = "copy" => stage = 2 /\ worker[w].read = thread[f]
              /\ step = "reply" => All(copied[f], thread[f])
    PROVE  FriendInv'
  <1> PICK before, old : before = worker[w] /\ old = replay[f]
    OBVIOUS
  <1>1. /\ f \in FriendRows /\ before \in Copying /\ friendEvents' \in Nat
        /\ RowGood(friendRows[f], old, thread[f], copied[f]) /\ old \in Replays
        /\ Leased(w) => friendRows[f].state = "ACCEPTED"
    BY AtWork DEF FriendInv, FriendType
  <1>2. CASE Leased(w)
    <2> DEFINE j == [before EXCEPT !.step = step, !.stage = stage, !.index = index]
               job == [old EXCEPT !.stage = stage, !.index = index]
    <2>1. /\ j \in Copying /\ j.step = step /\ j.row = f /\ j.stage = stage /\ j.index = index
          /\ j.read = worker[w].read
      BY <1>1 DEF Copying
    <2>2. job \in Replays /\ job.stage = stage /\ job.index = index /\ job.status = old.status
      BY <1>1 DEF Replays
    <2>3. worker' = [worker EXCEPT ![w] = j] /\ replay' = [replay EXCEPT ![f] = job]
      BY ZenonT(30), <1>2, FriendsAre DEF persistProgress, FriendInv, FriendType
    <2> HIDE DEF j, job
    <2>4. friendRows[f].state = "ACCEPTED"
      BY <1>1, <1>2
    <2>5. RowGood(friendRows[f], job, thread[f], copied[f])
      BY <1>1, <2>2, <2>4 DEF RowGood
    <2>6. Knows(j, thread[f], copied[f])
      BY <2>1, <2>4 DEF Knows
    <2>7. WorkerGood(j, friendRows[f], thread[f], copied[f])
      BY <2>1, <2>4, <2>6 DEF WorkerGood
    <2> QED BY <1>1, <2>1, <2>2, <2>3, <2>5, <2>7, WorkerSaves
  <1>3. CASE ~Leased(w)
    BY <1>1, <1>3, RestStep DEF persistProgress
  <1> QED BY <1>2, <1>3

LEMMA StartStep ==
    ASSUME FriendInv, NEW w \in ReplayWorkers, startReplay(w)
    PROVE  FriendInv'
  <1> PICK f, before : f = worker[w].row /\ before = worker[w]
    OBVIOUS
  <1>1. before.step = "start" /\ friendEvents' \in Nat
    BY DEF startReplay, FriendInv, FriendType
  <1>2. /\ f \in FriendRows /\ before \in Copying
        /\ WorkerGood(before, friendRows[f], thread[f], copied[f])
    BY <1>1, AtWork
  <1>3. before.stage \in Nat /\ before.index \in Nat
    BY <1>2 DEF Copying
  <1>4. friendRows[f].state = "ACCEPTED" =>
           Reached(copied[f], thread[f], before.stage, before.index)
    BY <1>1, <1>2 DEF WorkerGood, Knows
  <1>5. CASE before.stage < 2
    <2>1. friendRows[f].state = "ACCEPTED" => Reached(copied[f], thread[f], 2, before.index)
      BY <1>4 DEF Reached
    <2>2. persistProgress(w, 2, worker[w].index, "read")
      BY <1>5 DEF startReplay
    <2> QED BY <1>1, <1>3, <2>1, <2>2, PersistStep DEF startReplay
  <1>6. CASE ~(before.stage < 2)
    <2> DEFINE j == [before EXCEPT !.step = "read"]
    <2>1. /\ j \in Copying /\ j.step = "read" /\ j.row = f /\ j.stage = before.stage
          /\ j.index = before.index /\ worker' = [worker EXCEPT ![w] = j]
      BY <1>2, <1>6 DEF startReplay, Copying, FriendInv, FriendType
    <2> HIDE DEF j
    <2>2. WorkerGood(j, friendRows[f], thread[f], copied[f])
      BY <1>2, <1>3, <1>4, <1>6, <2>1 DEF WorkerGood, Knows
    <2>3. UNCHANGED <<friendRows, thread, blocks, sending, replay, copied>>
      BY <1>6 DEF startReplay
    <2> QED BY <1>1, <1>2, <2>1, <2>2, <2>3, WorkerMoves
  <1> QED BY <1>5, <1>6

LEMMA ThreadStep ==
    ASSUME FriendInv, NEW w \in ReplayWorkers, readThread(w)
    PROVE  FriendInv'
  <1> PICK f, before, msgs : f = worker[w].row /\ before = worker[w] /\ msgs = thread[f]
    OBVIOUS
  <1>1. before.step = "read" /\ friendEvents' \in Nat
    BY DEF readThread, FriendInv, FriendType
  <1>2. /\ f \in FriendRows /\ before \in Copying /\ msgs \in Seq(Texts)
        /\ WorkerGood(before, friendRows[f], msgs, copied[f])
    BY <1>1, AtWork
  <1> DEFINE step == IF before.stage = 2 THEN "copy" ELSE "reply"
             j == [before EXCEPT !.read = msgs, !.step = step]
  <1>3. /\ j \in Copying /\ j.step = step /\ j.row = f /\ j.stage = before.stage
        /\ j.index = before.index /\ j.read = msgs /\ before.stage \in Nat
    BY <1>2 DEF Copying
  <1>4. worker' = [worker EXCEPT ![w] = j]
    BY DEF readThread, FriendInv, FriendType
  <1> HIDE DEF j
  <1>5. ASSUME friendRows[f].state = "ACCEPTED" PROVE Knows(j, msgs, copied[f])
    <2>1. before.stage >= 2 /\ Reached(copied[f], msgs, before.stage, before.index)
      BY <1>1, <1>2, <1>5 DEF WorkerGood, Knows
    <2>2. CASE before.stage = 2
      BY <1>3, <2>1, <2>2 DEF Knows
    <2>3. CASE before.stage # 2
      <3>1. All(copied[f], msgs) /\ step = "reply"
        BY <1>3, <2>1, <2>3 DEF Reached
      <3> QED BY <1>3, <3>1 DEF Knows
    <2> QED BY <2>2, <2>3
  <1>6. WorkerGood(j, friendRows[f], msgs, copied[f])
    BY <1>2, <1>3, <1>5 DEF WorkerGood
  <1>7. UNCHANGED <<friendRows, thread, blocks, sending, replay, copied>>
    BY DEF readThread
  <1> QED BY <1>1, <1>2, <1>3, <1>4, <1>6, <1>7, WorkerMoves

\* One insert into the chat, and what the worker does behind it.
LEMMA CopyStep ==
    ASSUME FriendInv, NEW w \in ReplayWorkers, worker[w].step # "rest",
           NEW step \in {"saveMessage", "saveThread", "complete"}, NEW id \in Ids,
           worker' = [worker EXCEPT ![w].step = step],
           NEW f, f = worker[w].row, insertServerMessage(f, id),
           UNCHANGED <<friendRows, thread, blocks, sending, replay, friendEvents>>,
           friendRows[f].state = "ACCEPTED" =>
              /\ InOrder(Inserted(copied[f], id), thread[f])
              /\ Knows([worker[w] EXCEPT !.step = step], thread[f], Inserted(copied[f], id))
    PROVE  FriendInv'
  <1> PICK before, ids, after :
        before = worker[w] /\ ids = copied[f] /\ after = Inserted(copied[f], id)
    OBVIOUS
  <1>1. /\ f \in FriendRows /\ before \in Copying /\ ids \in Seq(Ids)
        /\ WorkerGood(before, friendRows[f], thread[f], ids)
    BY AtWork
  <1> DEFINE j == [before EXCEPT !.step = step]
  <1>2. j \in Copying /\ j.step = step /\ j.row = f /\ worker' = [worker EXCEPT ![w] = j]
    BY <1>1 DEF Copying, FriendInv, FriendType
  <1>3. Knows(j, thread[f], after) \/ friendRows[f].state # "ACCEPTED"
    OBVIOUS
  <1> HIDE DEF j
  <1>4. after \in Seq(Ids) /\ Grown(ids, after)
    BY <1>1, Inserting DEF Grown
  <1>5. copied' = [copied EXCEPT ![f] = after]
    BY DEF insertServerMessage, Inserted, Has
  <1>6. WorkerGood(j, friendRows[f], thread[f], after)
    BY <1>1, <1>2, <1>3 DEF WorkerGood
  <1>7. friendRows[f].state \in {"ACCEPTED", "DELETED"}
    BY <1>1 DEF WorkerGood
  <1> QED BY <1>1, <1>2, <1>4, <1>5, <1>6, <1>7, WorkerCopies

\* The same without an insert.
LEMMA SkipStep ==
    ASSUME FriendInv, NEW w \in ReplayWorkers, worker[w].step # "rest",
           NEW step \in {"saveMessage", "saveThread", "complete"},
           worker' = [worker EXCEPT ![w].step = step],
           NEW f, f = worker[w].row,
           UNCHANGED <<friendRows, thread, blocks, sending, replay, copied, friendEvents>>,
           friendRows[f].state = "ACCEPTED" =>
              Knows([worker[w] EXCEPT !.step = step], thread[f], copied[f])
    PROVE  FriendInv'
  <1> PICK before : before = worker[w]
    OBVIOUS
  <1>1. /\ f \in FriendRows /\ before \in Copying
        /\ WorkerGood(before, friendRows[f], thread[f], copied[f])
    BY AtWork
  <1> DEFINE j == [before EXCEPT !.step = step]
  <1>2. j \in Copying /\ j.step = step /\ j.row = f /\ worker' = [worker EXCEPT ![w] = j]
    BY <1>1 DEF Copying, FriendInv, FriendType
  <1>3. Knows(j, thread[f], copied[f]) \/ friendRows[f].state # "ACCEPTED"
    OBVIOUS
  <1> HIDE DEF j
  <1>4. WorkerGood(j, friendRows[f], thread[f], copied[f])
    BY <1>1, <1>2, <1>3 DEF WorkerGood
  <1>5. friendEvents' \in Nat
    BY DEF FriendInv, FriendType
  <1> QED BY <1>1, <1>2, <1>4, <1>5, WorkerMoves

LEMMA MessageStep ==
    ASSUME FriendInv, NEW w \in ReplayWorkers, copyMessage(w)
    PROVE  FriendInv'
  <1> PICK f, before, ids, msgs, k :
        /\ f = worker[w].row /\ before = worker[w] /\ ids = copied[f] /\ msgs = worker[w].read
        /\ k = worker[w].index + 1
    OBVIOUS
  <1>1. before.step = "copy" /\ before.index \in Nat /\ k = before.index + 1
    BY FriendsAre DEF copyMessage, FriendInv, Copying
  <1>2. /\ f \in FriendRows /\ before \in Copying /\ ids \in Seq(Ids) /\ msgs \in Seq(Texts)
        /\ WorkerGood(before, friendRows[f], thread[f], ids)
        /\ RowGood(friendRows[f], replay[f], thread[f], ids)
    BY <1>1, AtWork DEF Copying
  <1>3. ASSUME friendRows[f].state = "ACCEPTED"
        PROVE  msgs = thread[f] /\ InOrder(ids, msgs) /\ Upto(ids, msgs, k - 1)
    <2>1. msgs = thread[f] /\ Reached(ids, msgs, before.stage, before.index)
      BY <1>1, <1>2, <1>3 DEF WorkerGood, Knows
    <2>2. InOrder(ids, msgs)
      BY <1>2, <1>3, <2>1 DEF RowGood
    <2>3. before.index = k - 1
      BY <1>1
    <2> QED BY <2>1, <2>2, <2>3 DEF Reached
  <1>4. Len(msgs) \in Nat /\ k \in Nat \ {0} /\ CleanIndices(msgs) \subseteq 1..Len(msgs)
    BY <1>1, <1>2, CleanAre
  <1> DEFINE saving == [before EXCEPT !.step = "saveMessage"]
             behind == [before EXCEPT !.step = "saveThread"]
  <1>5. /\ saving.step = "saveMessage" /\ saving.index + 1 = k /\ saving.read = msgs
        /\ behind.step = "saveThread" /\ behind.read = msgs
    BY <1>1, <1>2 DEF Copying
  <1> HIDE DEF saving, behind
  <1>6. CASE k <= Len(msgs) /\ worker' = [worker EXCEPT ![w].step = "saveMessage"]
             /\ (IF msgs[k] = "blocked" THEN UNCHANGED copied
                 ELSE insertServerMessage(f, <<"message", k>>))
    <2>1. ASSUME NEW after, Upto(after, msgs, k - 1),
                 k \in CleanIndices(msgs) => Has(after, <<"message", k>>),
                 friendRows[f].state = "ACCEPTED"
          PROVE  Knows(saving, thread[f], after)
      <3>1. \A i \in CleanIndices(msgs) : i <= k => i <= k - 1 \/ i = k
        BY <1>4
      <3>2. Reached(after, msgs, 2, k)
        BY <2>1, <3>1 DEF Upto, Reached
      <3> QED BY <1>3, <1>5, <2>1, <3>2 DEF Knows
    <2>2. CASE msgs[k] = "blocked"
      <3>1. k \notin CleanIndices(msgs)
        BY <2>2 DEF CleanIndices
      <3>2. friendRows[f].state = "ACCEPTED" => Knows(saving, thread[f], ids)
        BY <1>3, <2>1, <3>1
      <3> QED BY <1>1, <1>6, <2>2, <3>2, SkipStep DEF saving, copyMessage
    <2>3. CASE msgs[k] # "blocked"
      <3> DEFINE id == <<"message", k>>
      <3>1. k \in CleanIndices(msgs)
        <4>1. k \in 1..Len(msgs) /\ msgs[k] \in Texts
          BY <1>2, <1>4, <1>6, ElementOfSeq
        <4> QED BY <2>3, <4>1 DEF CleanIndices, Texts
      <3>2. id \in Ids /\ id[1] = "message" /\ id[2] = k
        BY <1>4 DEF Ids
      <3> HIDE DEF id
      <3>3. ASSUME friendRows[f].state = "ACCEPTED"
            PROVE  InOrder(Inserted(ids, id), msgs) /\ Knows(saving, thread[f], Inserted(ids, id))
        <4>1. ~Has(ids, id) => Place(id, Len(ids) + 1, msgs)
          <5>1. ~Has(ids, id) => Before(k, msgs) = Len(ids) + 1
            BY <1>2, <1>3, <3>1, <3>3, MessagePlace DEF id
          <5>2. msgs # <<>>
            BY <1>2, <3>1, CleanAre
          <5> QED BY <3>1, <3>2, <5>1, <5>2 DEF Place
        <4>2. InOrder(Inserted(ids, id), msgs)
          BY <1>2, <1>3, <3>2, <3>3, <4>1, InsertedInOrder
        <4>3. Grown(ids, Inserted(ids, id)) /\ Has(Inserted(ids, id), id)
          BY <1>2, <3>2, Inserting DEF Grown
        <4>4. Upto(Inserted(ids, id), msgs, k - 1)
          BY <1>3, <3>3, <4>3 DEF Upto, Grown
        <4>5. Knows(saving, thread[f], Inserted(ids, id))
          BY <2>1, <3>3, <4>3, <4>4 DEF id
        <4> QED BY <4>2, <4>5
      <3>4. friendRows[f].state = "ACCEPTED" =>
               /\ InOrder(Inserted(ids, id), thread[f])
               /\ Knows(saving, thread[f], Inserted(ids, id))
        BY <1>3, <3>3
      <3>5. insertServerMessage(f, id)
        BY <1>6, <2>3 DEF id
      <3> QED BY <1>1, <1>6, <3>2, <3>4, <3>5, CopyStep DEF saving, copyMessage
    <2> QED BY <2>2, <2>3
  <1>7. CASE k > Len(msgs) /\ worker' = [worker EXCEPT ![w].step = "saveThread"]
             /\ \/ msgs = <<>> /\ insertServerMessage(f, <<"greeting", 0>>)
                \/ UNCHANGED copied
    <2>1. ASSUME friendRows[f].state = "ACCEPTED", NEW after, Grown(ids, after)
          PROVE  Knows(behind, thread[f], after)
      <3>1. \A i \in CleanIndices(msgs) : i <= k - 1
        BY <1>4, <1>7
      <3>2. \A i \in CleanIndices(msgs) : Has(ids, <<"message", i>>)
        BY <1>3, <2>1, <3>1 DEF Upto
      <3>3. All(after, msgs)
        BY <2>1, <3>2 DEF All, Grown
      <3> QED BY <1>3, <1>5, <2>1, <3>3 DEF Knows
    <2>2. CASE UNCHANGED copied
      <3>1. friendRows[f].state = "ACCEPTED" => Knows(behind, thread[f], ids)
        BY <2>1 DEF Grown
      <3> QED BY <1>1, <1>7, <2>2, <3>1, SkipStep DEF behind, copyMessage
    <2>3. CASE msgs = <<>> /\ insertServerMessage(f, <<"greeting", 0>>)
      <3> DEFINE id == <<"greeting", 0>>
      <3>1. id \in Ids /\ id[1] = "greeting"
        BY DEF Ids
      <3> HIDE DEF id
      <3>2. ASSUME friendRows[f].state = "ACCEPTED"
            PROVE  InOrder(Inserted(ids, id), msgs) /\ Knows(behind, thread[f], Inserted(ids, id))
        <4>1. Place(id, Len(ids) + 1, msgs)
          BY <2>3, <3>1 DEF Place
        <4>2. InOrder(Inserted(ids, id), msgs)
          BY <1>2, <1>3, <3>1, <3>2, <4>1, InsertedInOrder
        <4>3. Grown(ids, Inserted(ids, id)) /\ Has(Inserted(ids, id), id)
          BY <1>2, <3>1, Inserting DEF Grown
        <4>4. Knows(behind, thread[f], Inserted(ids, id))
          BY <2>1, <3>2, <4>3
        <4> QED BY <4>2, <4>4
      <3>3. friendRows[f].state = "ACCEPTED" =>
               /\ InOrder(Inserted(ids, id), thread[f])
               /\ Knows(behind, thread[f], Inserted(ids, id))
        BY <1>3, <3>2
      <3>4. insertServerMessage(f, id)
        BY <2>3 DEF id
      <3> QED BY <1>1, <1>7, <3>1, <3>3, <3>4, CopyStep DEF behind, copyMessage
    <2> QED BY <1>7, <2>2, <2>3
  <1> QED BY <1>6, <1>7 DEF copyMessage

LEMMA ProgressStep ==
    ASSUME FriendInv, NEW w \in ReplayWorkers, saveProgress(w)
    PROVE  FriendInv'
  <1> PICK f, before : f = worker[w].row /\ before = worker[w]
    OBVIOUS
  <1>1. CASE before.step = "saveMessage" /\ persistProgress(w, 2, worker[w].index + 1, "copy")
    <2>1. /\ before \in Copying /\ WorkerGood(before, friendRows[f], thread[f], copied[f])
          /\ worker[w].step # "rest"
      BY <1>1, AtWork
    <2>2. worker[w].index + 1 \in Nat
      BY <2>1 DEF Copying
    <2>3. friendRows[f].state = "ACCEPTED" =>
             Reached(copied[f], thread[f], 2, worker[w].index + 1) /\ worker[w].read = thread[f]
      BY <1>1, <2>1 DEF WorkerGood, Knows
    <2> QED BY <1>1, <2>1, <2>2, <2>3, PersistStep DEF saveProgress
  <1>2. CASE before.step = "saveThread" /\ persistProgress(w, 3, worker[w].index, "reply")
    <2>1. /\ before \in Copying /\ WorkerGood(before, friendRows[f], thread[f], copied[f])
          /\ worker[w].step # "rest"
      BY <1>2, AtWork
    <2>2. worker[w].index \in Nat
      BY <2>1 DEF Copying
    <2>3. friendRows[f].state = "ACCEPTED" => All(copied[f], thread[f])
      BY <1>2, <2>1 DEF WorkerGood, Knows
    <2>4. friendRows[f].state = "ACCEPTED" => Reached(copied[f], thread[f], 3, worker[w].index)
      BY <2>3 DEF All, Upto, Reached
    <2> QED BY <1>2, <2>1, <2>2, <2>3, <2>4, PersistStep DEF saveProgress
  <1> QED BY <1>1, <1>2 DEF saveProgress

LEMMA ReplyStep ==
    ASSUME FriendInv, NEW w \in ReplayWorkers, copyReply(w)
    PROVE  FriendInv'
  <1> PICK f, before, ids, msgs :
        f = worker[w].row /\ before = worker[w] /\ ids = copied[f] /\ msgs = thread[f]
    OBVIOUS
  <1> DEFINE id == <<"reply", 0>>
             j == [before EXCEPT !.step = "complete"]
  <1>1. before.step = "reply"
    BY DEF copyReply
  <1>2. /\ f \in FriendRows /\ before \in Copying /\ ids \in Seq(Ids) /\ msgs \in Seq(Texts)
        /\ WorkerGood(before, friendRows[f], msgs, ids)
        /\ RowGood(friendRows[f], replay[f], msgs, ids)
    BY <1>1, AtWork
  <1>3. id \in Ids /\ id[1] = "reply" /\ j.step = "complete"
    BY <1>2 DEF Ids, Copying
  <1> HIDE DEF id, j
  <1>4. ASSUME friendRows[f].state = "ACCEPTED"
        PROVE  InOrder(Inserted(ids, id), msgs) /\ Knows(j, msgs, Inserted(ids, id))
    <2>1. InOrder(ids, msgs) /\ All(ids, msgs)
      BY <1>1, <1>2, <1>4 DEF WorkerGood, Knows, RowGood
    <2>2. ASSUME ~Has(ids, id) PROVE Place(id, Len(ids) + 1, msgs)
      <3>1. CASE msgs = <<>>
        BY <1>3, <3>1 DEF Place
      <3>2. CASE msgs # <<>>
        <4>1. Len(ids) = Cardinality(CleanIndices(msgs))
          BY <1>2, <2>1, <2>2, <3>2, ReplyPlace DEF id
        <4>2. Cardinality(CleanIndices(msgs)) \in Nat
          BY <1>2, CleanAre
        <4>3. Len(ids) + 1 = 1 + Cardinality(CleanIndices(msgs))
          BY <4>1, <4>2
        <4> QED BY <1>3, <3>2, <4>3 DEF Place
      <3> QED BY <3>1, <3>2
    <2>3. InOrder(Inserted(ids, id), msgs)
      BY <1>2, <1>3, <2>1, <2>2, InsertedInOrder
    <2>4. All(Inserted(ids, id), msgs)
      BY <1>2, <1>3, <2>1, Inserting DEF All
    <2> QED BY <1>3, <2>3, <2>4 DEF Knows
  <1>5. insertServerMessage(f, id) /\ worker' = [worker EXCEPT ![w].step = "complete"]
    BY DEF copyReply, id
  <1> QED BY <1>1, <1>3, <1>4, <1>5, CopyStep DEF j, copyReply

\* It is done with the job, in one way or another.
LEMMA EndStep ==
    ASSUME FriendInv, NEW w \in ReplayWorkers,
           completeReplay(w) \/ failReplay(w) \/ workerDies(w)
    PROVE  FriendInv'
  <1> PICK f, old : f = worker[w].row /\ old = replay[f]
    OBVIOUS
  <1>1. /\ friendEvents' \in Nat /\ worker' = [worker EXCEPT ![w] = Resting]
        /\ UNCHANGED <<friendRows, thread, blocks, sending, copied>>
    BY FriendEventsCount DEF completeReplay, failReplay, workerDies, FriendInv, FriendType
  <1>2. CASE replay' = replay
    BY <1>1, <1>2, RestStep
  <1>3. CASE completeReplay(w) /\ Leased(w)
    <2> DEFINE job == [status |-> "COMPLETED", stage |-> 4, index |-> old.index, lease |-> Nobody]
    <2>1. worker[w].step = "complete"
      BY <1>3 DEF completeReplay
    <2>2. /\ f \in FriendRows /\ WorkerGood(worker[w], friendRows[f], thread[f], copied[f])
          /\ RowGood(friendRows[f], old, thread[f], copied[f]) /\ old \in Replays
          /\ friendRows[f].state = "ACCEPTED"
      BY <1>3, <2>1, AtWork
    <2>3. job \in Replays /\ job.status = "COMPLETED" /\ job.stage = 4 /\ job.index = old.index
      BY <2>2 DEF Replays
    <2>4. replay' = [replay EXCEPT ![f] = job]
      BY <1>3, FriendsAre DEF completeReplay, FriendInv
    <2> HIDE DEF job
    <2>5. InOrder(copied[f], thread[f]) /\ All(copied[f], thread[f])
      BY <2>1, <2>2 DEF WorkerGood, Knows, RowGood
    <2>6. Reached(copied[f], thread[f], job.stage, job.index)
      BY <2>5 DEF All, Upto, Reached
    <2>7. RowGood(friendRows[f], job, thread[f], copied[f])
      BY <2>2, <2>5, <2>6 DEF RowGood
    <2> QED BY <1>1, <2>2, <2>3, <2>4, <2>7, RestingCopying, WorkerSaves
  <1>4. CASE failReplay(w) /\ Leased(w)
    <2> DEFINE job == [old EXCEPT !.status = "FAILED", !.lease = Nobody]
    <2>1. worker[w].step # "rest"
      BY <1>4 DEF failReplay
    <2>2. /\ f \in FriendRows
          /\ RowGood(friendRows[f], old, thread[f], copied[f]) /\ old \in Replays
          /\ friendRows[f].state = "ACCEPTED"
      BY <1>4, <2>1, AtWork
    <2>3. /\ job \in Replays /\ job.status = "FAILED" /\ job.stage = old.stage
          /\ job.index = old.index
      BY <2>2 DEF Replays
    <2>4. replay' = [replay EXCEPT ![f] = job]
      <3>1. replay' = [replay EXCEPT ![f].status = "FAILED", ![f].lease = Nobody]
        BY <1>4 DEF failReplay
      <3>2. f \in DOMAIN replay
        BY <2>2, FriendsAre DEF FriendInv
      <3> QED BY <3>1, <3>2
    <2> HIDE DEF job
    <2>5. RowGood(friendRows[f], job, thread[f], copied[f])
      BY <2>2, <2>3 DEF RowGood
    <2> QED BY <1>1, <2>2, <2>3, <2>4, <2>5, RestingCopying, WorkerSaves
  <1> QED BY <1>2, <1>3, <1>4 DEF completeReplay, failReplay, workerDies

LEMMA ReplaySteps ==
    ASSUME FriendInv, NEW w \in ReplayWorkers, ReplayStep(w)
    PROVE  FriendInv'
  BY ClaimStep, StartStep, ThreadStep, MessageStep, ProgressStep, ReplyStep, EndStep
     DEF ReplayStep

-----------------------------------------------------------------------------
(* The theorems about requests and their replay.                            *)

LEMMA FriendStart == FriendInit => FriendInv
  <1> SUFFICES ASSUME FriendInit PROVE FriendInv
    OBVIOUS
  <1>1. FriendRows = {}
    BY EmptySeq DEF FriendInit, FriendRows
  <1>2. /\ friendRows \in Seq(FriendRecords) /\ thread \in Seq(Seq(Texts))
        /\ replay \in Seq(Replays) /\ copied \in Seq(Seq(Ids))
    BY EmptySeq DEF FriendInit
  <1>3. worker \in [ReplayWorkers -> Copying] /\ \A w \in ReplayWorkers : worker[w].step = "rest"
    BY RestingCopying DEF FriendInit
  <1>4. FriendType
    BY <1>2, <1>3 DEF FriendInit, FriendType
  <1> QED BY <1>1, <1>3, <1>4 DEF FriendInv, RowsOK, WorkersOK, WorkerOK

LEMMA FriendNextKeeps == FriendInv /\ [FriendNext]_friendVars => FriendInv'
  <1> SUFFICES ASSUME FriendInv, [FriendNext]_friendVars PROVE FriendInv'
    OBVIOUS
  <1>1. CASE UNCHANGED friendVars
    BY <1>1, SameRows DEF friendVars, FriendInv, FriendType
  <1>2. CASE \/ \E u \in Pals : checkRequest(u) \/ blockUser(u) \/ unblockUser(u)
             \/ \E u \in Pals, m \in {<<>>, <<"clean">>} : sendRequest(u, m)
             \/ \E f \in FriendRows, t \in {"clean", "blocked"} : appendRequestMessage(f, t)
             \/ \E f \in FriendRows, s \in {"WITHDRAWN", "REJECTED"} : closeRequest(f, s)
             \/ \E f \in FriendRows : acceptRequest(f) \/ removeFriend(f)
    BY <1>2, RequestSteps
  <1>3. CASE \E w \in ReplayWorkers, f \in FriendRows : readReplay(w, f) \/ readStaleReplay(w, f)
    BY <1>3, ReadStep
  <1>4. CASE \E w \in ReplayWorkers : ReplayStep(w) \/ failReplay(w) \/ workerDies(w)
    BY <1>4, ReplaySteps, EndStep
  <1> QED BY <1>1, <1>2, <1>3, <1>4 DEF FriendNext

(* Of every request the chat holds nothing before it is accepted, then a    *)
(* beginning of its thread, and each worker of the replay knows rightly     *)
(* how far that goes.                                                       *)
THEOREM FriendInvariant == FriendSpec => []FriendInv
  BY FriendStart, FriendNextKeeps, PTL DEF FriendSpec

(* friend-chat-replay-outbox.processor.ts: as long as the friendship stands *)
(* the chat holds the thread in its order, each clean message once and no   *)
(* blocked one, and the answer behind all of it, or, for a request without  *)
(* messages, the greeting and the answer once at most, for any number of    *)
(* workers that take the job over from each other, fail or die.             *)
THEOREM ReplayedInOrder == FriendSpec => []ReplayInOrder
  <1>1. FriendInv => ReplayInOrder
    BY DEF FriendInv, RowsOK, RowOK, RowGood, InOrder, Place, ReplayInOrder
  <1> QED BY <1>1, FriendInvariant, PTL
=============================================================================
