------------------------------ MODULE PushOutbox ------------------------------
(***************************************************************************)
(* The push outbox of one notification: the job row, one delivery row for  *)
(* each device token of the recipient, the workers that process the job    *)
(* (the minute cron of every replica), the pollers that collect receipts,  *)
(* and what happens around them - tokens come and go, the announcement is  *)
(* deleted, an operator retries, a worker dies or loses its lease.         *)
(*                                                                         *)
(* Time is abstract: a backoff that ends and a lock that is ten minutes    *)
(* old are things that may happen at any moment.  A lease is named by the  *)
(* worker it was given to, which processes one job at a time.              *)
(***************************************************************************)
EXTENDS Integers, FiniteSets

CONSTANTS
    PushTokens,    \* device tokens of the recipient
    Expo,          \* the tokens served by Expo, whose tickets need receipts
    PushWorkers,   \* replicas running processPending
    PushPollers,   \* replicas running pollReceipts
    PushKinds,     \* what is pushed: "announcement", "circle", "plain"
    MaxAttempts,   \* DELIVERY_MAX_ATTEMPTS
    MaxPushEvents, \* crashes, failed statements, lost leases, operator's
                   \* retries and logouts looked at
    NoLease

ASSUME PushAssumption ==
    /\ "none" \notin PushKinds /\ NoLease \notin PushWorkers
    /\ MaxAttempts \in Nat /\ MaxPushEvents \in Nat

VARIABLES
    outbox,        \* the job: status, leaseToken, and whether completionReason
                   \* says that the announcement was deleted
    delivery,      \* the delivery row of each token: status and attempts
    active,        \* the recipient's tokens that are not disabled
    notice,        \* the notification: its kind, "none" before it is made, and
                   \* whether it is deleted
    pushJob,       \* what each worker has in hand
    poll,          \* what each poller has in hand
    pushEvents,    \* how many of them so far
    overtaken      \* a worker was still sending when its lease was taken away

pushVars == <<outbox, delivery, active, notice, pushJob, poll, pushEvents, overtaken>>

Retriable(t) == delivery[t].status \in {"PENDING", "FAILED"} /\ delivery[t].attempts < MaxAttempts
Exhausted(t) == delivery[t].status = "FAILED" /\ delivery[t].attempts >= MaxAttempts
AwaitingReceipt == \E t \in PushTokens : delivery[t].status = "SENT"

NoOutcome == [t \in {} |-> "retry"]
NoJob == [pc |-> "idle", listed |-> {}, pending |-> {}, outcome |-> NoOutcome]
HasLease(w) == outbox.status = "PROCESSING" /\ outbox.lease = w

\* Rows whose status is overwritten without looking at what it is.
Overwrite(S, status) ==
    delivery' = [t \in PushTokens |-> IF t \in S THEN [delivery[t] EXCEPT !.status = status]
                                                 ELSE delivery[t]]
Disable(S) == active' = active \ S

-----------------------------------------------------------------------------
(* processPending.                                                          *)

\* The worker whose lease is taken is dead, has given the job up, or is
\* about to send.
Sending(v) == v \in PushWorkers /\ pushJob[v].pc # "idle"

\* Fault: a job whose worker died is not found again.
claimJob_Fresh(w) ==
    /\ pushJob[w] = NoJob
    /\ outbox.status \in {"PENDING", "FAILED"}
    /\ outbox' = [outbox EXCEPT !.status = "PROCESSING", !.lease = w]
    /\ pushJob' = [pushJob EXCEPT ![w].pc = "claimed"]
    /\ UNCHANGED <<delivery, active, notice, poll, pushEvents, overtaken>>

claimJob(w) ==
    /\ pushJob[w] = NoJob
    /\ \/ outbox.status \in {"PENDING", "FAILED"} /\ UNCHANGED <<pushEvents, overtaken>>
       \/ /\ outbox.status = "PROCESSING" /\ ~Sending(outbox.lease)
          /\ UNCHANGED <<pushEvents, overtaken>>
       \/ /\ outbox.status = "PROCESSING" /\ Sending(outbox.lease)
          /\ pushEvents < MaxPushEvents
          /\ pushEvents' = pushEvents + 1 /\ overtaken' = TRUE
    /\ outbox' = [outbox EXCEPT !.status = "PROCESSING", !.lease = w]
    /\ pushJob' = [pushJob EXCEPT ![w].pc = "claimed"]
    /\ UNCHANGED <<delivery, active, notice, poll>>

Settled(w, status) ==
    /\ outbox' = IF HasLease(w)
                 THEN [outbox EXCEPT !.status = status, !.lease = NoLease] ELSE outbox
    /\ pushJob' = [pushJob EXCEPT ![w] = NoJob]

\* The recipient has switched pushes about circles off.
isCirclePushSkipped(w) ==
    /\ pushJob[w].pc = "claimed" /\ notice.kind = "circle"
    /\ Settled(w, "COMPLETED")
    /\ UNCHANGED <<delivery, active, notice, poll, pushEvents, overtaken>>

listActiveTokens(w) ==
    /\ pushJob[w].pc = "claimed"
    /\ pushJob' = [pushJob EXCEPT ![w].pc = "listed", ![w].listed = active]
    /\ delivery' = [t \in PushTokens |->
          IF t \in active /\ delivery[t].status = "none"
          THEN [status |-> "PENDING", attempts |-> 0] ELSE delivery[t]]
    /\ UNCHANGED <<outbox, active, notice, poll, pushEvents, overtaken>>

\* Fault: every row that is not confirmed is sent to.
pickDeliveries_All(w) ==
    /\ pushJob[w].pc = "listed"
    /\ LET pending == {t \in pushJob[w].listed : delivery[t].status # "CONFIRMED"} IN
       pushJob' = [pushJob EXCEPT ![w].pc = IF pending = {} THEN "empty" ELSE "picked",
                                  ![w].pending = pending]
    /\ UNCHANGED <<outbox, delivery, active, notice, poll, pushEvents, overtaken>>

\* Only rows still to be delivered are sent to; those whose token is no longer
\* the recipient's are given up.
pickDeliveries(w) ==
    /\ pushJob[w].pc = "listed"
    /\ LET retriable == {t \in PushTokens : Retriable(t)}
           pending == retriable \cap pushJob[w].listed IN
       /\ Overwrite(retriable \ pushJob[w].listed, "TERMINAL")
       /\ pushJob' = [pushJob EXCEPT ![w].pc = IF pending = {} THEN "empty" ELSE "picked",
                                     ![w].listed = {}, ![w].pending = pending]
    /\ UNCHANGED <<outbox, active, notice, poll, pushEvents, overtaken>>

\* Nothing left to send: a dead letter, unless a receipt may still come.
finishEmpty(w) ==
    /\ pushJob[w].pc = "empty"
    /\ Settled(w, IF (\E t \in PushTokens : Exhausted(t)) /\ ~AwaitingReceipt
                  THEN "TERMINAL" ELSE "COMPLETED")
    /\ UNCHANGED <<delivery, active, notice, poll, pushEvents, overtaken>>

\* The last look before sending, for announcements only.
recheckLease(w) ==
    /\ pushJob[w].pc = "picked"
    /\ IF notice.kind = "announcement" /\ ~(HasLease(w) /\ ~notice.deleted)
       THEN /\ Overwrite({t \in PushTokens : /\ delivery[t].status \in {"PENDING", "FAILED"}
                                             /\ outbox.cancelled}, "TERMINAL")
            /\ pushJob' = [pushJob EXCEPT ![w] = NoJob]
       ELSE pushJob' = [pushJob EXCEPT ![w].pc = "sending"] /\ UNCHANGED delivery
    /\ UNCHANGED <<outbox, active, notice, poll, pushEvents, overtaken>>

\* What the providers say of one message: Expo gives a ticket, JPush takes the
\* message for good; or the token is dead, the message cannot be sent, or the
\* error may pass.
ExpoOutcomes == {"ticket", "dead", "rejected", "retry"}
JPushOutcomes == {"final", "dead", "rejected", "retry"}
Outcomes(t) == IF t \in Expo THEN ExpoOutcomes ELSE JPushOutcomes

sendToTokens(w) ==
    /\ pushJob[w].pc = "sending"
    /\ \E outcome \in [pushJob[w].pending -> ExpoOutcomes \cup JPushOutcomes] :
          /\ \A t \in pushJob[w].pending : outcome[t] \in Outcomes(t)
          /\ pushJob' = [pushJob EXCEPT ![w].pc = "sent", ![w].outcome = outcome]
          /\ Disable({t \in pushJob[w].pending : outcome[t] = "dead"})
    /\ UNCHANGED <<outbox, delivery, notice, poll, pushEvents, overtaken>>

OutcomeStatus(o) == CASE o = "ticket" -> "SENT" [] o = "final" -> "CONFIRMED"
                      [] o \in {"dead", "rejected"} -> "TERMINAL" [] o = "retry" -> "FAILED"

deliveryOutcomeWrite(w, t) == [status |-> OutcomeStatus(pushJob[w].outcome[t]),
                               attempts |-> delivery[t].attempts + 1]

recordOutcomes(w) ==
    /\ pushJob[w].pc = "sent"
    /\ delivery' = [t \in PushTokens |-> IF t \in pushJob[w].pending
                                         THEN deliveryOutcomeWrite(w, t) ELSE delivery[t]]
    /\ pushJob' = [pushJob EXCEPT ![w].pc = "recorded",
           ![w].pending = {t \in pushJob[w].pending : pushJob[w].outcome[t] = "retry"},
           ![w].outcome = NoOutcome]
    /\ UNCHANGED <<outbox, active, notice, poll, pushEvents, overtaken>>

\* One token to be tried again fails the job, which is retried after a backoff.
finishJob(w) ==
    /\ pushJob[w].pc = "recorded"
    /\ IF pushJob[w].pending # {}
       THEN Settled(w, "FAILED") ELSE Settled(w, "COMPLETED")
    /\ UNCHANGED <<delivery, active, notice, poll, pushEvents, overtaken>>

\* A statement fails: the job is given back.
failJob(w) ==
    /\ pushJob[w].pc # "idle" /\ pushEvents < MaxPushEvents
    /\ Settled(w, "FAILED")
    /\ pushEvents' = pushEvents + 1
    /\ UNCHANGED <<delivery, active, notice, poll, overtaken>>

\* The process dies: the job stays PROCESSING until its lock is old.
PushCrash(w) ==
    /\ pushJob[w].pc # "idle" /\ pushEvents < MaxPushEvents
    /\ pushJob' = [pushJob EXCEPT ![w] = NoJob]
    /\ pushEvents' = pushEvents + 1
    /\ UNCHANGED <<outbox, delivery, active, notice, poll, overtaken>>

-----------------------------------------------------------------------------
(* pollReceipts.                                                            *)

NoPoll == [pc |-> "idle", rows |-> {}, close |-> FALSE]

\* Rows too young, or beyond the batch, are left for another time.
pollReceiptBatch(p) ==
    /\ poll[p] = NoPoll
    /\ \E rows \in SUBSET {t \in PushTokens : delivery[t].status = "SENT"} :
          /\ rows # {}
          /\ poll' = [poll EXCEPT ![p] = [NoPoll EXCEPT !.pc = "asked", !.rows = rows]]
    /\ UNCHANGED <<outbox, delivery, active, notice, pushJob, pushEvents, overtaken>>

Answered(p, t) == poll' = [poll EXCEPT ![p].rows = @ \ {t}]

\* Confirmed, or a day old and taken for delivered.
confirmReceipt(p, t) ==
    /\ t \in poll[p].rows
    /\ Overwrite({t} \cap {x \in PushTokens : delivery[x].status = "SENT"}, "CONFIRMED")
    /\ Answered(p, t)
    /\ UNCHANGED <<outbox, active, notice, pushJob, pushEvents, overtaken>>

deadReceipt(p, t) ==
    /\ t \in poll[p].rows
    /\ Overwrite({t} \cap {x \in PushTokens : delivery[x].status = "SENT"}, "TERMINAL")
    /\ Disable({t})
    /\ Answered(p, t)
    /\ UNCHANGED <<outbox, notice, pushJob, pushEvents, overtaken>>

\* An error that may pass: the row fails and the job is opened again, in one
\* transaction.
retryReceipt(p, t) ==
    /\ t \in poll[p].rows
    /\ IF delivery[t].status = "SENT"
       THEN /\ Overwrite({t}, "FAILED")
            /\ outbox' = IF outbox.status = "COMPLETED"
                         THEN [outbox EXCEPT !.status = "PENDING"] ELSE outbox
       ELSE UNCHANGED <<delivery, outbox>>
    /\ Answered(p, t)
    /\ UNCHANGED <<active, notice, pushJob, pushEvents, overtaken>>

\* No receipt yet, or the receipts cannot be fetched: another round.
noReceipt(p, t) ==
    /\ t \in poll[p].rows
    /\ Answered(p, t)
    /\ UNCHANGED <<outbox, delivery, active, notice, pushJob, pushEvents, overtaken>>

\* reconcileCompletedOutboxes counts, and then closes what it has counted.
countRows(p) ==
    /\ poll[p].pc = "asked" /\ poll[p].rows = {}
    /\ poll' = [poll EXCEPT ![p] = [NoPoll EXCEPT !.pc = "counted",
                    !.close = (\E t \in PushTokens : Exhausted(t)) /\ ~AwaitingReceipt]]
    /\ UNCHANGED <<outbox, delivery, active, notice, pushJob, pushEvents, overtaken>>

reconcileCompletedOutboxes(p) ==
    /\ poll[p].pc = "counted"
    /\ outbox' = IF poll[p].close /\ outbox.status = "COMPLETED"
                 THEN [outbox EXCEPT !.status = "TERMINAL"] ELSE outbox
    /\ poll' = [poll EXCEPT ![p] = NoPoll]
    /\ UNCHANGED <<delivery, active, notice, pushJob, pushEvents, overtaken>>

-----------------------------------------------------------------------------
(* Around the job.                                                          *)

\* The notification and its job are written in one transaction.
createNotification(kind) ==
    /\ notice.kind = "none"
    /\ notice' = [notice EXCEPT !.kind = kind]
    /\ outbox' = [outbox EXCEPT !.status = "PENDING"]
    /\ UNCHANGED <<delivery, active, pushJob, poll, pushEvents, overtaken>>

\* A device registers its token, also one that was disabled.
registerPushToken(t) ==
    /\ t \notin active
    /\ active' = active \cup {t}
    /\ UNCHANGED <<outbox, delivery, notice, pushJob, poll, pushEvents, overtaken>>

ForgetToken(t) ==
    /\ t \in active /\ pushEvents < MaxPushEvents
    /\ active' = active \ {t}
    /\ pushEvents' = pushEvents + 1
    /\ UNCHANGED <<outbox, delivery, notice, pushJob, poll, overtaken>>

\* Logout, or another account on the device; the cleanup of old tokens.
deletePushToken(t) == ForgetToken(t)
deleteStaleTokens(t) == ForgetToken(t)

\* The recipient's batch of deleteAnnouncement; the announcement has been
\* delivered to all its recipients.
deleteAnnouncement ==
    /\ notice.kind = "announcement" /\ ~notice.deleted
    /\ notice' = [notice EXCEPT !.deleted = TRUE]
    /\ outbox' = IF outbox.status \in {"PENDING", "FAILED", "PROCESSING"}
                 THEN [status |-> "TERMINAL", lease |-> NoLease, cancelled |-> TRUE]
                 ELSE outbox
    /\ Overwrite({t \in PushTokens : delivery[t].status \in {"PENDING", "FAILED"}}, "TERMINAL")
    /\ overtaken' = (overtaken \/ \E w \in PushWorkers : pushJob[w].pc \in {"sending", "sent"})
    /\ UNCHANGED <<active, pushJob, poll, pushEvents>>

\* An operator retries a failed job from the console.
retryPush ==
    /\ outbox.status = "FAILED" /\ pushEvents < MaxPushEvents
    /\ pushEvents' = pushEvents + 1
    /\ delivery' = [t \in PushTokens |-> IF delivery[t].status = "FAILED"
                                         THEN [delivery[t] EXCEPT !.attempts = 0] ELSE delivery[t]]
    /\ outbox' = [outbox EXCEPT !.status = "PENDING", !.lease = NoLease]
    /\ UNCHANGED <<active, notice, pushJob, poll, overtaken>>

PushInit ==
    /\ outbox = [status |-> "none", lease |-> NoLease, cancelled |-> FALSE]
    /\ delivery = [t \in PushTokens |-> [status |-> "none", attempts |-> 0]]
    /\ active = {}
    /\ notice = [kind |-> "none", deleted |-> FALSE]
    /\ pushJob = [w \in PushWorkers |-> NoJob]
    /\ poll = [p \in PushPollers |-> NoPoll]
    /\ pushEvents = 0
    /\ overtaken = FALSE

\* The steps of a worker that has a job.
Works(w) == \/ isCirclePushSkipped(w) \/ listActiveTokens(w) \/ pickDeliveries(w)
            \/ finishEmpty(w) \/ recheckLease(w) \/ sendToTokens(w)
            \/ recordOutcomes(w) \/ finishJob(w)

PushNext ==
    \/ \E w \in PushWorkers : claimJob(w) \/ Works(w) \/ failJob(w) \/ PushCrash(w)
    \/ \E p \in PushPollers : \/ pollReceiptBatch(p) \/ countRows(p) \/ reconcileCompletedOutboxes(p)
                              \/ \E t \in PushTokens : \/ confirmReceipt(p, t) \/ deadReceipt(p, t)
                                                       \/ retryReceipt(p, t) \/ noReceipt(p, t)
    \/ \E t \in PushTokens : registerPushToken(t) \/ deletePushToken(t) \/ deleteStaleTokens(t)
    \/ \E kind \in PushKinds : createNotification(kind)
    \/ deleteAnnouncement \/ retryPush

PushSpec == PushInit /\ [][PushNext]_pushVars

\* The cron comes round on every replica, and a worker with a job goes on.
PushFairness == \A w \in PushWorkers : WF_pushVars(claimJob(w)) /\ WF_pushVars(Works(w))

-----------------------------------------------------------------------------
(* Properties.                                                              *)

Promise == INSTANCE PushDelivery WITH
    Devices <- PushTokens, Limit <- MaxAttempts, torn <- overtaken,
    row <- [t \in PushTokens |-> [status |-> delivery[t].status, tries |-> delivery[t].attempts]]

\* notification-push-outbox.processor: retries only go to tokens still PENDING
\* or FAILED, SENT, CONFIRMED and TERMINAL are never pushed again - while the
\* job is retried, opened again by receipts, polled by several replicas and
\* its tokens come and go.
KeepsPromise == Promise!Spec

\* A job ends, whatever fails on the way; a deleted announcement aside, whose
\* receipts may open the job again without anybody closing it.
PushEnds == outbox.status = "PENDING" ~> outbox.status \in {"COMPLETED", "TERMINAL"} \/ notice.deleted

\* notification-push.service: a row marked FAILED by a receipt and its job
\* opened again must go together, or the failure never has another sweep.
FailedIsRetried ==
    /\ outbox.status = "COMPLETED" /\ ~overtaken
    /\ \A w \in PushWorkers : pushJob[w].pc = "idle"
    => \A t \in PushTokens : ~Retriable(t)
=============================================================================
