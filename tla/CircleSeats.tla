----------------------------- MODULE CircleSeats -----------------------------
(***************************************************************************)
(* The seats of a circle's chat and how they are kept in step with its     *)
(* active members.  Modelled from chat-circle-sync.service.ts and from the *)
(* callers in circle-invitation.service.ts, circle.service.ts and          *)
(* group.service.ts.                                                       *)
(*                                                                         *)
(* An admission commits first and asks for a run of                        *)
(* ensureCircleConversation afterwards; requests of one process share      *)
(* runs.  A cron scans recently changed member rows and repeats what       *)
(* failed.  A leaving deletes the row, which no scan can see, so it frees  *)
(* the seat in its own transaction.  A run reads the difference between    *)
(* members and seats in one statement and writes it in others, under a     *)
(* lock that a leaving does not take.                                      *)
(***************************************************************************)
EXTENDS Naturals, FiniteSets

CONSTANTS
  SeatUsers,        \* users who come and go
  SeatOwner,        \* the owner, a member with a seat who never leaves
  SyncRuns,         \* who may run ensureCircleConversation: "request", "cron", "dissolve"
  MaxSeatEvents,    \* bound on admissions and leavings
  MaxSyncFaults     \* bound on failed runs and crashes

ASSUME SeatAssumption ==
  /\ SeatOwner \notin SeatUsers
  /\ SyncRuns \subseteq {"request", "cron", "dissolve"}
  /\ MaxSeatEvents \in Nat /\ MaxSyncFaults \in Nat

VARIABLES
  seatEvents,       \* admissions and leavings so far
  syncFaults,       \* failures and crashes so far
  members,          \* users with an ACTIVE member row
  recent,           \* users whose row changed and was not scanned since
  dissolved,        \* Circle.deleted
  seats,            \* users with a ChatMember row whose leftAt is null
  run,              \* per run: its step and the difference it read
  again,            \* coalescedSyncs: one more run follows the current one
  retry,            \* the in-memory retryQueue holds the circle
  durable           \* a row of ChatCircleSyncRetry exists

seatVars == <<seatEvents, syncFaults, members, recent, dissolved, seats, run,
              again, retry, durable>>

NoRun == [step |-> "idle", join |-> {}, remove |-> {}, page |-> {}]
LockHolders == {r \in SyncRuns : run[r].step = "apply"}

-----------------------------------------------------------------------------
(* Members *)

(* activateMembers commits; syncCircleSeatsCoalesced starts a run or, as the
   current one may have read the rows already, has another one follow it. *)
admit(u) ==
  /\ ~dissolved /\ u \notin members
  /\ seatEvents < MaxSeatEvents /\ seatEvents' = seatEvents + 1
  /\ members' = members \union {u}
  /\ recent' = recent \union {u}
  /\ IF run["request"] = NoRun
       THEN run' = [r \in SyncRuns |->
              IF r = "request" THEN [NoRun EXCEPT !.step = "read"]
              ELSE [run[r] EXCEPT !.page = @ \ {u}]]
            /\ UNCHANGED again
       ELSE /\ run' = [r \in SyncRuns |-> [run[r] EXCEPT !.page = @ \ {u}]]
            /\ again' = TRUE
  /\ UNCHANGED <<syncFaults, dissolved, seats, retry, durable>>

(* leaveCircle, leaveGroup, removeGroupMember: the row and the seat go in one
   transaction (releaseSeatInTx). *)
leave(u) ==
  /\ u \in members
  /\ seatEvents < MaxSeatEvents /\ seatEvents' = seatEvents + 1
  /\ members' = members \ {u}
  /\ recent' = recent \ {u}
  /\ seats' = seats \ {u}
  /\ UNCHANGED <<syncFaults, dissolved, run, again, retry, durable>>

(* dissolveCircle waits for the lock of the runs, marks the circle and then
   runs ensureCircleConversation once. *)
dissolve ==
  /\ ~dissolved /\ LockHolders = {}
  /\ dissolved' = TRUE
  /\ run' = [run EXCEPT !["dissolve"].step = "read"]
  /\ UNCHANGED <<seatEvents, syncFaults, members, recent, seats, again, retry, durable>>

-----------------------------------------------------------------------------
(* Runs *)

(* What follows the end of run r: a coalesced run is repeated if asked for. *)
Finished(r) == IF r = "request" /\ again THEN [NoRun EXCEPT !.step = "read"] ELSE NoRun

(* ensureCircleConversation reads the circle, without a lock. *)
readCircle(r) ==
  /\ run[r].step = "read"
  /\ run' = [run EXCEPT ![r].step = IF dissolved THEN "evict" ELSE "lock"]
  /\ UNCHANGED <<seatEvents, syncFaults, members, recent, dissolved, seats, again,
                 retry, durable>>

(* It takes the lock, reads the circle again and, in one statement, the
   difference between members and seats. *)
readDiff(r) ==
  /\ run[r].step = "lock" /\ LockHolders = {}
  /\ run' = [run EXCEPT ![r] =
       IF dissolved THEN [@ EXCEPT !.step = "evict"]
       ELSE [@ EXCEPT !.step = "apply",
                      !.join = (members \union {SeatOwner}) \ seats,
                      !.remove = seats \ (members \union {SeatOwner})]]
  /\ UNCHANGED <<seatEvents, syncFaults, members, recent, dissolved, seats, again,
                 retry, durable>>

(* The end of a run that worked: the cron has dealt with its page and with
   the rows that waited for a retry. *)
EndRun(r) ==
  /\ run' = [run EXCEPT ![r] = Finished(r)]
  /\ again' = IF r = "request" THEN FALSE ELSE again
  /\ recent' = IF r = "cron" THEN recent \ run[r].page ELSE recent
  /\ durable' = IF r = "cron" THEN FALSE ELSE durable

(* applySeatDiff writes the difference that was read and commits. *)
applySeatDiff(r) ==
  /\ run[r].step = "apply"
  /\ seats' = (seats \union run[r].join) \ run[r].remove
  /\ EndRun(r)
  /\ UNCHANGED <<seatEvents, syncFaults, members, dissolved, retry>>

(* evictAllSeats, for a circle that is gone. *)
evictAllSeats(r) ==
  /\ run[r].step = "evict"
  /\ seats' = {}
  /\ EndRun(r)
  /\ UNCHANGED <<seatEvents, syncFaults, members, dissolved, retry>>

(* A run whose failure is only written to the log. *)
runFails_Logged(r) ==
  /\ run[r] # NoRun
  /\ syncFaults < MaxSyncFaults /\ syncFaults' = syncFaults + 1
  /\ run' = [run EXCEPT ![r] = Finished(r)]
  /\ again' = IF r = "request" THEN FALSE ELSE again
  /\ recent' = IF r = "cron" THEN recent \ run[r].page ELSE recent
  /\ UNCHANGED <<seatEvents, members, dissolved, seats, retry, durable>>

(* A run fails and rolls back.  A requested one is put on the in-memory queue
   (scheduleRetry); reconcileCircles also writes the durable row before its
   page counts as dealt with; dissolveCircle only logs. *)
runFails(r) ==
  /\ run[r] # NoRun
  /\ syncFaults < MaxSyncFaults /\ syncFaults' = syncFaults + 1
  /\ run' = [run EXCEPT ![r] = Finished(r)]
  /\ again' = IF r = "request" THEN FALSE ELSE again
  /\ recent' = IF r = "cron" THEN recent \ run[r].page ELSE recent
  /\ retry' = (retry \/ r \in {"request", "cron"})
  /\ durable' = (durable \/ r = "cron")
  /\ UNCHANGED <<seatEvents, members, dissolved, seats>>

(* reconcileRecent, once a minute under a lease: the circles of recently
   changed rows, of the queue and of the durable rows.  The window is longer
   than the interval and its start is saved before the work begins, so a
   changed row is scanned at least once, by the next process if this one
   dies within the window. *)
reconcileRecent ==
  /\ run["cron"] = NoRun
  /\ recent # {} \/ retry \/ durable
  /\ run' = [run EXCEPT !["cron"] = [NoRun EXCEPT !.step = "read", !.page = recent]]
  /\ retry' = FALSE
  /\ UNCHANGED <<seatEvents, syncFaults, members, recent, dissolved, seats, again, durable>>

(* The process stops: runs and the in-memory queue are gone. *)
crash ==
  /\ syncFaults < MaxSyncFaults /\ syncFaults' = syncFaults + 1
  /\ \E r \in SyncRuns : run[r] # NoRun
  /\ run' = [r \in SyncRuns |-> NoRun]
  /\ again' = FALSE /\ retry' = FALSE
  /\ UNCHANGED <<seatEvents, members, recent, dissolved, seats, durable>>

-----------------------------------------------------------------------------
SeatInit ==
  /\ seatEvents = 0 /\ syncFaults = 0
  /\ members = {} /\ recent = {} /\ dissolved = FALSE
  /\ seats = {SeatOwner}
  /\ run = [r \in SyncRuns |-> NoRun]
  /\ again = FALSE /\ retry = FALSE /\ durable = FALSE

RunStep(r) == readCircle(r) \/ readDiff(r) \/ applySeatDiff(r) \/ evictAllSeats(r)

SeatNext ==
  \/ \E u \in SeatUsers : admit(u) \/ leave(u)
  \/ dissolve
  \/ \E r \in SyncRuns : RunStep(r) \/ runFails(r)
  \/ reconcileRecent
  \/ crash

SeatSpec == SeatInit /\ [][SeatNext]_seatVars

(* A run that began goes on, and the cron fires every minute; failures and
   crashes are not fair and stop at MaxSyncFaults. *)
SeatFairness ==
  /\ \A r \in SyncRuns : SF_seatVars(RunStep(r))
  /\ WF_seatVars(reconcileRecent)

-----------------------------------------------------------------------------
(* Properties *)

(* Whoever is a member of a circle that is not dissolved has a seat sooner or
   later, however the run that should have given it failed: by the run that
   follows a run in progress, by the queue, by the durable row or by the scan
   after a crash. *)
MembersAreSeated ==
  \A u \in SeatUsers : []<>(u \notin members \/ dissolved \/ u \in seats)
=============================================================================
