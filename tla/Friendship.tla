----------------------------- MODULE Friendship ------------------------------
(***************************************************************************)
(* Friend requests between two users, blocking, and the outbox that copies *)
(* the thread of an accepted request into the chat.  Modelled from         *)
(* friend.service.ts and friend-chat-replay-outbox.processor.ts.           *)
(*                                                                         *)
(* A request is checked outside the transaction that writes it; a block    *)
(* takes other locks than a request.  A copying job is claimed with a      *)
(* lease, writes one message after the other and its progress after each,  *)
(* and may be taken over while its first worker still writes.              *)
(***************************************************************************)
EXTENDS Naturals, Sequences, FiniteSets

CONSTANTS
  Pals,             \* the two users
  MaxFriendRows,    \* bound on the requests ever written
  MaxThread,        \* bound on the messages of a request (TOTAL_CAP, soft cap)
  ReplayWorkers,    \* processRequest and processPending of the processes
  MaxFriendEvents,  \* bound on blocks, removals, failures, crashes and take-overs
  Nobody            \* no lease

ASSUME FriendAssumption ==
  /\ Cardinality(Pals) = 2
  /\ MaxFriendRows \in Nat /\ MaxThread \in Nat /\ MaxFriendEvents \in Nat
  /\ Nobody \notin ReplayWorkers

VARIABLES
  friendRows,       \* the rows of Friend ever written; state "DELETED" once removed
  thread,           \* per row: its messages, "clean" or "blocked" by the word filter
  blocks,           \* users with a Block against the other
  sending,          \* users whose sendRequest passed its checks and has not written
  replay,              \* per row: its FriendChatReplayOutbox row
  worker,           \* per worker: what it read and what it does next
  copied,           \* per row: what the chat holds of it, by clientMessageId
  friendEvents

friendVars == <<friendRows, thread, blocks, sending, replay, worker, copied, friendEvents>>

FriendRows == DOMAIN friendRows
Other(u) == CHOOSE v \in Pals : v # u
Active(f) == friendRows[f].state \in {"PENDING", "ACCEPTED"}
NoReplay == [status |-> "none", stage |-> 0, index |-> 0, lease |-> Nobody]
Resting == [step |-> "rest", row |-> 0, seen |-> NoReplay, stage |-> 0, index |-> 0,
            read |-> <<>>]
FriendEvent == friendEvents < MaxFriendEvents /\ friendEvents' = friendEvents + 1

-----------------------------------------------------------------------------
(* Requests *)

(* sendRequest up to its transaction: the block is looked up in both
   directions.  (Privacy, discovery and the limit of friends refuse in the
   same way.) *)
checkRequest(u) ==
  /\ u \notin sending /\ blocks = {}
  /\ sending' = sending \union {u}
  /\ UNCHANGED <<friendRows, thread, blocks, replay, worker, copied, friendEvents>>

(* The transaction of sendRequest, under the lock of the pair: no second
   active row; a message becomes the first of the thread. *)
sendRequest(u, message) ==
  /\ u \in sending
  /\ sending' = sending \ {u}
  /\ LET n == Len(friendRows) + 1 IN
       IF \E f \in FriendRows : Active(f)
         THEN UNCHANGED <<friendRows, thread, replay, copied>>
         ELSE /\ n <= MaxFriendRows
              /\ friendRows' = Append(friendRows, [sender |-> u, state |-> "PENDING"])
              /\ thread' = Append(thread, message)
              /\ replay' = Append(replay, NoReplay)
              /\ copied' = Append(copied, <<>>)
  /\ UNCHANGED <<blocks, worker, friendEvents>>

(* appendRequestMessage, by either side while the request is open. *)
appendRequestMessage(f, text) ==
  /\ friendRows[f].state = "PENDING" /\ Len(thread[f]) < MaxThread
  /\ thread' = [thread EXCEPT ![f] = Append(@, text)]
  /\ UNCHANGED <<friendRows, blocks, sending, replay, worker, copied, friendEvents>>

(* cancelRequest by the sender, or handleRequest with a rejection. *)
closeRequest(f, state) ==
  /\ friendRows[f].state = "PENDING" /\ state \in {"WITHDRAWN", "REJECTED"}
  /\ friendRows' = [friendRows EXCEPT ![f].state = state]
  /\ UNCHANGED <<thread, blocks, sending, replay, worker, copied, friendEvents>>

(* handleRequest, accepted: the row and the job in one transaction, under the
   lock that appendRequestMessage takes. *)
acceptRequest(f) ==
  /\ friendRows[f].state = "PENDING"
  /\ friendRows' = [friendRows EXCEPT ![f].state = "ACCEPTED"]
  /\ replay' = [replay EXCEPT ![f] = [NoReplay EXCEPT !.status = "PENDING"]]
  /\ UNCHANGED <<thread, blocks, sending, worker, copied, friendEvents>>

(* Deleting a row takes its thread and its job along (ON DELETE CASCADE). *)
Deleted(rows) ==
  /\ friendRows' = [f \in FriendRows |->
       IF f \in rows THEN [friendRows[f] EXCEPT !.state = "DELETED"] ELSE friendRows[f]]
  /\ thread' = [f \in FriendRows |-> IF f \in rows THEN <<>> ELSE thread[f]]
  /\ replay' = [f \in FriendRows |-> IF f \in rows THEN NoReplay ELSE replay[f]]

removeFriend(f) ==
  /\ friendRows[f].state = "ACCEPTED"
  /\ Deleted({f})
  /\ FriendEvent
  /\ UNCHANGED <<blocks, sending, worker, copied>>

(* blockUser deletes the rows of the pair in any state and writes the block. *)
blockUser(u) ==
  /\ u \notin blocks
  /\ Deleted(FriendRows)
  /\ blocks' = blocks \union {u}
  /\ FriendEvent
  /\ UNCHANGED <<sending, worker, copied>>

unblockUser(u) ==
  /\ u \in blocks
  /\ blocks' = blocks \ {u}
  /\ FriendEvent
  /\ UNCHANGED <<friendRows, thread, sending, replay, worker, copied>>

-----------------------------------------------------------------------------
(* The replay of an accepted request *)

(* processRequest and processPending read the job first.  A job PROCESSING is
   read only when its lock is old, which its worker need not have noticed. *)
readReplay(w, f) ==
  /\ worker[w] = Resting
  /\ \/ replay[f].status \in {"PENDING", "FAILED"} /\ UNCHANGED friendEvents
     \/ replay[f].status = "PROCESSING" /\ FriendEvent
  /\ worker' = [worker EXCEPT ![w] =
       [Resting EXCEPT !.step = "claim", !.row = f, !.seen = replay[f]]]
  /\ UNCHANGED <<friendRows, thread, blocks, sending, replay, copied>>

(* The claim compares what was read: the status and, for a job PROCESSING,
   lockedAt, which every write of progress renews.  The worker goes on from
   the stage and index it read before. *)
claimReplay(w) ==
  LET f == worker[w].row
      seen == worker[w].seen IN
  /\ worker[w].step = "claim"
  /\ IF replay[f].status = seen.status /\ (seen.status = "PROCESSING" => replay[f] = seen)
       THEN /\ replay' = [replay EXCEPT ![f].status = "PROCESSING", ![f].lease = w]
            /\ worker' = [worker EXCEPT ![w].step = "start", ![w].index = seen.index,
                                        ![w].stage = seen.stage]
       ELSE /\ worker' = [worker EXCEPT ![w] = Resting]
            /\ UNCHANGED replay
  /\ UNCHANGED <<friendRows, thread, blocks, sending, copied, friendEvents>>

Leased(w) == replay[worker[w].row].status = "PROCESSING" /\ replay[worker[w].row].lease = w

(* persistProgress: written only under the lease; without it the worker
   fails, and its own failure is then not written either. *)
persistProgress(w, stage, index, step) ==
  IF Leased(w)
    THEN /\ replay' = [replay EXCEPT ![worker[w].row].stage = stage,
                               ![worker[w].row].index = index]
         /\ worker' = [worker EXCEPT ![w].step = step, ![w].stage = stage,
                                     ![w].index = index]
    ELSE /\ worker' = [worker EXCEPT ![w] = Resting]
         /\ UNCHANGED replay

(* Stages 0 and 1 have nothing to do any more; then the thread is read. *)
startReplay(w) ==
  /\ worker[w].step = "start"
  /\ IF worker[w].stage < 2
       THEN persistProgress(w, 2, worker[w].index, "read")
       ELSE worker' = [worker EXCEPT ![w].step = "read"] /\ UNCHANGED replay
  /\ UNCHANGED <<friendRows, thread, blocks, sending, copied, friendEvents>>

readThread(w) ==
  /\ worker[w].step = "read"
  /\ worker' = [worker EXCEPT ![w].read = thread[worker[w].row],
                              ![w].step = IF worker[w].stage = 2 THEN "copy" ELSE "reply"]
  /\ UNCHANGED <<friendRows, thread, blocks, sending, replay, copied, friendEvents>>

(* insertServerMessage without the lookup. *)
insertServerMessage_Always(f, id) ==
  copied' = [copied EXCEPT ![f] = Append(@, id)]

(* insertServerMessage finds a message with the same clientMessageId. *)
insertServerMessage(f, id) ==
  copied' = [copied EXCEPT ![f] =
    IF \E k \in 1..Len(@) : @[k] = id THEN @ ELSE Append(@, id)]

(* The next message of the thread, unless the word filter stops it; a request
   without messages is copied as a greeting, unless the filter stops that.
   The greeting may hold the requester's nickname as it is now: the filter may
   judge it differently at every attempt. *)
copyMessage(w) ==
  LET f == worker[w].row
      k == worker[w].index + 1
      msgs == worker[w].read IN
  /\ worker[w].step = "copy"
  /\ \/ /\ k <= Len(msgs)
        /\ IF msgs[k] = "blocked" THEN UNCHANGED copied
           ELSE insertServerMessage(f, <<"message", k>>)
        /\ worker' = [worker EXCEPT ![w].step = "saveMessage"]
     \/ /\ k > Len(msgs)
        /\ \/ msgs = <<>> /\ insertServerMessage(f, <<"greeting", 0>>)
           \/ UNCHANGED copied
        /\ worker' = [worker EXCEPT ![w].step = "saveThread"]
  /\ UNCHANGED <<friendRows, thread, blocks, sending, replay, friendEvents>>

(* The progress behind a copied message, and behind the whole thread. *)
saveProgress(w) ==
  /\ \/ /\ worker[w].step = "saveMessage"
        /\ persistProgress(w, 2, worker[w].index + 1, "copy")
     \/ /\ worker[w].step = "saveThread"
        /\ persistProgress(w, 3, worker[w].index, "reply")
  /\ UNCHANGED <<friendRows, thread, blocks, sending, copied, friendEvents>>

copyReply(w) ==
  /\ worker[w].step = "reply"
  /\ insertServerMessage(worker[w].row, <<"reply", 0>>)
  /\ worker' = [worker EXCEPT ![w].step = "complete"]
  /\ UNCHANGED <<friendRows, thread, blocks, sending, replay, friendEvents>>

completeReplay(w) ==
  /\ worker[w].step = "complete"
  /\ replay' = IF Leased(w)
              THEN [replay EXCEPT ![worker[w].row] =
                     [status |-> "COMPLETED", stage |-> 4, index |-> @.index,
                      lease |-> Nobody]]
              ELSE replay
  /\ worker' = [worker EXCEPT ![w] = Resting]
  /\ UNCHANGED <<friendRows, thread, blocks, sending, copied, friendEvents>>

(* A failed job that is given up. *)
failReplay_GivesUp(w) ==
  /\ worker[w].step \in {"start", "read", "copy", "saveMessage", "saveThread", "reply"}
  /\ FriendEvent
  /\ replay' = IF Leased(w)
              THEN [replay EXCEPT ![worker[w].row].status = "COMPLETED"] ELSE replay
  /\ worker' = [worker EXCEPT ![w] = Resting]
  /\ UNCHANGED <<friendRows, thread, blocks, sending, copied>>

(* An error: the job is FAILED and due again, if the lease is still held. *)
failReplay(w) ==
  /\ worker[w].step \in {"start", "read", "copy", "saveMessage", "saveThread", "reply"}
  /\ FriendEvent
  /\ replay' = IF Leased(w)
              THEN [replay EXCEPT ![worker[w].row].status = "FAILED",
                               ![worker[w].row].lease = Nobody]
              ELSE replay
  /\ worker' = [worker EXCEPT ![w] = Resting]
  /\ UNCHANGED <<friendRows, thread, blocks, sending, copied>>

(* The process stops. *)
workerDies(w) ==
  /\ worker[w] # Resting
  /\ FriendEvent
  /\ worker' = [worker EXCEPT ![w] = Resting]
  /\ UNCHANGED <<friendRows, thread, blocks, sending, replay, copied>>

(* A job whose worker is gone is read again when its lock is old. *)
readStaleReplay(w, f) ==
  /\ worker[w] = Resting
  /\ replay[f].status = "PROCESSING"
  /\ \A v \in ReplayWorkers : worker[v].row = f => worker[v].step = "claim"
  /\ worker' = [worker EXCEPT ![w] =
       [Resting EXCEPT !.step = "claim", !.row = f, !.seen = replay[f]]]
  /\ UNCHANGED <<friendRows, thread, blocks, sending, replay, copied, friendEvents>>

-----------------------------------------------------------------------------
FriendInit ==
  /\ friendRows = <<>> /\ thread = <<>> /\ replay = <<>> /\ copied = <<>>
  /\ blocks = {} /\ sending = {}
  /\ worker = [w \in ReplayWorkers |-> Resting]
  /\ friendEvents = 0

ReplayStep(w) ==
  \/ claimReplay(w) \/ startReplay(w) \/ readThread(w) \/ copyMessage(w)
  \/ saveProgress(w) \/ copyReply(w) \/ completeReplay(w)

FriendNext ==
  \/ \E u \in Pals : checkRequest(u) \/ blockUser(u) \/ unblockUser(u)
  \/ \E u \in Pals, m \in {<<>>, <<"clean">>} : sendRequest(u, m)
  \/ \E f \in FriendRows, t \in {"clean", "blocked"} : appendRequestMessage(f, t)
  \/ \E f \in FriendRows, s \in {"WITHDRAWN", "REJECTED"} : closeRequest(f, s)
  \/ \E f \in FriendRows : acceptRequest(f) \/ removeFriend(f)
  \/ \E w \in ReplayWorkers, f \in FriendRows : readReplay(w, f) \/ readStaleReplay(w, f)
  \/ \E w \in ReplayWorkers : ReplayStep(w) \/ failReplay(w) \/ workerDies(w)

FriendSpec == FriendInit /\ [][FriendNext]_friendVars

(* The cron reads due jobs every minute and a worker that runs goes on. *)
FriendFairness ==
  \A w \in ReplayWorkers :
    /\ WF_friendVars(ReplayStep(w))
    /\ WF_friendVars(\E f \in FriendRows :
         replay[f].status \in {"PENDING", "FAILED"} /\ readReplay(w, f))
    /\ WF_friendVars(\E f \in FriendRows : readStaleReplay(w, f))

-----------------------------------------------------------------------------
(* Properties *)

(* What a replay of the whole thread of row f leaves in the chat. *)
CleanIndices(msgs) == {k \in 1..Len(msgs) : msgs[k] = "clean"}
Before(k, msgs) == Cardinality({i \in CleanIndices(msgs) : i <= k})

(* As long as the friendship stands, the chat holds a beginning of the
   request's thread in its order, each clean message once and no blocked
   one, and the answer only behind all of it, even with a job taken over in
   the middle and a first worker that goes on writing.  Of a request without
   messages it holds a greeting and the answer, each once at most: the
   greeting may be missing, and it comes behind the answer when the worker
   that took over was not allowed to write it and the first one was. *)
ReplayInOrder ==
  \A f \in FriendRows : friendRows[f].state = "ACCEPTED" =>
    \A n \in 1..Len(copied[f]) :
      LET id == copied[f][n]
          clean == CleanIndices(thread[f]) IN
      \/ thread[f] # <<>> /\ id[1] = "message" /\ id[2] \in clean
                          /\ Before(id[2], thread[f]) = n
      \/ thread[f] # <<>> /\ id[1] = "reply" /\ n = 1 + Cardinality(clean)
      \/ thread[f] = <<>> /\ id[1] \in {"greeting", "reply"}
                          /\ \A m \in 1..(n - 1) : copied[f][m] # id

(* Row f has nothing to copy (any more). *)
Replayed(f) ==
  \/ f \notin FriendRows
  \/ friendRows[f].state # "ACCEPTED"
  \/ \E n \in DOMAIN copied[f] : copied[f][n] = <<"reply", 0>>

(* An accepted request is copied to its end, or the friendship is removed. *)
AcceptedIsCopied == \A f \in 1..MaxFriendRows : []<>Replayed(f)
=============================================================================
