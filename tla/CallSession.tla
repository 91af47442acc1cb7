----------------------------- MODULE CallSession -----------------------------
(***************************************************************************)
(* Voice and video calls: the CallSession and CallParticipant rows, the    *)
(* rooms of the media server, and the requests that change them.           *)
(* Creating a call and accepting one run in transactions under advisory    *)
(* locks of the two (or all) users; rejecting, leaving, cancelling, the    *)
(* sweeper of unanswered calls and the webhook of the media server are     *)
(* sequences of single statements, whose status changes are conditional    *)
(* updates: of all requests that end a call one wins, and the winner goes  *)
(* on to settle the seats, delete the room and record the end.             *)
(* A request is a job of a worker; job[w].pc names its next statement.     *)
(***************************************************************************)
EXTENDS Naturals, FiniteSets, Sequences

CONSTANTS
    Users,     \* accounts
    CallIds,   \* ids of calls (bounds the number of calls)
    Workers,   \* requests the server handles at the same time
    Sorts,     \* the session types looked at
    Keys,      \* idempotency keys of the clients, None for a request without
    Ops,       \* the operations requests may ask for
    Faults,    \* what may go wrong: the process dies between two statements
               \* ("crash"), a request to the media server fails ("media")
    None

ASSUME SortsAssumption == Sorts \subseteq {"SINGLE", "GROUP"}
ASSUME CallIdsAssumption == None \notin CallIds
ASSUME FaultsAssumption == Faults \subseteq {"crash", "media"}

VARIABLES
    calls,     \* the CallSession rows, by id
    seats,     \* the CallParticipant rows: a status per call and user
    late,      \* calls whose ring deadline (expiresAt) lies in the past
    barred,    \* pairs of users that may not call each other: not friends
               \* any more, or one has blocked the other
    rooms,     \* rooms the media server keeps, by the call they are for
    strays,    \* rooms that a failed request to the media server left there
    records,   \* outcomes recorded for each call, in order
    job        \* the request each worker is handling

vars == <<calls, seats, late, barred, rooms, strays, records, job>>
table == <<calls, seats>>

SeatStatus == {"none", "INVITED", "JOINED", "REJECTED", "MISSED", "LEFT"}

status == [c \in CallIds |-> IF c \in DOMAIN calls THEN calls[c].status
                                                   ELSE "none"]

\* What a call service owes each call, see CallLifecycle.
Lifecycle == INSTANCE CallLifecycle WITH
    CallIds <- CallIds, status <- status, records <- records

-----------------------------------------------------------------------------
(* Helpers.                                                                 *)

Live(c) == status[c] \in {"RINGING", "ACTIVE"}

Sitting(c, S) == {u \in Users : seats[c][u] \in S}

InCall(c, u) == seats[c][u] \in {"INVITED", "JOINED"}

\* One of the users takes part in a call that rings or runs.
assertNotBusy(S) == \A c \in DOMAIN calls : Live(c) => \A u \in S : ~InCall(c, u)

findIdempotentCreateCall(u, key) ==
    {c \in DOMAIN calls : key # None /\ calls[c].key = key
                          /\ calls[c].initiator = u /\ Live(c)}

\* Single calls are between friends who have not blocked each other.
assertDirectCallee(sort, S) == sort = "SINGLE" => S \notin barred

\* Members of a group stay members here; access to a group call always holds.
assertCurrentCallAccess(c) ==
    assertDirectCallee(calls[c].sort, {u \in Users : seats[c][u] # "none"})

\* The seat is written by a transaction of another worker that has not
\* committed: whoever wants to write it waits.
Held(c, u) == \E w \in Workers : /\ job[w].pc = "joining"
                                 /\ job[w].call = c /\ job[w].user = u

Idle == [op |-> "none", pc |-> "idle", user |-> None, call |-> None, todo |-> {},
         seen |-> None, sort |-> None, invitees |-> {}, key |-> None,
         allowed |-> FALSE, outcome |-> None, from |-> None]

\* A failure or time-out of the media server is only logged: the room stays.
livekitDeleteRoom(c) ==
    \/ rooms' = rooms \ {c} /\ strays' = strays \ {c}
    \/ /\ "media" \in Faults /\ c \in rooms
       /\ strays' = strays \cup {c} /\ UNCHANGED rooms

Begin(w, r) ==
    /\ job[w].pc = "idle" /\ r.op \in Ops
    /\ job' = [job EXCEPT ![w] = r]
    /\ UNCHANGED <<table, late, barred, rooms, strays, records>>

Goto(w, pc) == job' = [job EXCEPT ![w].pc = pc]
Finish(w) == job' = [job EXCEPT ![w] = Idle]

At(w, op, pc) == job[w].op = op /\ job[w].pc = pc

\* The request only moves on.
Silent == UNCHANGED <<table, late, barred, rooms, strays, records>>

SetStatus(c, to) == calls' = [calls EXCEPT ![c].status = to]

\* UPDATE ... SET status = out WHERE status IN from; the winner closes the
\* call, for the loser the request is over.
EndCall(w, c, from, out, seatsFrom, pc) ==
    /\ IF calls[c].status \in from
       THEN /\ SetStatus(c, out)
            /\ job' = [job EXCEPT ![w].pc = pc, ![w].call = c, ![w].outcome = out,
                                  ![w].from = seatsFrom]
       ELSE UNCHANGED calls /\ Finish(w)
    /\ UNCHANGED <<seats, late, barred, rooms, strays, records>>

-----------------------------------------------------------------------------
(* Expired calls.  expireRingingCallAsMissed is reached from the sweeper,   *)
(* from a new call of one of the participants, from accepting or asking for *)
(* a token too late, and from the last invitee's refusal.                   *)

RingsTooLong(c) == calls[c].status = "RINGING" /\ c \in late

\* Fault: calls somebody still waits in are left alone.
sweepExpiredRingingCalls_Abandoned(w) ==
    LET todo == {c \in DOMAIN calls : RingsTooLong(c) /\ Sitting(c, {"JOINED"}) = {}}
    IN  todo # {} /\ Begin(w, [Idle EXCEPT !.op = "sweep", !.pc = "expire",
                                           !.todo = todo])

sweepExpiredRingingCalls(w) ==
    LET todo == {c \in DOMAIN calls : RingsTooLong(c)}
    IN  todo # {} /\ Begin(w, [Idle EXCEPT !.op = "sweep", !.pc = "expire",
                                           !.todo = todo])

expireRingingCallAsMissed(w) ==
    /\ job[w].pc = "expire"
    /\ \E c \in job[w].todo :
          IF calls[c].status = "RINGING"
          THEN /\ SetStatus(c, "MISSED")
               /\ job' = [job EXCEPT ![w].pc = "seats", ![w].call = c,
                                     ![w].todo = @ \ {c},
                                     ![w].outcome = "MISSED", ![w].from = "INVITED"]
          ELSE /\ UNCHANGED calls
               /\ job' = [job EXCEPT ![w].todo = @ \ {c}]
    /\ UNCHANGED <<seats, late, barred, rooms, strays, records>>

AllExpired(w) ==
    /\ job[w].pc = "expire" /\ job[w].todo = {}
    /\ IF job[w].op = "create" THEN Goto(w, "check") ELSE Finish(w)
    /\ Silent

-----------------------------------------------------------------------------
(* Creating a call.                                                         *)

\* Whose ring has been too long among the calls of these users.
expireStaleRingingCallsForUsers(S) ==
    {c \in DOMAIN calls : RingsTooLong(c) /\ \E v \in S : InCall(c, v)}

\* createDirectCall and createGroupCall, up to the calls they let expire.
startCall(w) ==
    \E u \in Users, sort \in Sorts, key \in Keys, S \in SUBSET Users :
        /\ S # {} /\ u \notin S
        /\ sort = "SINGLE" => Cardinality(S) = 1
        /\ assertDirectCallee(sort, S \cup {u})
        /\ Begin(w, [Idle EXCEPT !.op = "create", !.pc = "expire", !.user = u,
                       !.sort = sort, !.invitees = S, !.key = key,
                       !.todo = expireStaleRingingCallsForUsers(S \cup {u})])

Parties(w) == job[w].invitees \cup {job[w].user}

\* The checks that need no lock; then the room is made, before the row.  It
\* ends here for a replay, for a busy participant and if the media server fails.
\* A room made after the request stopped waiting for it is deleted again; one
\* whose making was answered with an error is not.
createRoom(w) ==
    /\ At(w, "create", "check")
    /\ \/ Finish(w) /\ UNCHANGED <<rooms, strays>>
       \/ /\ findIdempotentCreateCall(job[w].user, job[w].key) = {}
          /\ assertNotBusy(Parties(w))
          /\ \E c \in CallIds \ (DOMAIN calls \cup rooms) :
                /\ \A x \in Workers : job[x].call # c
                /\ rooms' = rooms \cup {c}
                /\ \/ /\ \E pc \in {"begin", "drop"} :
                             /\ pc = "drop" => "media" \in Faults
                             /\ job' = [job EXCEPT ![w].pc = pc, ![w].call = c]
                      /\ UNCHANGED strays
                   \/ /\ "media" \in Faults
                      /\ strays' = strays \cup {c} /\ Finish(w)
    /\ UNCHANGED <<table, late, barred, records>>

\* The transaction is SERIALIZABLE and its first query waits for the advisory
\* locks: the snapshot the checks read is older than the locks.
lockParticipantsForCall(w) ==
    /\ At(w, "create", "begin")
    /\ job' = [job EXCEPT ![w].pc = "insert",
                 ![w].allowed = assertDirectCallee(job[w].sort, Parties(w))]
    /\ Silent

NewCall(w) == [sort |-> job[w].sort, initiator |-> job[w].user,
               key |-> job[w].key, status |-> "RINGING"]

NewSeats(w) == [u \in Users |-> IF u = job[w].user THEN "JOINED"
                                ELSE IF u \in job[w].invitees THEN "INVITED"
                                ELSE "none"]

AddCall(w) ==
    /\ calls' = [c \in DOMAIN calls \cup {job[w].call} |->
                    IF c = job[w].call THEN NewCall(w) ELSE calls[c]]
    /\ seats' = [c \in DOMAIN seats \cup {job[w].call} |->
                    IF c = job[w].call THEN NewSeats(w) ELSE seats[c]]
    /\ Goto(w, "mint")
    /\ UNCHANGED <<late, barred, rooms, strays, records>>

\* Fault: the participants are not looked at again under the locks.
createCallSession_NoRecheck(w) ==
    /\ At(w, "create", "insert")
    /\ job[w].allowed
    /\ findIdempotentCreateCall(job[w].user, job[w].key) = {}
    /\ AddCall(w)

\* Two transactions that would each call a user the other one calls cannot
\* both commit (serializable); blocking is not serializable and is only seen
\* if it committed before the snapshot.
createCallSession(w) ==
    /\ At(w, "create", "insert")
    /\ job[w].allowed
    /\ findIdempotentCreateCall(job[w].user, job[w].key) = {}
    /\ assertNotBusy(Parties(w))
    /\ AddCall(w)

\* Fault: the room is forgotten.
createRefused_KeepsRoom(w) ==
    /\ At(w, "create", "insert")
    /\ Finish(w)
    /\ Silent

\* Fault: a token is made for the call although its transaction rolled back.
createRefused_Mints(w) ==
    /\ At(w, "create", "insert")
    /\ Goto(w, "mint")
    /\ Silent

\* A replay, a busy participant, a refusal, or a serialization failure: the
\* room made in advance has to go.
createRefused(w) ==
    /\ At(w, "create", "insert")
    /\ Goto(w, "drop")
    /\ Silent

dropRoom(w) ==
    /\ At(w, "create", "drop")
    /\ livekitDeleteRoom(job[w].call)
    /\ Finish(w)
    /\ UNCHANGED <<table, late, barred, records>>

\* The initiator gets a token, or else the call fails.
mintToken(w) ==
    /\ At(w, "create", "mint")
    /\ \/ /\ assertCurrentCallAccess(job[w].call)
          /\ Finish(w) /\ Silent
       \/ EndCall(w, job[w].call, {"RINGING"}, "FAILED", None, "room")

-----------------------------------------------------------------------------
(* Accepting.                                                               *)

acceptCall(w) ==
    \E c \in DOMAIN calls, u \in Users :
        /\ seats[c][u] = "INVITED" /\ Live(c)
        /\ \/ /\ c \in late
              /\ Begin(w, [Idle EXCEPT !.op = "accept", !.pc = "expire", !.todo = {c}])
           \/ /\ c \notin late /\ assertCurrentCallAccess(c)
              /\ Begin(w, [Idle EXCEPT !.op = "accept", !.pc = "claim", !.user = u,
                                       !.call = c])

\* Fault: friendship and blocks are not looked at again under the locks.
joinInvitedCall_NoRecheck(w) ==
    LET c == job[w].call
        u == job[w].user
    IN  /\ At(w, "accept", "claim") /\ ~Held(c, u)
        /\ IF seats[c][u] # "INVITED" \/ ~Live(c)
           THEN Finish(w) /\ UNCHANGED table
           ELSE IF calls[c].status = "ACTIVE"
           THEN Goto(w, "joining") /\ UNCHANGED table
           ELSE /\ seats' = [seats EXCEPT ![c][u] = "JOINED"]
                /\ SetStatus(c, "ACTIVE")
                /\ Finish(w)
        /\ UNCHANGED <<late, barred, rooms, strays, records>>

\* Fault: the seat stays taken when the call turns out to have ended.
joinInvitedCall_NoRollback(w) ==
    LET c == job[w].call
        u == job[w].user
    IN  /\ At(w, "accept", "claim") /\ ~Held(c, u)
        /\ seats' = IF seats[c][u] = "INVITED"
                    THEN [seats EXCEPT ![c][u] = "JOINED"] ELSE seats
        /\ calls' = IF seats[c][u] = "INVITED" /\ Live(c)
                    THEN [calls EXCEPT ![c].status = "ACTIVE"] ELSE calls
        /\ Finish(w)
        /\ UNCHANGED <<late, barred, rooms, strays, records>>

\* One transaction: seat INVITED -> JOINED, call RINGING -> ACTIVE, or nothing.
\* That a group call is already ACTIVE is only read: until the transaction
\* commits (joinCommits), somebody else may end that call.
joinInvitedCall(w) ==
    LET c == job[w].call
        u == job[w].user
    IN  /\ At(w, "accept", "claim") /\ ~Held(c, u)
        /\ IF \/ seats[c][u] # "INVITED" \/ ~Live(c)
              \/ calls[c].sort = "SINGLE" /\ ~assertCurrentCallAccess(c)
           THEN Finish(w) /\ UNCHANGED table
           ELSE IF calls[c].status = "ACTIVE"
           THEN Goto(w, "joining") /\ UNCHANGED table
           ELSE /\ seats' = [seats EXCEPT ![c][u] = "JOINED"]
                /\ SetStatus(c, "ACTIVE")
                /\ Finish(w)
        /\ UNCHANGED <<late, barred, rooms, strays, records>>

joinCommits(w) ==
    /\ At(w, "accept", "joining")
    /\ seats' = [seats EXCEPT ![job[w].call][job[w].user] = "JOINED"]
    /\ Finish(w)
    /\ UNCHANGED <<calls, late, barred, rooms, strays, records>>

\* A participant asks for a new token; the only thing that can change is that
\* a call that rang too long is missed.
createJoinToken(w) ==
    \E c \in DOMAIN calls, u \in Users :
        /\ seats[c][u] # "none" /\ RingsTooLong(c)
        /\ Begin(w, [Idle EXCEPT !.op = "token", !.pc = "expire", !.todo = {c}])

-----------------------------------------------------------------------------
(* Refusing, hanging up and cancelling.                                     *)

rejectCall(w) ==
    \E c \in DOMAIN calls, u \in Users :
        /\ seats[c][u] = "INVITED"
        /\ Begin(w, [Idle EXCEPT !.op = "reject", !.pc = "claim", !.user = u,
                                 !.call = c, !.seen = calls[c].status])

rejectSeat(w) ==
    LET c == job[w].call
        u == job[w].user
    IN  /\ At(w, "reject", "claim") /\ ~Held(c, u)
        /\ IF seats[c][u] = "INVITED"
           THEN /\ seats' = [seats EXCEPT ![c][u] = "REJECTED"]
                /\ Goto(w, "count")
           ELSE UNCHANGED seats /\ Finish(w)
        /\ UNCHANGED <<calls, late, barred, rooms, strays, records>>

\* The status is the one read when the request came in.
endRingingCallIfNoInviteesRemain(w) ==
    /\ At(w, "reject", "count")
    /\ IF job[w].seen = "RINGING" /\ Sitting(job[w].call, {"INVITED"}) = {}
       THEN job' = [job EXCEPT ![w].pc = "expire", ![w].todo = {job[w].call}]
       ELSE Finish(w)
    /\ Silent

leaveCall(w) ==
    \E c \in DOMAIN calls, u \in Users :
        /\ seats[c][u] = "JOINED"
        /\ Begin(w, [Idle EXCEPT !.op = "leave", !.pc = "claim", !.user = u,
                                 !.call = c, !.seen = calls[c].status])

\* Not conditional: whoever read JOINED becomes LEFT.
leaveSeat(w) ==
    LET c == job[w].call
    IN  /\ At(w, "leave", "claim")
        /\ seats' = [seats EXCEPT ![c][job[w].user] = "LEFT"]
        /\ Goto(w, IF calls[c].sort = "SINGLE" /\ job[w].seen = "ACTIVE"
                   THEN "endSingle" ELSE "count")
        /\ UNCHANGED <<calls, late, barred, rooms, strays, records>>

endSingleCallOnFirstLeave(w) ==
    /\ At(w, "leave", "endSingle")
    /\ EndCall(w, job[w].call, {"ACTIVE"}, "ENDED", "JOINED", "seats")

leaveCount(w) ==
    /\ At(w, "leave", "count")
    /\ IF Sitting(job[w].call, {"JOINED"}) # {} THEN Finish(w) ELSE Goto(w, "endAll")
    /\ Silent

\* Fault: as before the review, the end is written over any other end.
endAllLeft_Unconditional(w) ==
    /\ At(w, "leave", "endAll")
    /\ EndCall(w, job[w].call, {calls[job[w].call].status}, "ENDED", None, "room")

endAllLeft(w) ==
    /\ At(w, "leave", "endAll")
    /\ EndCall(w, job[w].call, {"RINGING", "ACTIVE"}, "ENDED", None, "room")

cancelCall(w) ==
    \E c \in DOMAIN calls :
        /\ calls[c].status = "RINGING"
        /\ Begin(w, [Idle EXCEPT !.op = "cancel", !.pc = "claim", !.call = c,
                                 !.user = calls[c].initiator])

cancelRinging(w) ==
    /\ At(w, "cancel", "claim")
    /\ EndCall(w, job[w].call, {"RINGING"}, "CANCELED", "INVITED", "seats")

-----------------------------------------------------------------------------
(* The media server closes a room (nobody left in it, a restart, a deletion *)
(* that outlasted its time limit) and tells so, maybe late, more than once. *)

LiveKitClosesRoom ==
    /\ \E c \in rooms :
          /\ c \in strays \/ "webhook" \in Ops
          /\ rooms' = rooms \ {c} /\ strays' = strays \ {c}
    /\ UNCHANGED <<table, late, barred, records, job>>

handleLiveKitWebhook(w) ==
    \E c \in DOMAIN calls \ rooms :
        Begin(w, [Idle EXCEPT !.op = "webhook", !.pc = "claim", !.call = c])

endLiveKitFinishedCall(w) ==
    /\ At(w, "webhook", "claim")
    /\ EndCall(w, job[w].call, {"RINGING", "ACTIVE"}, "ENDED", "JOINED", "seats")

-----------------------------------------------------------------------------
(* What the winner of the end does.                                         *)

\* Seats of the kind from are settled; rows another transaction holds are
\* waited for.
closeSeats(w) ==
    LET c == job[w].call
        from == job[w].from
    IN  /\ job[w].pc = "seats"
        /\ \A u \in Sitting(c, {from}) : ~Held(c, u)
        /\ seats' = [seats EXCEPT ![c] = [u \in Users |->
              IF seats[c][u] # from THEN seats[c][u]
              ELSE IF from = "INVITED" THEN "MISSED" ELSE "LEFT"]]
        /\ Goto(w, "room")
        /\ UNCHANGED <<calls, late, barred, rooms, strays, records>>

\* After a webhook the room is gone already.
deleteRoom(w) ==
    /\ job[w].pc = "room"
    /\ livekitDeleteRoom(job[w].call)
    /\ Goto(w, "record")
    /\ UNCHANGED <<table, late, barred, records>>

\* Sweeping and creating go on with the next expired call.
emitCallRecordMessage(w) ==
    /\ job[w].pc = "record"
    /\ records' = [records EXCEPT ![job[w].call] = Append(@, job[w].outcome)]
    /\ IF job[w].op \in {"sweep", "create"} /\ job[w].outcome = "MISSED"
       THEN job' = [job EXCEPT ![w].pc = "expire", ![w].call = None]
       ELSE Finish(w)
    /\ UNCHANGED <<table, late, barred, rooms, strays>>

-----------------------------------------------------------------------------
(* The environment.                                                         *)

\* blockUser and removing a friend, each under the advisory locks of the two
\* users, unblocking and becoming friends again.
ToggleBarred ==
    /\ "block" \in Ops
    /\ \E u, v \in Users :
          /\ u # v
          /\ barred' = IF {u, v} \in barred THEN barred \ {{u, v}}
                       ELSE barred \cup {{u, v}}
    /\ UNCHANGED <<table, late, rooms, strays, records, job>>

\* The deadline of a call that is over makes no difference.
RingTimeout(c) ==
    /\ c \in DOMAIN calls \ late /\ Live(c)
    /\ late' = late \cup {c}
    /\ UNCHANGED <<table, barred, rooms, strays, records, job>>

\* The process dies or the database fails: what was committed stays.
Crash(w) ==
    /\ "crash" \in Faults /\ job[w].pc # "idle"
    /\ Finish(w)
    /\ Silent

Init ==
    /\ calls = [c \in {} |-> None] /\ seats = [c \in {} |-> None]
    /\ late = {} /\ barred = {} /\ rooms = {} /\ strays = {}
    /\ records = [c \in CallIds |-> <<>>]
    /\ job = [w \in Workers |-> Idle]

Step(w) ==
    \/ expireRingingCallAsMissed(w) \/ AllExpired(w)
    \/ createRoom(w) \/ lockParticipantsForCall(w) \/ createCallSession(w)
    \/ createRefused(w) \/ dropRoom(w) \/ mintToken(w)
    \/ joinInvitedCall(w) \/ joinCommits(w)
    \/ rejectSeat(w) \/ endRingingCallIfNoInviteesRemain(w)
    \/ leaveSeat(w) \/ endSingleCallOnFirstLeave(w)
    \/ leaveCount(w) \/ endAllLeft(w)
    \/ cancelRinging(w) \/ endLiveKitFinishedCall(w)
    \/ closeSeats(w) \/ deleteRoom(w) \/ emitCallRecordMessage(w)

Request(w) ==
    \/ sweepExpiredRingingCalls(w) \/ startCall(w) \/ acceptCall(w)
    \/ createJoinToken(w) \/ rejectCall(w) \/ leaveCall(w) \/ cancelCall(w)
    \/ handleLiveKitWebhook(w)

Next ==
    \/ \E w \in Workers : Request(w) \/ Step(w) \/ Crash(w)
    \/ \E c \in CallIds : RingTimeout(c)
    \/ LiveKitClosesRoom \/ ToggleBarred

Spec == Init /\ [][Next]_vars

-----------------------------------------------------------------------------
(* Properties.                                                              *)

CallRow == [sort: Sorts, initiator: Users, key: Keys,
            status: {"RINGING", "ACTIVE"} \cup Lifecycle!Outcomes]

Pcs == {"idle", "expire", "check", "begin", "insert", "drop", "mint", "claim",
        "joining", "count", "endSingle", "endAll", "seats", "room", "record"}

Job == [op: {"create", "accept", "token", "reject", "leave", "cancel", "sweep",
             "webhook", "none"},
        pc: Pcs, user: Users \cup {None}, call: CallIds \cup {None}, todo: SUBSET CallIds,
        seen: Lifecycle!Statuses \cup {None}, sort: Sorts \cup {None},
        invitees: SUBSET Users, key: Keys \cup {None}, allowed: BOOLEAN,
        outcome: Lifecycle!Outcomes \cup {None}, from: {"INVITED", "JOINED", None}]

\* The job works on a call that exists.
OnCall(j) == j.pc \in {"mint", "claim", "joining", "count", "endSingle",
                       "endAll", "seats", "room", "record"}

\* The shape of the state; a request that works on a call works on one that
\* exists, except while it creates it.
TypeOK ==
    /\ DOMAIN calls \subseteq CallIds
    /\ calls \in [DOMAIN calls -> CallRow]
    /\ seats \in [DOMAIN calls -> [Users -> SeatStatus]]
    /\ late \subseteq DOMAIN calls /\ barred \subseteq SUBSET Users
    /\ strays \subseteq rooms /\ rooms \subseteq CallIds
    /\ records \in [CallIds -> Seq(Lifecycle!Outcomes)]
    /\ job \in [Workers -> Job]
    /\ \A w \in Workers : /\ job[w].todo \subseteq DOMAIN calls
                          /\ OnCall(job[w]) => job[w].call \in DOMAIN calls

\* Every call goes through the life that CallLifecycle promises: an ended call
\* never rings or runs again, and its end is recorded once at most and as it
\* was, although refusals, hang-ups, the sweeper and the webhook race for it.
KeepsLifecycle == Lifecycle!LifecycleSpec

\* Nobody takes part in two calls that ring or run.
NoDoubleBooking ==
    \A c1, c2 \in DOMAIN calls : \A u \in Users :
        /\ Live(c1) /\ Live(c2) /\ InCall(c1, u) /\ InCall(c2, u)
        => c1 = c2

\* A call that was missed, canceled or failed has nobody who accepted it, and
\* one that runs has somebody who did.
OutcomeMatchesSeats ==
    \A c \in DOMAIN calls :
        LET answered == {u \in Users \ {calls[c].initiator} :
                            seats[c][u] \in {"JOINED", "LEFT"}}
        IN  /\ calls[c].status \in {"MISSED", "CANCELED", "FAILED"} => answered = {}
            /\ calls[c].status = "ACTIVE" => answered # {}

\* As long as no process dies, every room that was made is given back: a room
\* belongs to a live call, or to a request that is still at work on it, or the
\* media server failed a request about it.  A room is never forgotten.
RoomsAreReturned ==
    \A c \in rooms : Live(c) \/ c \in strays \/ \E w \in Workers : job[w].call = c

LetsInFriends ==
    \A c \in DOMAIN calls :
        /\ calls[c].sort = "SINGLE" /\ calls[c].status = "RINGING"
        /\ calls'[c].status = "ACTIVE"
        => {u \in Users : seats[c][u] # "none"} \notin barred

\* Somebody who was blocked or is no friend any more when the acceptance takes
\* effect is not let into a single call.
AcceptHonoursBlock == [][LetsInFriends]_calls

\* Once a block or the end of a friendship has committed, no call between the
\* two is created: CallService.lockParticipantsForCall and blockUser take the
\* same locks in order to exclude each other.
CreateHonoursBlock ==
    [][\A c \in DOMAIN calls' \ DOMAIN calls :
          calls'[c].sort = "SINGLE" =>
              {u \in Users : seats'[c][u] # "none"} \notin barred]_calls

\* When one of two hangs up, their call does not go on (it is over, or the
\* request that hung up is still at work on it).
HangupEndsSingleCall ==
    \A c \in DOMAIN calls :
        /\ calls[c].sort = "SINGLE" /\ calls[c].status = "ACTIVE"
        /\ Sitting(c, {"LEFT"}) # {}
        => \E w \in Workers : job[w].op = "leave" /\ job[w].call = c

-----------------------------------------------------------------------------
(* Liveness.  The clock goes on, requests take their next step, a cron job   *)
(* starts the sweeper every minute, and it does not die every time before    *)
(* its first statement.                                                      *)
Fairness ==
    /\ \A c \in CallIds : WF_vars(RingTimeout(c))
    /\ \A w \in Workers : WF_vars(Step(w))
    /\ SF_vars(\E w \in Workers : sweepExpiredRingingCalls(w))
    /\ SF_vars(\E w \in Workers : job[w].op = "sweep" /\ expireRingingCallAsMissed(w))

FairSpec == Spec /\ Fairness

\* No call rings forever.
RingingEnds == \A c \in CallIds : []<>(status[c] # "RINGING")

=============================================================================
