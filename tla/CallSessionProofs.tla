-------------------------- MODULE CallSessionProofs --------------------------
(* Proofs about CallSession, for any number of users, calls and requests:   *)
(* the type invariant, and that every call lives the life CallLifecycle     *)
(* promises; then that nobody takes part in two calls at once, that the     *)
(* outcome of a call says who answered, that an acceptance honours a block  *)
(* that has committed, and that without crashes every room is given back.   *)
(*                                                                          *)
(* The argument: a status is only written by conditional updates, so that   *)
(* a call that has ended keeps its outcome.  Whoever ends a call is the     *)
(* only request that closes it (Exclusive), carries its outcome and has     *)
(* not recorded it yet (JobOK).  The id of a call being created belongs to  *)
(* one request and to no row (Exclusive, JobOK).                            *)
EXTENDS CallSession, TLAPS

-----------------------------------------------------------------------------
(* The inductive invariant.                                                 *)

Outcomes == Lifecycle!Outcomes

Closing(j) == j.pc \in {"seats", "room", "record"}
Fresh(j) == j.pc \in {"begin", "insert", "drop"}

\* What a request relies on.
JobOK(j) ==
    /\ j.op = "create" => j.user \in Users /\ j.sort \in Sorts /\ j.key \in Keys
    /\ Fresh(j) => j.call \in CallIds \ DOMAIN calls
    /\ Closing(j) => /\ j.outcome \in Outcomes
                     /\ calls[j.call].status = j.outcome
                     /\ records[j.call] = <<>>

JobsOK == \A w \in Workers : JobOK(job[w])

\* No two requests close the same call or create the same one.
Exclusive ==
    \A v, w \in Workers :
        /\ v # w
        /\ \/ Closing(job[v]) /\ Closing(job[w])
           \/ Fresh(job[v]) /\ Fresh(job[w])
        => job[v].call # job[w].call

\* Nothing is recorded of a call that has not ended.
Unrecorded ==
    \A c \in CallIds :
        records[c] = <<>> \/ (c \in DOMAIN calls /\ calls[c].status \in Outcomes)

IInv == TypeOK /\ JobsOK /\ Exclusive /\ Unrecorded

LifecycleStep == [Lifecycle!LifecycleNext]_(Lifecycle!lifecycleVars)

-----------------------------------------------------------------------------
(* What a step may do.                                                      *)

\* The tables keep their shape.
Shapes ==
    /\ DOMAIN calls \subseteq CallIds
    /\ calls \in [DOMAIN calls -> CallRow]
    /\ seats \in [DOMAIN calls -> [Users -> SeatStatus]]
    /\ late \subseteq DOMAIN calls /\ barred \subseteq SUBSET Users
    /\ strays \subseteq rooms /\ rooms \subseteq CallIds
    /\ records \in [CallIds -> Seq(Outcomes)]

\* The job of w.
JobShape(w) ==
    /\ job[w] \in Job
    /\ job[w].todo \subseteq DOMAIN calls
    /\ OnCall(job[w]) => job[w].call \in DOMAIN calls

\* No row is lost and no outcome changed.
LEMMA JobStep ==
    ASSUME IInv, NEW w \in Workers,
           job' = [job EXCEPT ![w] = job'[w]],
           Shapes', JobShape(w)', JobOK(job[w])', Unrecorded',
           DOMAIN calls \subseteq DOMAIN calls',
           \A c \in DOMAIN calls :
              calls[c].status \in Outcomes => calls'[c].status = calls[c].status,
           \A v \in Workers \ {w} : Fresh(job[v]) =>
              /\ job[v].call \notin DOMAIN calls'
              /\ Fresh(job'[w]) => job'[w].call # job[v].call,
           \A v \in Workers \ {w} : Closing(job[v]) =>
              /\ records'[job[v].call] = records[job[v].call]
              /\ Closing(job'[w]) => job'[w].call # job[v].call
    PROVE  IInv'
  <1>1. \A v \in Workers \ {w} : job'[v] = job[v]
    BY DEF IInv, TypeOK
  <1>2. job' \in [Workers -> Job]
    BY <1>1 DEF IInv, TypeOK, JobShape
  <1>3. \A v \in Workers : JobShape(v)'
    BY <1>1 DEF IInv, TypeOK, JobShape
  <1>4. TypeOK'
    BY <1>2, <1>3 DEF TypeOK, Shapes, JobShape, Outcomes
  <1>5. JobsOK'
    <2> SUFFICES ASSUME NEW v \in Workers, v # w PROVE JobOK(job[v])'
      BY DEF JobsOK
    <2>1. /\ job'[v] = job[v] /\ JobOK(job[v])
          /\ OnCall(job[v]) => job[v].call \in DOMAIN calls
      BY <1>1 DEF IInv, JobsOK, TypeOK
    <2>2. Closing(job[v]) => OnCall(job[v])
      BY DEF Closing, OnCall
    <2> QED BY <2>1, <2>2 DEF JobOK, Closing, Fresh, Outcomes, Lifecycle!Outcomes
  <1>6. Exclusive'
    <2> SUFFICES ASSUME NEW u \in Workers, NEW v \in Workers, u # v,
                        \/ Closing(job'[u]) /\ Closing(job'[v])
                        \/ Fresh(job'[u]) /\ Fresh(job'[v])
                 PROVE  job'[u].call # job'[v].call
      BY DEF Exclusive, Closing, Fresh
    <2>1. CASE u = w
      BY <1>1, <2>1
    <2>2. CASE v = w
      BY <1>1, <2>2
    <2>3. CASE u # w /\ v # w
      BY <1>1, <2>3 DEF IInv, Exclusive
    <2> QED BY <2>1, <2>2, <2>3
  <1> QED BY <1>4, <1>5, <1>6 DEF IInv

\* A step that leaves calls and records alone.
LEMMA QuietStep ==
    ASSUME IInv, NEW w \in Workers, UNCHANGED <<calls, records>>,
           job' = [job EXCEPT ![w] = job'[w]],
           seats' \in [DOMAIN calls -> [Users -> SeatStatus]],
           late' \subseteq DOMAIN calls, barred' \subseteq SUBSET Users,
           strays' \subseteq rooms' /\ rooms' \subseteq CallIds,
           job'[w] \in Job, job'[w].todo \subseteq DOMAIN calls,
           OnCall(job'[w]) => job'[w].call \in DOMAIN calls,
           job'[w].op = "create" => /\ job'[w].user \in Users
                                    /\ job'[w].sort \in Sorts /\ job'[w].key \in Keys,
           Fresh(job'[w]) =>
              /\ job'[w].call \in CallIds \ DOMAIN calls
              /\ \A v \in Workers \ {w} : Fresh(job[v]) => job'[w].call # job[v].call,
           Closing(job'[w]) => /\ Closing(job[w])
                               /\ job'[w].call = job[w].call
                               /\ job'[w].outcome = job[w].outcome
    PROVE  IInv' /\ LifecycleStep
  <1>1. Shapes'
    BY DEF IInv, TypeOK, Shapes, Outcomes, Lifecycle!Outcomes
  <1>2. JobShape(w)'
    BY DEF JobShape, OnCall
  <1>3. JobOK(job[w])
    BY DEF IInv, JobsOK
  <1>4. JobOK(job[w])'
    BY <1>3 DEF JobOK, Fresh, Closing, Outcomes, Lifecycle!Outcomes
  <1>5. Unrecorded'
    BY DEF IInv, Unrecorded, Outcomes, Lifecycle!Outcomes
  <1>6. \A v \in Workers \ {w} :
           /\ Fresh(job[v]) => job[v].call \notin DOMAIN calls'
           /\ Closing(job[v]) /\ Closing(job'[w]) => job'[w].call # job[v].call
    BY DEF IInv, JobsOK, JobOK, Exclusive
  <1>7. IInv'
    BY <1>1, <1>2, <1>4, <1>5, <1>6, JobStep
  <1>8. UNCHANGED <<status, records>>
    BY DEF status
  <1> QED BY <1>7, <1>8 DEF LifecycleStep, Lifecycle!lifecycleVars

-----------------------------------------------------------------------------
(* Steps that leave calls and records alone.                                *)

\* A request is over.
LEMMA FinishStep ==
    ASSUME IInv, NEW w \in Workers, Finish(w), UNCHANGED <<calls, records>>,
           seats' \in [DOMAIN calls -> [Users -> SeatStatus]],
           late' \subseteq DOMAIN calls, barred' \subseteq SUBSET Users,
           strays' \subseteq rooms' /\ rooms' \subseteq CallIds
    PROVE  IInv' /\ LifecycleStep
  <1>1. /\ job'[w] = Idle /\ job' = [job EXCEPT ![w] = job'[w]]
    BY DEF Finish, IInv, TypeOK
  <1>2. /\ Idle \in Job /\ Idle.todo = {} /\ Idle.op # "create"
        /\ ~OnCall(Idle) /\ ~Fresh(Idle) /\ ~Closing(Idle)
    BY DEF Idle, Job, Pcs, OnCall, Fresh, Closing
  <1> HIDE DEF IInv, Idle
  <1> QED BY <1>1, <1>2, QuietStep

\* A request goes on to its next statement.
LEMMA GotoStep ==
    ASSUME IInv, NEW w \in Workers, NEW j \in Job,
           job' = [job EXCEPT ![w] = j], UNCHANGED <<calls, records>>,
           j.op = job[w].op, j.user = job[w].user, j.sort = job[w].sort,
           j.key = job[w].key, j.call = job[w].call, j.outcome = job[w].outcome,
           j.todo \subseteq job[w].todo,
           OnCall(j) => j.call \in DOMAIN calls,
           Fresh(j) => Fresh(job[w]), Closing(j) => Closing(job[w]),
           seats' \in [DOMAIN calls -> [Users -> SeatStatus]],
           late' \subseteq DOMAIN calls, barred' \subseteq SUBSET Users,
           strays' \subseteq rooms' /\ rooms' \subseteq CallIds
    PROVE  IInv' /\ LifecycleStep
  <1>1. /\ job'[w] = j /\ job' = [job EXCEPT ![w] = job'[w]]
    BY DEF IInv, TypeOK
  <1>2. /\ j.todo \subseteq DOMAIN calls
        /\ j.op = "create" => j.user \in Users /\ j.sort \in Sorts /\ j.key \in Keys
    BY DEF IInv, TypeOK, JobsOK, JobOK
  <1>3. Fresh(j) => /\ j.call \in CallIds \ DOMAIN calls
                    /\ \A v \in Workers \ {w} : Fresh(job[v]) => j.call # job[v].call
    BY DEF IInv, JobsOK, JobOK, Exclusive
  <1>4. /\ job'[w] \in Job /\ job'[w].todo \subseteq DOMAIN calls
        /\ OnCall(job'[w]) => job'[w].call \in DOMAIN calls
        /\ job'[w].op = "create" => /\ job'[w].user \in Users
                                    /\ job'[w].sort \in Sorts /\ job'[w].key \in Keys
        /\ Fresh(job'[w]) =>
              /\ job'[w].call \in CallIds \ DOMAIN calls
              /\ \A v \in Workers \ {w} : Fresh(job[v]) => job'[w].call # job[v].call
        /\ Closing(job'[w]) => /\ Closing(job[w])
                               /\ job'[w].call = job[w].call
                               /\ job'[w].outcome = job[w].outcome
    BY <1>1, <1>2, <1>3
  <1> HIDE DEF IInv
  <1> QED BY <1>1, <1>4, QuietStep

\* A new request.
LEMMA BeginStep ==
    ASSUME IInv, NEW w \in Workers, NEW j \in Job, Begin(w, j),
           j.todo \subseteq DOMAIN calls,
           OnCall(j) => j.call \in DOMAIN calls, ~Fresh(j), ~Closing(j),
           j.op = "create" => j.user \in Users /\ j.sort \in Sorts /\ j.key \in Keys
    PROVE  IInv' /\ LifecycleStep
  <1>1. /\ job'[w] = j /\ job' = [job EXCEPT ![w] = job'[w]]
        /\ UNCHANGED <<table, late, barred, rooms, strays, records>>
    BY DEF Begin, IInv, TypeOK
  <1>2. /\ seats' \in [DOMAIN calls -> [Users -> SeatStatus]]
        /\ late' \subseteq DOMAIN calls /\ barred' \subseteq SUBSET Users
        /\ strays' \subseteq rooms' /\ rooms' \subseteq CallIds
    BY <1>1 DEF table, IInv, TypeOK
  <1> HIDE DEF IInv
  <1> QED BY <1>1, <1>2, QuietStep DEF table

\* The environment moves, the requests stay where they are.
LEMMA OutsideStep ==
    ASSUME IInv, UNCHANGED <<table, records, job>>,
           late' \subseteq DOMAIN calls, barred' \subseteq SUBSET Users,
           strays' \subseteq rooms' /\ rooms' \subseteq CallIds
    PROVE  IInv' /\ LifecycleStep
  <1>1. TypeOK'
    BY DEF IInv, TypeOK, table, OnCall
  <1>2. JobsOK' /\ Exclusive' /\ Unrecorded'
    BY DEF IInv, JobsOK, JobOK, Exclusive, Unrecorded, table, Fresh, Closing,
           Outcomes, Lifecycle!Outcomes
  <1>3. UNCHANGED <<status, records>>
    BY DEF status, table
  <1> QED BY <1>1, <1>2, <1>3 DEF IInv, LifecycleStep, Lifecycle!lifecycleVars

-----------------------------------------------------------------------------
(* Steps that move a call on.                                               *)

\* Writing the status of a row moves the status of that call alone.
LEMMA StatusMoves ==
    ASSUME IInv, NEW c \in DOMAIN calls,
           NEW to \in {"RINGING", "ACTIVE"} \cup Outcomes, SetStatus(c, to)
    PROVE  /\ DOMAIN calls' = DOMAIN calls
           /\ calls' \in [DOMAIN calls' -> CallRow]
           /\ calls'[c].status = to
           /\ \A d \in DOMAIN calls \ {c} : calls'[d] = calls[d]
           /\ status[c] = calls[c].status
           /\ status' = [status EXCEPT ![c] = to]
  <1> DEFINE row == [calls[c] EXCEPT !.status = to]
  <1>1. calls[c] \in CallRow
    BY DEF IInv, TypeOK
  <1>2. row \in CallRow /\ row.status = to
    BY <1>1 DEF CallRow, Outcomes
  <1>3. calls' = [calls EXCEPT ![c] = row]
    BY DEF SetStatus
  <1> HIDE DEF row
  <1>4. /\ DOMAIN calls' = DOMAIN calls
        /\ calls' \in [DOMAIN calls' -> CallRow]
        /\ calls'[c].status = to
        /\ \A d \in DOMAIN calls \ {c} : calls'[d] = calls[d]
    BY <1>2, <1>3 DEF IInv, TypeOK
  <1>5. c \in CallIds
    BY DEF IInv, TypeOK
  <1>6. status' = [status EXCEPT ![c] = to]
    BY <1>4, <1>5 DEF status
  <1> QED BY <1>4, <1>5, <1>6 DEF status

\* A request wins the end of a call.
LEMMA WinStep ==
    ASSUME IInv, NEW w \in Workers, NEW c \in DOMAIN calls, NEW out \in Outcomes,
           NEW j \in Job, job' = [job EXCEPT ![w] = j], SetStatus(c, out),
           UNCHANGED <<seats, late, barred, rooms, strays, records>>,
           calls[c].status \in {"RINGING", "ACTIVE"},
           out = "ENDED" \/ calls[c].status = "RINGING",
           j.op = job[w].op, j.user = job[w].user, j.sort = job[w].sort,
           j.key = job[w].key, j.todo \subseteq job[w].todo,
           Closing(j), j.call = c, j.outcome = out
    PROVE  IInv' /\ LifecycleStep
  <1>1. /\ job'[w] = j /\ job' = [job EXCEPT ![w] = job'[w]]
    BY DEF IInv, TypeOK
  <1>2. /\ DOMAIN calls' = DOMAIN calls
        /\ calls' \in [DOMAIN calls' -> CallRow]
        /\ calls'[c].status = out
        /\ \A d \in DOMAIN calls \ {c} : calls'[d] = calls[d]
        /\ status[c] = calls[c].status
        /\ status' = [status EXCEPT ![c] = out]
    BY StatusMoves
  <1>3. Shapes'
    BY <1>2 DEF Shapes, IInv, TypeOK, Outcomes
  <1>4. JobShape(w)'
    BY <1>1, <1>2 DEF JobShape, IInv, TypeOK
  <1>5. calls[c].status \notin Outcomes /\ c \in CallIds
    BY DEF Outcomes, Lifecycle!Outcomes, IInv, TypeOK
  <1>6. records[c] = <<>>
    BY <1>5 DEF IInv, Unrecorded
  <1>7. JobOK(job[w])'
    <2>1. j.op = "create" => j.user \in Users /\ j.sort \in Sorts /\ j.key \in Keys
      BY DEF IInv, JobsOK, JobOK
    <2>2. ~Fresh(j)
      BY DEF Fresh, Closing
    <2> QED BY <1>1, <1>2, <1>6, <2>1, <2>2
            DEF JobOK, Fresh, Closing, Outcomes, Lifecycle!Outcomes
  <1>8. Unrecorded'
    <2>1. Outcomes' = Outcomes
      BY DEF Outcomes, Lifecycle!Outcomes
    <2> QED BY <1>2, <2>1 DEF IInv, Unrecorded
  <1>9. \A v \in Workers \ {w} :
           /\ Fresh(job[v]) => job[v].call \notin DOMAIN calls'
           /\ Closing(job[v]) => job[v].call # c
    BY <1>2, <1>5 DEF IInv, JobsOK, JobOK
  <1>10. \A d \in DOMAIN calls :
            calls[d].status \in Outcomes => calls'[d].status = calls[d].status
    BY <1>2, <1>5
  <1>11. ~Fresh(j)
    BY DEF Fresh, Closing
  <1>12. IInv'
    <2> HIDE DEF IInv
    <2> QED BY ZenonT(30), <1>1, <1>2, <1>3, <1>4, <1>7, <1>8, <1>9, <1>10, <1>11, JobStep
  <1>13. Lifecycle!End(c)
    BY <1>2 DEF Lifecycle!End, Lifecycle!Move, Outcomes
  <1> QED BY <1>5, <1>12, <1>13 DEF LifecycleStep, Lifecycle!LifecycleNext

\* The job of a request that closes a call.
LEMMA ClosingJob ==
    ASSUME NEW r \in Job, NEW c \in CallIds, NEW out \in Lifecycle!Outcomes,
           NEW sf \in {"INVITED", "JOINED", None}, NEW pc \in Pcs,
           NEW todo \in SUBSET CallIds
    PROVE  /\ [r EXCEPT !.pc = pc, !.call = c, !.outcome = out, !.from = sf] \in Job
           /\ [r EXCEPT !.pc = pc, !.call = c, !.todo = todo, !.outcome = out,
                        !.from = sf] \in Job
  BY DEF Job

\* UPDATE ... WHERE status IN from: the winner and the loser.
LEMMA EndCallStep ==
    ASSUME IInv, NEW w \in Workers, NEW c \in DOMAIN calls, NEW out \in Outcomes,
           NEW from \in SUBSET {"RINGING", "ACTIVE"}, NEW sf \in {"INVITED", "JOINED", None},
           NEW pc \in {"seats", "room"}, EndCall(w, c, from, out, sf, pc),
           out = "ENDED" \/ from = {"RINGING"}
    PROVE  IInv' /\ LifecycleStep
  <1>1. CASE calls[c].status \in from
    <2> DEFINE j == [job[w] EXCEPT !.pc = pc, !.call = c, !.outcome = out, !.from = sf]
    <2>1. /\ SetStatus(c, out) /\ UNCHANGED <<seats, late, barred, rooms, strays, records>>
          /\ job' = [job EXCEPT ![w] = j]
      BY <1>1 DEF EndCall
    <2>2. job[w] \in Job /\ c \in CallIds
      BY DEF IInv, TypeOK
    <2>3. j \in Job
      <3>1. pc \in Pcs /\ out \in Lifecycle!Outcomes
        BY DEF Pcs, Outcomes
      <3> QED BY <2>2, <3>1, ClosingJob
    <2>4. /\ j.op = job[w].op /\ j.user = job[w].user
          /\ j.sort = job[w].sort /\ j.key = job[w].key /\ j.todo = job[w].todo
          /\ j.pc = pc /\ j.call = c /\ j.outcome = out
      BY <2>2 DEF Job
    <2>5. Closing(j)
      BY <2>4 DEF Closing
    <2> HIDE DEF j, IInv
    <2> QED BY <1>1, <2>1, <2>3, <2>4, <2>5, WinStep
  <1>2. CASE calls[c].status \notin from
    <2>1. Finish(w) /\ UNCHANGED <<calls, seats, late, barred, rooms, strays, records>>
      BY <1>2 DEF EndCall
    <2>2. /\ seats' \in [DOMAIN calls -> [Users -> SeatStatus]]
          /\ late' \subseteq DOMAIN calls /\ barred' \subseteq SUBSET Users
          /\ strays' \subseteq rooms' /\ rooms' \subseteq CallIds
      BY <2>1 DEF IInv, TypeOK
    <2> HIDE DEF IInv
    <2> QED BY <2>1, <2>2, FinishStep
  <1> QED BY <1>1, <1>2

\* A call is answered.
LEMMA AnswerStep ==
    ASSUME IInv, NEW w \in Workers, NEW c \in DOMAIN calls, SetStatus(c, "ACTIVE"),
           calls[c].status = "RINGING", Finish(w),
           seats' \in [DOMAIN calls -> [Users -> SeatStatus]],
           UNCHANGED <<late, barred, rooms, strays, records>>
    PROVE  IInv' /\ LifecycleStep
  <1>1. /\ job'[w] = Idle /\ job' = [job EXCEPT ![w] = job'[w]]
    BY DEF Finish, IInv, TypeOK
  <1>2. /\ DOMAIN calls' = DOMAIN calls
        /\ calls' \in [DOMAIN calls' -> CallRow]
        /\ calls'[c].status = "ACTIVE"
        /\ \A d \in DOMAIN calls \ {c} : calls'[d] = calls[d]
        /\ status[c] = calls[c].status
        /\ status' = [status EXCEPT ![c] = "ACTIVE"]
    BY StatusMoves
  <1>3. Shapes'
    BY <1>2 DEF Shapes, IInv, TypeOK, Outcomes
  <1>4. /\ Idle \in Job /\ Idle.todo = {} /\ Idle.op # "create"
        /\ ~OnCall(Idle) /\ ~Fresh(Idle) /\ ~Closing(Idle)
    BY DEF Idle, Job, Pcs, OnCall, Fresh, Closing
  <1>5. JobShape(w)' /\ JobOK(job[w])'
    BY <1>1, <1>4 DEF JobShape, JobOK, OnCall, Fresh, Closing
  <1>6. calls[c].status \notin Outcomes /\ c \in CallIds
    BY DEF Outcomes, Lifecycle!Outcomes, IInv, TypeOK
  <1>7. Unrecorded'
    <2>1. Outcomes' = Outcomes
      BY DEF Outcomes, Lifecycle!Outcomes
    <2> QED BY <1>2, <1>6, <2>1 DEF IInv, Unrecorded
  <1>8. \A v \in Workers \ {w} : Fresh(job[v]) => job[v].call \notin DOMAIN calls'
    BY <1>2 DEF IInv, JobsOK, JobOK
  <1>9. \A d \in DOMAIN calls :
           calls[d].status \in Outcomes => calls'[d].status = calls[d].status
    BY <1>2, <1>6
  <1>10. IInv'
    <2> HIDE DEF IInv, Idle
    <2> QED BY <1>1, <1>2, <1>3, <1>4, <1>5, <1>7, <1>8, <1>9, JobStep
  <1>11. Lifecycle!Answer(c)
    BY <1>2 DEF Lifecycle!Answer, Lifecycle!Move
  <1> QED BY <1>6, <1>10, <1>11 DEF LifecycleStep, Lifecycle!LifecycleNext

\* A call is created.
LEMMA AddCallStep ==
    ASSUME IInv, NEW w \in Workers, At(w, "create", "insert"), AddCall(w)
    PROVE  IInv' /\ LifecycleStep
  <1> DEFINE c == job[w].call
             j == [job[w] EXCEPT !.pc = "mint"]
  <1>1. /\ job[w] \in Job /\ job[w].todo \subseteq DOMAIN calls
        /\ c \in CallIds \ DOMAIN calls
        /\ job[w].user \in Users /\ job[w].sort \in Sorts /\ job[w].key \in Keys
    BY DEF IInv, TypeOK, JobsOK, JobOK, At, Fresh
  <1>2. /\ j \in Job /\ j.pc = "mint" /\ j.call = c /\ j.op = job[w].op
        /\ j.user = job[w].user /\ j.sort = job[w].sort /\ j.key = job[w].key
        /\ j.todo = job[w].todo
    BY <1>1 DEF Job, Pcs
  <1>3. OnCall(j) /\ ~Fresh(j) /\ ~Closing(j)
    BY <1>2 DEF OnCall, Fresh, Closing
  <1>4. job' = [job EXCEPT ![w] = j]
    BY DEF AddCall, Goto
  <1>5. job'[w] = j /\ job' = [job EXCEPT ![w] = job'[w]]
    BY <1>4 DEF IInv, TypeOK
  <1>6. NewCall(w) \in CallRow /\ NewCall(w).status = "RINGING"
    BY <1>1 DEF NewCall, CallRow
  <1>7. NewSeats(w) \in [Users -> SeatStatus]
    BY DEF NewSeats, SeatStatus
  <1>8. /\ DOMAIN calls' = DOMAIN calls \cup {c}
        /\ calls'[c] = NewCall(w)
        /\ \A d \in DOMAIN calls : calls'[d] = calls[d]
        /\ calls' \in [DOMAIN calls' -> CallRow]
    BY <1>1, <1>6 DEF AddCall, IInv, TypeOK
  <1>9. seats' \in [DOMAIN calls' -> [Users -> SeatStatus]]
    BY <1>7, <1>8 DEF AddCall, IInv, TypeOK
  <1>10. UNCHANGED <<late, barred, rooms, strays, records>>
    BY DEF AddCall
  <1> HIDE DEF c, j
  <1>11. Shapes'
    BY <1>1, <1>8, <1>9, <1>10 DEF Shapes, IInv, TypeOK, Outcomes
  <1>12. JobShape(w)'
    BY <1>1, <1>2, <1>5, <1>8 DEF JobShape
  <1>13. JobOK(job[w])'
    BY <1>1, <1>2, <1>3, <1>5 DEF JobOK, Fresh, Closing
  <1>14. /\ Outcomes' = Outcomes /\ "RINGING" \notin Outcomes
    BY DEF Outcomes, Lifecycle!Outcomes
  <1>15. records[c] = <<>>
    BY <1>1 DEF IInv, Unrecorded
  <1>16. Unrecorded'
    BY <1>8, <1>10, <1>14, <1>15 DEF IInv, Unrecorded
  <1>17. \A v \in Workers \ {w} : Fresh(job[v]) => job[v].call \notin DOMAIN calls'
    <2> SUFFICES ASSUME NEW v \in Workers \ {w}, Fresh(job[v])
                 PROVE  job[v].call \notin DOMAIN calls'
      OBVIOUS
    <2>1. Fresh(job[w])
      BY DEF At, Fresh
    <2>2. job[v].call # c /\ job[v].call \notin DOMAIN calls
      BY <2>1 DEF IInv, JobsOK, JobOK, Exclusive, c
    <2> QED BY <1>8, <2>2
  <1>18. IInv'
    <2> HIDE DEF IInv
    <2> QED BY <1>3, <1>5, <1>8, <1>10, <1>11, <1>12, <1>13, <1>16, <1>17, JobStep
  <1>19. Lifecycle!Ring(c)
    <2>1. status[c] = "none" /\ status' = [status EXCEPT ![c] = "RINGING"]
      BY <1>1, <1>6, <1>8 DEF status
    <2> QED BY <1>10, <2>1 DEF Lifecycle!Ring, Lifecycle!Move
  <1> QED BY <1>1, <1>18, <1>19 DEF LifecycleStep, Lifecycle!LifecycleNext

\* The end of a call is recorded.
LEMMA RecordStep ==
    ASSUME IInv, NEW w \in Workers, emitCallRecordMessage(w)
    PROVE  IInv' /\ LifecycleStep
  <1> DEFINE c == job[w].call
             out == job[w].outcome
             j == [job[w] EXCEPT !.pc = "expire", !.call = None]
  <1>1. /\ job[w] \in Job /\ job[w].todo \subseteq DOMAIN calls
        /\ job[w].pc = "record" /\ c \in DOMAIN calls /\ c \in CallIds
        /\ out \in Outcomes /\ calls[c].status = out /\ records[c] = <<>>
    BY DEF IInv, TypeOK, JobsOK, JobOK, emitCallRecordMessage, OnCall, Closing
  <1>2. /\ UNCHANGED <<calls, seats, late, barred, rooms, strays>>
        /\ records' = [records EXCEPT ![c] = Append(@, out)]
    BY DEF emitCallRecordMessage, table
  <1>3. /\ records' = [records EXCEPT ![c] = <<out>>]
        /\ records' \in [CallIds -> Seq(Outcomes)]
    <2>1. Append(<<>>, out) = <<out>>
      OBVIOUS
    <2>2. records \in [CallIds -> Seq(Outcomes)]
      BY DEF IInv, TypeOK, Outcomes
    <2>3. <<out>> \in Seq(Outcomes)
      BY <1>1
    <2> QED BY <1>1, <1>2, <2>1, <2>2, <2>3
  <1>4. /\ job'[w] \in {Idle, j}
        /\ job' = [job EXCEPT ![w] = job'[w]]
    BY DEF emitCallRecordMessage, Finish, IInv, TypeOK
  <1>5. /\ Idle \in Job /\ Idle.todo = {} /\ Idle.op # "create"
        /\ ~OnCall(Idle) /\ ~Fresh(Idle) /\ ~Closing(Idle)
    BY DEF Idle, Job, Pcs, OnCall, Fresh, Closing
  <1>6. /\ j \in Job /\ j.todo = job[w].todo /\ j.op = job[w].op /\ j.pc = "expire"
        /\ j.user = job[w].user /\ j.sort = job[w].sort /\ j.key = job[w].key
    BY <1>1 DEF Job, Pcs
  <1>7. ~OnCall(j) /\ ~Fresh(j) /\ ~Closing(j)
    BY <1>6 DEF OnCall, Fresh, Closing
  <1>8. job[w].op = "create" =>
           job[w].user \in Users /\ job[w].sort \in Sorts /\ job[w].key \in Keys
    BY DEF IInv, JobsOK, JobOK
  <1> HIDE DEF c, out, j, Idle
  <1>9. Shapes'
    BY <1>2, <1>3 DEF Shapes, IInv, TypeOK, Outcomes, Lifecycle!Outcomes
  <1>10. /\ job'[w] \in Job /\ job'[w].todo \subseteq DOMAIN calls
         /\ ~OnCall(job'[w]) /\ ~Fresh(job'[w]) /\ ~Closing(job'[w])
         /\ job'[w].op = "create" =>
              job'[w].user \in Users /\ job'[w].sort \in Sorts /\ job'[w].key \in Keys
    BY <1>1, <1>4, <1>5, <1>6, <1>7, <1>8
  <1>11. JobShape(w)' /\ JobOK(job[w])'
    BY <1>2, <1>10 DEF JobShape, JobOK, OnCall, Fresh, Closing
  <1>12. Unrecorded'
    <2>1. Outcomes' = Outcomes
      BY DEF Outcomes, Lifecycle!Outcomes
    <2>2. \A d \in CallIds \ {c} : records'[d] = records[d]
      BY <1>3 DEF IInv, TypeOK
    <2> QED BY <1>1, <1>2, <2>1, <2>2 DEF IInv, Unrecorded
  <1>13. \A v \in Workers \ {w} :
            /\ Fresh(job[v]) => job[v].call \notin DOMAIN calls'
            /\ Closing(job[v]) => records'[job[v].call] = records[job[v].call]
    <2> SUFFICES ASSUME NEW v \in Workers \ {w}
                 PROVE  /\ Fresh(job[v]) => job[v].call \notin DOMAIN calls'
                        /\ Closing(job[v]) => records'[job[v].call] = records[job[v].call]
      OBVIOUS
    <2>1. Closing(job[w])
      BY <1>1 DEF Closing
    <2>2. /\ Fresh(job[v]) => job[v].call \notin DOMAIN calls
          /\ Closing(job[v]) => job[v].call # c
      BY <2>1 DEF IInv, JobsOK, JobOK, Exclusive, c
    <2>3. records \in [CallIds -> Seq(Outcomes)]
      BY DEF IInv, TypeOK, Outcomes
    <2> QED BY <1>2, <1>3, <2>2, <2>3
  <1>14. IInv'
    <2> HIDE DEF IInv
    <2> QED BY <1>2, <1>4, <1>9, <1>10, <1>11, <1>12, <1>13, JobStep
  <1>15. Lifecycle!Record(c)
    <2>1. status[c] = out
      BY <1>1 DEF status
    <2>2. UNCHANGED status
      BY <1>2 DEF status
    <2> QED BY <1>1, <1>3, <2>1, <2>2 DEF Lifecycle!Record, Outcomes
  <1> QED BY <1>1, <1>14, <1>15 DEF LifecycleStep, Lifecycle!LifecycleNext

-----------------------------------------------------------------------------
(* The actions, one by one.                                                 *)

\* The rows that a step does not touch keep their shape.
LEMMA Kept ==
    ASSUME IInv
    PROVE  /\ UNCHANGED seats => seats' \in [DOMAIN calls -> [Users -> SeatStatus]]
           /\ UNCHANGED late => late' \subseteq DOMAIN calls
           /\ UNCHANGED barred => barred' \subseteq SUBSET Users
           /\ UNCHANGED <<rooms, strays>> =>
                 strays' \subseteq rooms' /\ rooms' \subseteq CallIds
  BY DEF IInv, TypeOK

\* Requests that expire calls.
LEMMA ExpiringJob ==
    ASSUME NEW op \in {"sweep", "accept", "token"}, NEW todo \in SUBSET CallIds
    PROVE  LET j == [Idle EXCEPT !.op = op, !.pc = "expire", !.todo = todo]
           IN  /\ j \in Job /\ j.op = op /\ j.todo = todo
               /\ ~OnCall(j) /\ ~Fresh(j) /\ ~Closing(j)
  BY DEF Idle, Job, Pcs, OnCall, Fresh, Closing

LEMMA SweepStep ==
    ASSUME IInv, NEW w \in Workers, sweepExpiredRingingCalls(w)
    PROVE  IInv' /\ LifecycleStep
  <1> DEFINE todo == {c \in DOMAIN calls : RingsTooLong(c)}
             j == [Idle EXCEPT !.op = "sweep", !.pc = "expire", !.todo = todo]
  <1>1. Begin(w, j)
    BY DEF sweepExpiredRingingCalls
  <1>2. todo \subseteq DOMAIN calls /\ DOMAIN calls \subseteq CallIds
    BY DEF IInv, TypeOK
  <1>3. /\ j \in Job /\ j.op = "sweep" /\ j.todo = todo
        /\ ~OnCall(j) /\ ~Fresh(j) /\ ~Closing(j)
    <2> HIDE DEF todo
    <2> QED BY <1>2, ExpiringJob
  <1> HIDE DEF todo, j, IInv
  <1> QED BY <1>1, <1>2, <1>3, BeginStep

LEMMA startCallStep ==
    ASSUME IInv, NEW w \in Workers, startCall(w)
    PROVE  IInv' /\ LifecycleStep
  <1>1. PICK u \in Users, sort \in Sorts, key \in Keys, S \in SUBSET Users :
           Begin(w, [Idle EXCEPT !.op = "create", !.pc = "expire", !.user = u,
                       !.sort = sort, !.invitees = S, !.key = key,
                       !.todo = expireStaleRingingCallsForUsers(S \cup {u})])
    BY DEF startCall
  <1> DEFINE todo == expireStaleRingingCallsForUsers(S \cup {u})
             j == [Idle EXCEPT !.op = "create", !.pc = "expire", !.user = u,
                      !.sort = sort, !.invitees = S, !.key = key, !.todo = todo]
  <1>3. Begin(w, j)
    BY <1>1
  <1>4. todo \subseteq DOMAIN calls /\ DOMAIN calls \subseteq CallIds
    BY DEF IInv, TypeOK, expireStaleRingingCallsForUsers
  <1>5. /\ j \in Job /\ j.op = "create" /\ j.todo = todo
        /\ j.user = u /\ j.sort = sort /\ j.key = key
        /\ ~OnCall(j) /\ ~Fresh(j) /\ ~Closing(j)
    <2>1. Idle \in Job /\ "expire" \in Pcs
      BY DEF Idle, Job, Pcs
    <2> HIDE DEF todo, Idle
    <2>2. /\ j \in Job /\ j.op = "create" /\ j.todo = todo /\ j.pc = "expire"
          /\ j.user = u /\ j.sort = sort /\ j.key = key
      BY <1>4, <2>1 DEF Job
    <2> QED BY <2>2 DEF OnCall, Fresh, Closing
  <1> HIDE DEF todo, j, IInv
  <1> QED BY <1>3, <1>4, <1>5, BeginStep

\* A request of kind op about the call c that has done nothing yet.
Asks(j, op, c) ==
    /\ j \in Job /\ j.op = op /\ j.todo = {} /\ j.call = c
    /\ ~Fresh(j) /\ ~Closing(j)

\* Requests about a call that exists.
LEMMA AskingJob ==
    ASSUME NEW op \in {"accept", "reject", "leave", "cancel", "webhook"},
           NEW c \in CallIds, NEW u \in Users, NEW s \in Lifecycle!Statuses
    PROVE  /\ Asks([Idle EXCEPT !.op = op, !.pc = "claim", !.call = c], op, c)
           /\ Asks([Idle EXCEPT !.op = op, !.pc = "claim", !.user = u, !.call = c], op, c)
           /\ Asks([Idle EXCEPT !.op = op, !.pc = "claim", !.call = c, !.user = u], op, c)
           /\ Asks([Idle EXCEPT !.op = op, !.pc = "claim", !.user = u, !.call = c,
                                !.seen = s], op, c)
  <1>1. /\ Idle \in Job /\ Idle.todo = {}
    BY DEF Idle, Job, Pcs
  <1>2. "claim" \in Pcs
    BY DEF Pcs
  <1> HIDE DEF Idle
  <1>3. ASSUME NEW j \in Job, j.pc = "claim", j.op = op, j.todo = {}, j.call = c
        PROVE  Asks(j, op, c)
    BY <1>3 DEF Asks, Fresh, Closing
  <1>4. Asks([Idle EXCEPT !.op = op, !.pc = "claim", !.call = c], op, c)
    <2> DEFINE j == [Idle EXCEPT !.op = op, !.pc = "claim", !.call = c]
    <2>1. j \in Job /\ j.pc = "claim" /\ j.op = op /\ j.todo = {} /\ j.call = c
      BY ZenonT(30), <1>1, <1>2 DEF Job
    <2> QED BY <1>3, <2>1
  <1>5. Asks([Idle EXCEPT !.op = op, !.pc = "claim", !.user = u, !.call = c], op, c)
    <2> DEFINE j == [Idle EXCEPT !.op = op, !.pc = "claim", !.user = u, !.call = c]
    <2>1. j \in Job /\ j.pc = "claim" /\ j.op = op /\ j.todo = {} /\ j.call = c
      BY <1>1, <1>2 DEF Job
    <2> QED BY <1>3, <2>1
  <1>6. Asks([Idle EXCEPT !.op = op, !.pc = "claim", !.call = c, !.user = u], op, c)
    <2> DEFINE j == [Idle EXCEPT !.op = op, !.pc = "claim", !.call = c, !.user = u]
    <2>1. j \in Job /\ j.pc = "claim" /\ j.op = op /\ j.todo = {} /\ j.call = c
      BY <1>1, <1>2 DEF Job
    <2> QED BY <1>3, <2>1
  <1>7. Asks([Idle EXCEPT !.op = op, !.pc = "claim", !.user = u, !.call = c,
                         !.seen = s], op, c)
    <2> DEFINE j == [Idle EXCEPT !.op = op, !.pc = "claim", !.user = u, !.call = c,
                                 !.seen = s]
    <2>1. j \in Job /\ j.pc = "claim" /\ j.op = op /\ j.todo = {} /\ j.call = c
      BY <1>1, <1>2 DEF Job
    <2> QED BY <1>3, <2>1
  <1> QED BY <1>4, <1>5, <1>6, <1>7

\* Such a request may begin.
LEMMA AskStep ==
    ASSUME IInv, NEW w \in Workers, NEW c \in DOMAIN calls, NEW j,
           NEW op \in {"accept", "reject", "leave", "cancel", "webhook"},
           Asks(j, op, c), Begin(w, j)
    PROVE  IInv' /\ LifecycleStep
  <1>1. /\ j \in Job /\ j.op # "create" /\ j.todo = {} /\ j.call = c
        /\ ~Fresh(j) /\ ~Closing(j)
    BY DEF Asks
  <1> HIDE DEF IInv
  <1> QED BY <1>1, BeginStep

LEMMA RowFacts ==
    ASSUME IInv, NEW c \in DOMAIN calls
    PROVE  /\ c \in CallIds /\ calls[c].initiator \in Users
           /\ calls[c].status \in Lifecycle!Statuses
           /\ calls[c].status \in {"RINGING", "ACTIVE"} \cup Outcomes
  BY DEF IInv, TypeOK, CallRow, Outcomes, Lifecycle!Outcomes, Lifecycle!Statuses

LEMMA acceptCallStep ==
    ASSUME IInv, NEW w \in Workers, acceptCall(w)
    PROVE  IInv' /\ LifecycleStep
  <1>1. PICK c \in DOMAIN calls, u \in Users :
           \/ Begin(w, [Idle EXCEPT !.op = "accept", !.pc = "expire", !.todo = {c}])
           \/ Begin(w, [Idle EXCEPT !.op = "accept", !.pc = "claim", !.user = u,
                                    !.call = c])
    BY DEF acceptCall
  <1>2. c \in CallIds
    BY RowFacts
  <1>3. CASE Begin(w, [Idle EXCEPT !.op = "accept", !.pc = "expire", !.todo = {c}])
    <2> DEFINE j == [Idle EXCEPT !.op = "accept", !.pc = "expire", !.todo = {c}]
    <2>1. /\ j \in Job /\ j.op = "accept" /\ j.todo = {c}
          /\ ~OnCall(j) /\ ~Fresh(j) /\ ~Closing(j)
      BY ZenonT(30), <1>2, ExpiringJob
    <2>2. Begin(w, j)
      BY <1>3
    <2> HIDE DEF j, IInv
    <2> QED BY <2>1, <2>2, BeginStep
  <1>4. CASE Begin(w, [Idle EXCEPT !.op = "accept", !.pc = "claim", !.user = u,
                                   !.call = c])
    BY <1>2, <1>4, RowFacts, AskingJob, AskStep
  <1> QED BY <1>1, <1>3, <1>4

LEMMA createJoinTokenStep ==
    ASSUME IInv, NEW w \in Workers, createJoinToken(w)
    PROVE  IInv' /\ LifecycleStep
  <1>1. PICK c \in DOMAIN calls :
           Begin(w, [Idle EXCEPT !.op = "token", !.pc = "expire", !.todo = {c}])
    BY DEF createJoinToken
  <1> DEFINE j == [Idle EXCEPT !.op = "token", !.pc = "expire", !.todo = {c}]
  <1>2. /\ j \in Job /\ j.op = "token" /\ j.todo = {c}
        /\ ~OnCall(j) /\ ~Fresh(j) /\ ~Closing(j)
    <2>1. {c} \in SUBSET CallIds
      BY RowFacts
    <2> QED BY <2>1, ExpiringJob
  <1>3. Begin(w, j)
    BY <1>1
  <1> HIDE DEF j, IInv
  <1> QED BY <1>2, <1>3, BeginStep

LEMMA rejectCallStep ==
    ASSUME IInv, NEW w \in Workers, rejectCall(w)
    PROVE  IInv' /\ LifecycleStep
  <1>1. PICK c \in DOMAIN calls, u \in Users :
           Begin(w, [Idle EXCEPT !.op = "reject", !.pc = "claim", !.user = u,
                                 !.call = c, !.seen = calls[c].status])
    BY DEF rejectCall
  <1> HIDE DEF IInv
  <1> QED BY <1>1, RowFacts, AskingJob, AskStep

LEMMA leaveCallStep ==
    ASSUME IInv, NEW w \in Workers, leaveCall(w)
    PROVE  IInv' /\ LifecycleStep
  <1>1. PICK c \in DOMAIN calls, u \in Users :
           Begin(w, [Idle EXCEPT !.op = "leave", !.pc = "claim", !.user = u,
                                 !.call = c, !.seen = calls[c].status])
    BY DEF leaveCall
  <1> HIDE DEF IInv
  <1> QED BY <1>1, RowFacts, AskingJob, AskStep

LEMMA cancelCallStep ==
    ASSUME IInv, NEW w \in Workers, cancelCall(w)
    PROVE  IInv' /\ LifecycleStep
  <1>1. PICK c \in DOMAIN calls :
           Begin(w, [Idle EXCEPT !.op = "cancel", !.pc = "claim", !.call = c,
                                 !.user = calls[c].initiator])
    BY DEF cancelCall
  <1> HIDE DEF IInv
  <1> QED BY <1>1, RowFacts, AskingJob, AskStep

LEMMA handleLiveKitWebhookStep ==
    ASSUME IInv, NEW w \in Workers, handleLiveKitWebhook(w)
    PROVE  IInv' /\ LifecycleStep
  <1>1. PICK c \in DOMAIN calls :
           Begin(w, [Idle EXCEPT !.op = "webhook", !.pc = "claim", !.call = c])
    BY DEF handleLiveKitWebhook
  <1> HIDE DEF IInv
  <1> QED BY <1>1, RowFacts, AskingJob, AskStep

\* Every request is well formed.
LEMMA RequestStep ==
    ASSUME IInv, NEW w \in Workers, Request(w)
    PROVE  IInv' /\ LifecycleStep
  BY SweepStep, startCallStep, acceptCallStep, createJoinTokenStep, rejectCallStep,
     leaveCallStep, cancelCallStep, handleLiveKitWebhookStep DEF Request

\* A request goes on, for one of the reasons that keep it on its call.
LEMMA MoveStep ==
    ASSUME IInv, NEW w \in Workers, NEW p \in Pcs, Goto(w, p),
           UNCHANGED <<calls, records>>,
           \/ p \in {"check", "drop"}
           \/ p \in {"claim", "joining", "count", "endSingle", "endAll"} /\ OnCall(job[w])
           \/ p \in {"room", "record"} /\ Closing(job[w])
           \/ p = "insert" /\ Fresh(job[w]),
           p = "drop" => Fresh(job[w]),
           seats' \in [DOMAIN calls -> [Users -> SeatStatus]],
           late' \subseteq DOMAIN calls, barred' \subseteq SUBSET Users,
           strays' \subseteq rooms' /\ rooms' \subseteq CallIds
    PROVE  IInv' /\ LifecycleStep
  <1> DEFINE j == [job[w] EXCEPT !.pc = p]
  <1>1. job[w] \in Job /\ (OnCall(job[w]) => job[w].call \in DOMAIN calls)
    BY DEF IInv, TypeOK
  <1>2. /\ j \in Job /\ j.pc = p /\ j.op = job[w].op /\ j.user = job[w].user
        /\ j.sort = job[w].sort /\ j.key = job[w].key /\ j.call = job[w].call
        /\ j.outcome = job[w].outcome /\ j.todo = job[w].todo
    BY <1>1 DEF Job
  <1>3. job' = [job EXCEPT ![w] = j]
    BY DEF Goto
  <1> HIDE DEF j
  <1>4. /\ OnCall(j) => j.call \in DOMAIN calls
        /\ Fresh(j) => Fresh(job[w])
        /\ Closing(j) => Closing(job[w])
    BY <1>1, <1>2 DEF OnCall, Fresh, Closing
  <1> HIDE DEF IInv
  <1> QED BY <1>2, <1>3, <1>4, GotoStep

\* An expired call is missed, or had ended otherwise.
LEMMA expireStep ==
    ASSUME IInv, NEW w \in Workers, expireRingingCallAsMissed(w)
    PROVE  IInv' /\ LifecycleStep
  <1>1. PICK c \in job[w].todo :
          IF calls[c].status = "RINGING"
          THEN /\ SetStatus(c, "MISSED")
               /\ job' = [job EXCEPT ![w].pc = "seats", ![w].call = c,
                                     ![w].todo = @ \ {c},
                                     ![w].outcome = "MISSED", ![w].from = "INVITED"]
          ELSE /\ UNCHANGED calls
               /\ job' = [job EXCEPT ![w].todo = @ \ {c}]
    BY DEF expireRingingCallAsMissed
  <1>2. /\ UNCHANGED <<seats, late, barred, rooms, strays, records>>
        /\ job[w].pc = "expire"
    BY DEF expireRingingCallAsMissed
  <1>3. /\ job[w] \in Job /\ job[w].todo \subseteq DOMAIN calls
        /\ c \in DOMAIN calls /\ c \in CallIds /\ DOMAIN calls \subseteq CallIds
    BY DEF IInv, TypeOK
  <1> DEFINE rest == job[w].todo \ {c}
  <1>4. rest \in SUBSET CallIds /\ rest \subseteq job[w].todo
    BY <1>3
  <1>5. CASE calls[c].status = "RINGING"
    <2> DEFINE j == [job[w] EXCEPT !.pc = "seats", !.call = c, !.todo = rest,
                                   !.outcome = "MISSED", !.from = "INVITED"]
    <2>1. SetStatus(c, "MISSED") /\ job' = [job EXCEPT ![w] = j]
      BY <1>1, <1>5
    <2>2. "seats" \in Pcs /\ "MISSED" \in Lifecycle!Outcomes
      BY DEF Pcs, Lifecycle!Outcomes
    <2> HIDE DEF rest
    <2>3. j \in Job
      BY <1>3, <1>4, <2>2, ClosingJob
    <2>4. /\ j.op = job[w].op /\ j.user = job[w].user /\ j.sort = job[w].sort
          /\ j.key = job[w].key /\ j.todo = rest /\ j.pc = "seats" /\ j.call = c
          /\ j.outcome = "MISSED"
      BY <1>3 DEF Job
    <2>5. Closing(j) /\ "MISSED" \in Outcomes
      BY <2>2, <2>4 DEF Closing, Outcomes
    <2> HIDE DEF j, IInv
    <2> QED BY <1>2, <1>3, <1>4, <1>5, <2>1, <2>3, <2>4, <2>5, WinStep
  <1>6. CASE calls[c].status # "RINGING"
    <2> DEFINE j == [job[w] EXCEPT !.todo = rest]
    <2>1. UNCHANGED calls /\ job' = [job EXCEPT ![w] = j]
      BY <1>1, <1>6
    <2> HIDE DEF rest
    <2>2. /\ j \in Job /\ j.pc = job[w].pc /\ j.op = job[w].op /\ j.user = job[w].user
          /\ j.sort = job[w].sort /\ j.key = job[w].key /\ j.call = job[w].call
          /\ j.outcome = job[w].outcome /\ j.todo = rest
      BY <1>3, <1>4 DEF Job
    <2>3. ~OnCall(j) /\ ~Fresh(j) /\ ~Closing(j)
      BY <1>2, <2>2 DEF OnCall, Fresh, Closing
    <2> HIDE DEF j, IInv
    <2> QED BY <1>2, <1>4, <2>1, <2>2, <2>3, Kept, GotoStep
  <1> QED BY <1>5, <1>6

LEMMA AllExpiredStep ==
    ASSUME IInv, NEW w \in Workers, AllExpired(w)
    PROVE  IInv' /\ LifecycleStep
  <1>1. /\ Goto(w, "check") \/ Finish(w)
        /\ UNCHANGED <<calls, seats, late, barred, rooms, strays, records>>
    BY DEF AllExpired, Silent, table
  <1>2. "check" \in Pcs
    BY DEF Pcs
  <1> HIDE DEF IInv
  <1> QED BY <1>1, <1>2, Kept, MoveStep, FinishStep

\* The room is made: its call gets an id nobody works on.
LEMMA createRoomStep ==
    ASSUME IInv, NEW w \in Workers, createRoom(w)
    PROVE  IInv' /\ LifecycleStep
  <1>1. UNCHANGED <<calls, seats, late, barred, records>> /\ At(w, "create", "check")
    BY DEF createRoom, table
  <1>2. CASE /\ Finish(w)
             /\ \/ UNCHANGED <<rooms, strays>>
                \/ \E c \in CallIds : rooms' = rooms \cup {c} /\ strays' = strays \cup {c}
    <2>1. strays' \subseteq rooms' /\ rooms' \subseteq CallIds
      BY <1>2 DEF IInv, TypeOK
    <2> HIDE DEF IInv
    <2> QED BY <1>1, <1>2, <2>1, Kept, FinishStep
  <1>3. ASSUME NEW c \in CallIds \ (DOMAIN calls \cup rooms), NEW pc \in {"begin", "drop"},
               \A x \in Workers : job[x].call # c,
               rooms' = rooms \cup {c} /\ UNCHANGED strays,
               job' = [job EXCEPT ![w].pc = pc, ![w].call = c]
        PROVE  IInv' /\ LifecycleStep
    <2>1. /\ \A x \in Workers : job[x].call # c
          /\ rooms' = rooms \cup {c} /\ UNCHANGED strays
          /\ job' = [job EXCEPT ![w].pc = pc, ![w].call = c]
      BY <1>3
    <2> DEFINE j == [job[w] EXCEPT !.pc = pc, !.call = c]
    <2>2. job[w] \in Job /\ job[w].todo \subseteq DOMAIN calls
      BY DEF IInv, TypeOK
    <2>3. /\ j \in Job /\ j.pc = pc /\ j.op = job[w].op /\ j.user = job[w].user
          /\ j.sort = job[w].sort /\ j.key = job[w].key /\ j.call = c
          /\ j.todo = job[w].todo
      BY <2>2 DEF Job, Pcs
    <2>4. job' = [job EXCEPT ![w] = j]
      BY <2>1
    <2> HIDE DEF j
    <2>5. job'[w] = j /\ job' = [job EXCEPT ![w] = job'[w]]
      BY <2>4 DEF IInv, TypeOK
    <2>6. ~OnCall(j) /\ ~Closing(j)
      BY <2>3 DEF OnCall, Closing
    <2>7. j.op = "create" => j.user \in Users /\ j.sort \in Sorts /\ j.key \in Keys
      BY <2>3 DEF IInv, JobsOK, JobOK
    <2>8. strays' \subseteq rooms' /\ rooms' \subseteq CallIds
      BY <2>1 DEF IInv, TypeOK
    <2> HIDE DEF IInv
    <2> QED BY <1>1, <2>1, <2>2, <2>3, <2>5, <2>6, <2>7, <2>8, Kept, QuietStep
  <1> QED BY <1>2, <1>3 DEF createRoom

LEMMA lockParticipantsStep ==
    ASSUME IInv, NEW w \in Workers, lockParticipantsForCall(w)
    PROVE  IInv' /\ LifecycleStep
  <1>1. UNCHANGED <<calls, seats, late, barred, rooms, strays, records>> /\ job[w].pc = "begin"
    BY DEF lockParticipantsForCall, Silent, table, At
  <1>2. PICK b \in BOOLEAN : job' = [job EXCEPT ![w].pc = "insert", ![w].allowed = b]
    BY DEF lockParticipantsForCall, assertDirectCallee
  <1> DEFINE j == [job[w] EXCEPT !.pc = "insert", !.allowed = b]
  <1>3. job[w] \in Job
    BY DEF IInv, TypeOK
  <1>4. /\ j \in Job /\ j.pc = "insert" /\ j.op = job[w].op /\ j.user = job[w].user
        /\ j.sort = job[w].sort /\ j.key = job[w].key /\ j.call = job[w].call
        /\ j.outcome = job[w].outcome /\ j.todo = job[w].todo
    BY ZenonT(30), <1>3 DEF Job, Pcs
  <1>5. job' = [job EXCEPT ![w] = j]
    BY <1>2
  <1> HIDE DEF j
  <1>6. ~OnCall(j) /\ ~Closing(j) /\ Fresh(job[w])
    BY <1>1, <1>4 DEF OnCall, Fresh, Closing
  <1> HIDE DEF IInv
  <1> QED BY <1>1, <1>4, <1>5, <1>6, Kept, GotoStep

LEMMA createRefusedStep ==
    ASSUME IInv, NEW w \in Workers, createRefused(w)
    PROVE  IInv' /\ LifecycleStep
  <1>1. /\ UNCHANGED <<calls, seats, late, barred, rooms, strays, records>>
        /\ Fresh(job[w]) /\ Goto(w, "drop") /\ "drop" \in Pcs
    BY DEF createRefused, Silent, table, At, Fresh, Pcs
  <1> HIDE DEF IInv
  <1> QED BY <1>1, Kept, MoveStep

LEMMA dropRoomStep ==
    ASSUME IInv, NEW w \in Workers, dropRoom(w)
    PROVE  IInv' /\ LifecycleStep
  <1>1. UNCHANGED <<calls, seats, late, barred, records>> /\ Finish(w)
    BY DEF dropRoom, table
  <1>2. strays' \subseteq rooms' /\ rooms' \subseteq CallIds
    BY DEF dropRoom, livekitDeleteRoom, IInv, TypeOK
  <1> HIDE DEF IInv
  <1> QED BY <1>1, <1>2, Kept, FinishStep

LEMMA mintTokenStep ==
    ASSUME IInv, NEW w \in Workers, mintToken(w)
    PROVE  IInv' /\ LifecycleStep
  <1>1. job[w].call \in DOMAIN calls
    BY DEF mintToken, At, IInv, TypeOK, OnCall
  <1>2. CASE Finish(w) /\ Silent
    <2>1. UNCHANGED <<calls, seats, late, barred, rooms, strays, records>>
      BY <1>2 DEF Silent, table
    <2> HIDE DEF IInv
    <2> QED BY <1>2, <2>1, Kept, FinishStep
  <1>3. CASE EndCall(w, job[w].call, {"RINGING"}, "FAILED", None, "room")
    <2>1. "FAILED" \in Outcomes
      BY DEF Outcomes, Lifecycle!Outcomes
    <2> HIDE DEF IInv
    <2> QED BY <1>1, <1>3, <2>1, EndCallStep
  <1> QED BY <1>2, <1>3 DEF mintToken

\* One seat takes a new status.
LEMMA SeatTyped ==
    ASSUME IInv, NEW c, NEW u, NEW s \in SeatStatus
    PROVE  [seats EXCEPT ![c][u] = s] \in [DOMAIN calls -> [Users -> SeatStatus]]
  BY DEF IInv, TypeOK

LEMMA joinInvitedCallStep ==
    ASSUME IInv, NEW w \in Workers, joinInvitedCall(w)
    PROVE  IInv' /\ LifecycleStep
  <1> DEFINE c == job[w].call
             u == job[w].user
  <1>1. /\ OnCall(job[w]) /\ c \in DOMAIN calls
        /\ UNCHANGED <<late, barred, rooms, strays, records>>
    BY DEF joinInvitedCall, At, OnCall, IInv, TypeOK
  <1>2. \/ Finish(w) /\ UNCHANGED table
        \/ Goto(w, "joining") /\ UNCHANGED table
        \/ /\ calls[c].status = "RINGING"
           /\ seats' = [seats EXCEPT ![c][u] = "JOINED"]
           /\ SetStatus(c, "ACTIVE") /\ Finish(w)
    <2>1. Live(c) => calls[c].status \in {"RINGING", "ACTIVE"}
      BY <1>1 DEF Live, status, IInv, TypeOK
    <2> QED BY <2>1 DEF joinInvitedCall
  <1>3. "joining" \in Pcs /\ "JOINED" \in SeatStatus
    BY DEF Pcs, SeatStatus
  <1>4. [seats EXCEPT ![c][u] = "JOINED"] \in [DOMAIN calls -> [Users -> SeatStatus]]
    BY <1>3, SeatTyped
  <1> HIDE DEF IInv, c, u
  <1>5. CASE Finish(w) /\ UNCHANGED table
    BY <1>1, <1>5, Kept, FinishStep DEF table
  <1>6. CASE Goto(w, "joining") /\ UNCHANGED table
    BY <1>1, <1>3, <1>6, Kept, MoveStep DEF table
  <1>7. CASE /\ calls[c].status = "RINGING"
             /\ seats' = [seats EXCEPT ![c][u] = "JOINED"]
             /\ SetStatus(c, "ACTIVE") /\ Finish(w)
    BY <1>1, <1>4, <1>7, AnswerStep
  <1> QED BY <1>2, <1>5, <1>6, <1>7

LEMMA joinCommitsStep ==
    ASSUME IInv, NEW w \in Workers, joinCommits(w)
    PROVE  IInv' /\ LifecycleStep
  <1>1. UNCHANGED <<calls, late, barred, rooms, strays, records>> /\ Finish(w)
    BY DEF joinCommits
  <1>2. seats' \in [DOMAIN calls -> [Users -> SeatStatus]]
    BY SeatTyped DEF joinCommits, SeatStatus
  <1> HIDE DEF IInv
  <1> QED BY <1>1, <1>2, Kept, FinishStep

LEMMA rejectSeatStep ==
    ASSUME IInv, NEW w \in Workers, rejectSeat(w)
    PROVE  IInv' /\ LifecycleStep
  <1>1. UNCHANGED <<calls, late, barred, rooms, strays, records>> /\ OnCall(job[w])
    BY DEF rejectSeat, At, OnCall
  <1>2. seats' \in [DOMAIN calls -> [Users -> SeatStatus]]
    <2>1. seats' = seats \/ seats' = [seats EXCEPT ![job[w].call][job[w].user] = "REJECTED"]
      BY DEF rejectSeat
    <2>2. "REJECTED" \in SeatStatus /\ seats \in [DOMAIN calls -> [Users -> SeatStatus]]
      BY DEF SeatStatus, IInv, TypeOK
    <2> HIDE DEF IInv
    <2> QED BY <2>1, <2>2, SeatTyped
  <1>3. Goto(w, "count") \/ Finish(w)
    BY DEF rejectSeat
  <1>4. "count" \in Pcs
    BY DEF Pcs
  <1> HIDE DEF IInv
  <1> QED BY <1>1, <1>2, <1>3, <1>4, Kept, MoveStep, FinishStep

LEMMA endRingingCallStep ==
    ASSUME IInv, NEW w \in Workers, endRingingCallIfNoInviteesRemain(w)
    PROVE  IInv' /\ LifecycleStep
  <1>1. /\ UNCHANGED <<calls, seats, late, barred, rooms, strays, records>>
        /\ At(w, "reject", "count")
    BY DEF endRingingCallIfNoInviteesRemain, Silent, table
  <1>2. CASE Finish(w)
    <2> HIDE DEF IInv
    <2> QED BY <1>1, <1>2, Kept, FinishStep
  <1>3. CASE job' = [job EXCEPT ![w].pc = "expire", ![w].todo = {job[w].call}]
    <2> DEFINE c == job[w].call
               j == [job[w] EXCEPT !.pc = "expire", !.todo = {c}]
    <2>1. job[w] \in Job /\ c \in DOMAIN calls /\ c \in CallIds /\ job[w].op = "reject"
      BY <1>1 DEF IInv, TypeOK, OnCall, At
    <2>2. /\ j \in Job /\ j.pc = "expire" /\ j.op = "reject" /\ j.todo = {c}
      BY <2>1 DEF Job, Pcs
    <2>3. job' = [job EXCEPT ![w] = j]
      BY <1>3
    <2> HIDE DEF j, c
    <2>4. job'[w] = j /\ job' = [job EXCEPT ![w] = job'[w]]
      BY <2>3 DEF IInv, TypeOK
    <2>5. ~OnCall(j) /\ ~Fresh(j) /\ ~Closing(j)
      BY <2>2 DEF OnCall, Fresh, Closing
    <2> HIDE DEF IInv
    <2> QED BY <1>1, <2>1, <2>2, <2>4, <2>5, Kept, QuietStep
  <1> QED BY <1>2, <1>3 DEF endRingingCallIfNoInviteesRemain

LEMMA leaveSeatStep ==
    ASSUME IInv, NEW w \in Workers, leaveSeat(w)
    PROVE  IInv' /\ LifecycleStep
  <1>1. UNCHANGED <<calls, late, barred, rooms, strays, records>> /\ OnCall(job[w])
    BY DEF leaveSeat, At, OnCall
  <1>2. seats' \in [DOMAIN calls -> [Users -> SeatStatus]]
    BY SeatTyped DEF leaveSeat, SeatStatus
  <1>3. Goto(w, "endSingle") \/ Goto(w, "count")
    BY DEF leaveSeat
  <1>4. "count" \in Pcs /\ "endSingle" \in Pcs
    BY DEF Pcs
  <1> HIDE DEF IInv
  <1> QED BY <1>1, <1>2, <1>3, <1>4, Kept, MoveStep

LEMMA leaveCountStep ==
    ASSUME IInv, NEW w \in Workers, leaveCount(w)
    PROVE  IInv' /\ LifecycleStep
  <1>1. /\ UNCHANGED <<calls, seats, late, barred, rooms, strays, records>>
        /\ OnCall(job[w]) /\ "endAll" \in Pcs
        /\ Goto(w, "endAll") \/ Finish(w)
    BY DEF leaveCount, Silent, table, At, OnCall, Pcs
  <1> HIDE DEF IInv
  <1> QED BY <1>1, Kept, MoveStep, FinishStep

\* The updates that end a call.
LEMMA EndingStep ==
    ASSUME IInv, NEW w \in Workers,
           \/ endSingleCallOnFirstLeave(w) \/ endAllLeft(w) \/ cancelRinging(w)
           \/ endLiveKitFinishedCall(w)
    PROVE  IInv' /\ LifecycleStep
  <1>1. job[w].call \in DOMAIN calls
    BY DEF endSingleCallOnFirstLeave, endAllLeft, cancelRinging, endLiveKitFinishedCall,
           At, IInv, TypeOK, OnCall
  <1>2. "ENDED" \in Outcomes /\ "CANCELED" \in Outcomes
    BY DEF Outcomes, Lifecycle!Outcomes
  <1>3. \/ EndCall(w, job[w].call, {"ACTIVE"}, "ENDED", "JOINED", "seats")
        \/ EndCall(w, job[w].call, {"RINGING", "ACTIVE"}, "ENDED", None, "room")
        \/ EndCall(w, job[w].call, {"RINGING"}, "CANCELED", "INVITED", "seats")
        \/ EndCall(w, job[w].call, {"RINGING", "ACTIVE"}, "ENDED", "JOINED", "seats")
    BY DEF endSingleCallOnFirstLeave, endAllLeft, cancelRinging, endLiveKitFinishedCall
  <1> HIDE DEF IInv
  <1> QED BY <1>1, <1>2, <1>3, EndCallStep

LEMMA closeSeatsStep ==
    ASSUME IInv, NEW w \in Workers, closeSeats(w)
    PROVE  IInv' /\ LifecycleStep
  <1>1. /\ UNCHANGED <<calls, late, barred, rooms, strays, records>>
        /\ Closing(job[w]) /\ Goto(w, "room") /\ "room" \in Pcs
    BY DEF closeSeats, Closing, Pcs
  <1>2. seats' \in [DOMAIN calls -> [Users -> SeatStatus]]
    <2> DEFINE c == job[w].call
               new == [u \in Users |-> IF seats[c][u] # job[w].from THEN seats[c][u]
                                       ELSE IF job[w].from = "INVITED" THEN "MISSED"
                                       ELSE "LEFT"]
    <2>1. c \in DOMAIN calls
      BY DEF closeSeats, OnCall, IInv, TypeOK
    <2>2. new \in [Users -> SeatStatus]
      BY <2>1 DEF SeatStatus, IInv, TypeOK
    <2>3. seats' = [seats EXCEPT ![c] = new]
      BY DEF closeSeats
    <2> HIDE DEF c, new
    <2> QED BY <2>1, <2>2, <2>3 DEF IInv, TypeOK
  <1> HIDE DEF IInv
  <1> QED BY <1>1, <1>2, Kept, MoveStep

LEMMA deleteRoomStep ==
    ASSUME IInv, NEW w \in Workers, deleteRoom(w)
    PROVE  IInv' /\ LifecycleStep
  <1>1. /\ UNCHANGED <<calls, seats, late, barred, records>>
        /\ Closing(job[w]) /\ Goto(w, "record") /\ "record" \in Pcs
    BY DEF deleteRoom, table, Closing, Pcs
  <1>2. strays' \subseteq rooms' /\ rooms' \subseteq CallIds
    BY DEF deleteRoom, livekitDeleteRoom, IInv, TypeOK
  <1> HIDE DEF IInv
  <1> QED BY <1>1, <1>2, Kept, MoveStep

LEMMA CrashStep ==
    ASSUME IInv, NEW w \in Workers, Crash(w)
    PROVE  IInv' /\ LifecycleStep
  <1>1. UNCHANGED <<calls, seats, late, barred, rooms, strays, records>> /\ Finish(w)
    BY DEF Crash, Silent, table
  <1> HIDE DEF IInv
  <1> QED BY <1>1, Kept, FinishStep

LEMMA WorkerStep ==
    ASSUME IInv, NEW w \in Workers, Step(w)
    PROVE  IInv' /\ LifecycleStep
  <1>1. CASE createCallSession(w)
    BY <1>1, AddCallStep DEF createCallSession
  <1>2. CASE ~createCallSession(w)
    <2> HIDE DEF IInv
    <2> QED BY <1>2, expireStep, AllExpiredStep, createRoomStep, lockParticipantsStep,
               createRefusedStep, dropRoomStep, mintTokenStep, joinInvitedCallStep,
               joinCommitsStep, rejectSeatStep, endRingingCallStep, leaveSeatStep,
               leaveCountStep, EndingStep, closeSeatsStep, deleteRoomStep, RecordStep
            DEF Step
  <1> QED BY <1>1, <1>2

LEMMA EnvironmentStep ==
    ASSUME IInv, ToggleBarred \/ LiveKitClosesRoom \/ \E c \in CallIds : RingTimeout(c)
    PROVE  IInv' /\ LifecycleStep
  <1>1. CASE ToggleBarred
    <2>1. UNCHANGED <<table, late, rooms, strays, records, job>>
      BY <1>1 DEF ToggleBarred
    <2>2. barred' \subseteq SUBSET Users
      BY <1>1 DEF ToggleBarred, IInv, TypeOK
    <2> HIDE DEF IInv
    <2> QED BY <2>1, <2>2, Kept, OutsideStep
  <1>2. CASE LiveKitClosesRoom
    <2>1. UNCHANGED <<table, late, barred, records, job>>
      BY <1>2 DEF LiveKitClosesRoom
    <2>2. strays' \subseteq rooms' /\ rooms' \subseteq CallIds
      BY <1>2 DEF LiveKitClosesRoom, IInv, TypeOK
    <2> HIDE DEF IInv
    <2> QED BY <2>1, <2>2, Kept, OutsideStep
  <1>3. CASE \E c \in CallIds : RingTimeout(c)
    <2>1. UNCHANGED <<table, barred, rooms, strays, records, job>>
      BY <1>3 DEF RingTimeout
    <2>2. late' \subseteq DOMAIN calls
      BY <1>3 DEF RingTimeout, IInv, TypeOK
    <2> HIDE DEF IInv
    <2> QED BY <2>1, <2>2, Kept, OutsideStep
  <1> QED BY <1>1, <1>2, <1>3

-----------------------------------------------------------------------------
(* The invariant holds, and every step is a step of CallLifecycle.          *)

LEMMA InitIInv ==
    ASSUME Init
    PROVE  IInv /\ Lifecycle!LifecycleInit
  <1>1. DOMAIN calls = {} /\ DOMAIN seats = {}
    BY DEF Init
  <1>2. Idle \in Job /\ Idle.todo = {} /\ Idle.op # "create"
        /\ ~OnCall(Idle) /\ ~Fresh(Idle) /\ ~Closing(Idle)
    BY DEF Idle, Job, Pcs, OnCall, Fresh, Closing
  <1>3. \A w \in Workers : job[w] = Idle
    BY DEF Init
  <1>4. job \in [Workers -> Job]
    BY <1>2 DEF Init
  <1>5. TypeOK
    <2>1. records \in [CallIds -> Seq(Lifecycle!Outcomes)]
      BY DEF Init
    <2>2. calls \in [DOMAIN calls -> CallRow]
      BY <1>1 DEF Init
    <2>3. seats \in [DOMAIN calls -> [Users -> SeatStatus]]
      BY <1>1 DEF Init
    <2> HIDE DEF Idle
    <2> QED BY <1>1, <1>2, <1>3, <1>4, <2>1, <2>2, <2>3 DEF TypeOK, Init
  <1>6. JobsOK /\ Exclusive
    <2> HIDE DEF Idle
    <2> QED BY <1>2, <1>3 DEF JobsOK, JobOK, Exclusive
  <1>7. Unrecorded
    BY DEF Init, Unrecorded
  <1>8. Lifecycle!LifecycleInit
    BY <1>1 DEF Init, Lifecycle!LifecycleInit, status
  <1> QED BY <1>5, <1>6, <1>7, <1>8 DEF IInv

LEMMA NextIInv ==
    ASSUME IInv, [Next]_vars
    PROVE  IInv' /\ LifecycleStep
  <1>1. CASE Next
    <2> HIDE DEF IInv
    <2> QED BY <1>1, RequestStep, WorkerStep, CrashStep, EnvironmentStep DEF Next
  <1>2. CASE UNCHANGED vars
    <2>1. UNCHANGED <<table, late, barred, rooms, strays, records, job>>
      BY <1>2 DEF vars, table
    <2> HIDE DEF IInv
    <2> QED BY <2>1, Kept, OutsideStep
  <1> QED BY <1>1, <1>2

THEOREM CallInvariant == Spec => []IInv
  <1>1. Init => IInv
    BY InitIInv
  <1>2. IInv /\ [Next]_vars => IInv'
    BY NextIInv
  <1> QED BY <1>1, <1>2, PTL DEF Spec

\* Rows, seats, rooms, records and requests keep their shape, and a request
\* that works on a call works on one that exists.
THEOREM CallTypeCorrect == Spec => []TypeOK
  <1>1. IInv => TypeOK
    BY DEF IInv
  <1> QED BY <1>1, CallInvariant, PTL

\* For any number of calls, users and concurrent requests, also when requests
\* die between two statements, every call rings, is answered, ends and is
\* recorded as CallLifecycle says: an ended call keeps its outcome, and its
\* end is recorded once at most and with that outcome.
THEOREM CallsKeepLifecycle == Spec => KeepsLifecycle
  <1>1. Init => Lifecycle!LifecycleInit
    BY InitIInv
  <1>2. IInv /\ [Next]_vars => [Lifecycle!LifecycleNext]_(Lifecycle!lifecycleVars)
    BY NextIInv DEF LifecycleStep
  <1> QED BY <1>1, <1>2, CallInvariant, PTL DEF Spec, KeepsLifecycle, Lifecycle!LifecycleSpec

-----------------------------------------------------------------------------
(* Seats and rooms.  A seat is taken with its call, and from then on it only *)
(* moves on (Drift), except that an acceptance takes INVITED to JOINED; what *)
(* an acceptance has read of the seat holds until it commits, because it     *)
(* holds the row and nobody else writes a seat that is still INVITED without *)
(* waiting (SeatJob, OneHolder).                                             *)

(* The inductive invariant.                                                  *)

\* Who has accepted call c.
Answered(c) == {u \in Users \ {calls[c].initiator} : seats[c][u] \in {"JOINED", "LEFT"}}

\* The initiator has sat from the start; who accepted shows in the status.
Answers ==
    \A c \in DOMAIN calls :
        /\ seats[c][calls[c].initiator] \in {"JOINED", "LEFT"}
        /\ calls[c].status \in {"RINGING", "MISSED", "CANCELED", "FAILED"} =>
              Answered(c) = {}
        /\ calls[c].status = "ACTIVE" => Answered(c) # {}

\* What the job of an acceptance or a hang-up knows of its seat, and what the
\* winner of an end settles.
SeatJob(j) ==
    /\ j.op = "accept" /\ j.pc = "claim" => j.user \in Users
    /\ j.pc = "seats" => j.from \in {"INVITED", "JOINED"}
    /\ j.pc = "joining" => /\ j.user \in Users
                           /\ seats[j.call][j.user] = "INVITED"
                           /\ calls[j.call].status \in {"ACTIVE", "ENDED"}
    /\ j.op = "leave" /\ j.pc = "claim" =>
          /\ j.user \in Users
          /\ seats[j.call][j.user] \in {"JOINED", "LEFT"}

SeatJobs == \A w \in Workers : SeatJob(job[w])

\* One transaction holds a seat.
OneHolder ==
    \A v, w \in Workers :
        job[v].pc = "joining" /\ job[w].pc = "joining"
        /\ job[v].call = job[w].call /\ job[v].user = job[w].user => v = w

SInv == NoDoubleBooking /\ Answers /\ SeatJobs /\ OneHolder

\* The request will delete the room of its call, or add the call.
SeesToRoom(j) == j.pc \in {"begin", "insert", "drop", "seats", "room"}

\* The rooms the media server will only let go of when it is asked to.
Owed == rooms \ strays

\* While nobody crashes: a room without a live call has such a request.
RoomsKept ==
    \A c \in Owed :
        Live(c) \/ \E w \in Workers : job[w].call = c /\ SeesToRoom(job[w])

Good == IInv /\ SInv

-----------------------------------------------------------------------------
(* How seats and calls move on.                                             *)

\* No transaction but that of w holds the seat of u.
FreeFor(w, c, u) ==
    \A v \in Workers \ {w} :
        ~(job[v].pc = "joining" /\ job[v].call = c /\ job[v].user = u)

\* A step of w moves the seat of u on.
Drift(w, c, u) ==
    \/ seats'[c][u] = seats[c][u]
    \/ seats[c][u] = "JOINED" /\ seats'[c][u] = "LEFT"
    \/ /\ seats[c][u] = "INVITED" /\ FreeFor(w, c, u)
       /\ \/ seats'[c][u] \in {"REJECTED", "MISSED"}
          \/ seats'[c][u] = "JOINED" /\ calls'[c].status \in {"ACTIVE", "ENDED"}

\* A call goes on as it is, ends, or is answered together with a seat.
Moves(c) ==
    /\ calls'[c].initiator = calls[c].initiator
    /\ \/ calls'[c].status = calls[c].status
       \/ calls[c].status \in {"RINGING", "ACTIVE"} /\ calls'[c].status = "ENDED"
       \/ /\ calls[c].status = "RINGING"
          /\ calls'[c].status \in {"MISSED", "CANCELED", "FAILED"}
       \/ /\ calls[c].status = "RINGING" /\ calls'[c].status = "ACTIVE"
          /\ \E u \in Users : seats[c][u] = "INVITED" /\ seats'[c][u] = "JOINED"

\* The step of one request, on calls that are there.
LEMMA DriftStep ==
    ASSUME Good, NEW w \in Workers, job' = [job EXCEPT ![w] = job'[w]],
           DOMAIN calls' = DOMAIN calls,
           \A c \in DOMAIN calls : Moves(c) /\ \A u \in Users : Drift(w, c, u),
           SeatJob(job[w])',
           job'[w].pc = "joining" => FreeFor(w, job'[w].call, job'[w].user)
    PROVE  SInv'
  <1>1. \A v \in Workers \ {w} : job'[v] = job[v]
    BY DEF Good, IInv, TypeOK
  <1>2. DOMAIN calls \subseteq CallIds
    BY DEF Good, IInv, TypeOK
  <1>3. ASSUME NEW c \in DOMAIN calls PROVE Live(c)' => Live(c)
    BY <1>2 DEF Live, status, Moves
  <1>4. ASSUME NEW c \in DOMAIN calls, NEW u \in Users PROVE InCall(c, u)' => InCall(c, u)
    BY DEF InCall, Drift
  <1>5. NoDoubleBooking'
    BY <1>3, <1>4 DEF Good, SInv, NoDoubleBooking
  <1>6. ASSUME NEW c \in DOMAIN calls
        PROVE  /\ seats'[c][calls'[c].initiator] \in {"JOINED", "LEFT"}
               /\ calls'[c].status \in {"RINGING", "MISSED", "CANCELED", "FAILED"} =>
                     Answered(c)' = {}
               /\ calls'[c].status = "ACTIVE" => Answered(c)' # {}
    <2>1. /\ Moves(c) /\ \A u \in Users : Drift(w, c, u)
          /\ calls[c].initiator \in Users
      BY DEF Good, IInv, TypeOK, CallRow
    <2>2. /\ seats[c][calls[c].initiator] \in {"JOINED", "LEFT"}
          /\ calls[c].status \in {"RINGING", "MISSED", "CANCELED", "FAILED"} =>
                Answered(c) = {}
          /\ calls[c].status = "ACTIVE" => Answered(c) # {}
      BY DEF Good, SInv, Answers
    <2>3. calls'[c].initiator = calls[c].initiator
      BY <2>1 DEF Moves
    <2>4. seats'[c][calls[c].initiator] \in {"JOINED", "LEFT"}
      BY <2>1, <2>2 DEF Drift
    <2>5. ASSUME calls'[c].status \in {"RINGING", "MISSED", "CANCELED", "FAILED"}
          PROVE  Answered(c)' = {}
      <3>1. Answered(c) = {}
        BY <2>1, <2>2, <2>5 DEF Moves
      <3> SUFFICES ASSUME NEW u \in Users \ {calls[c].initiator},
                          seats'[c][u] \in {"JOINED", "LEFT"}
                   PROVE  FALSE
        BY <2>3 DEF Answered
      <3>2. seats[c][u] \notin {"JOINED", "LEFT"}
        BY <3>1 DEF Answered
      <3> QED BY <2>1, <2>5, <3>2 DEF Drift
    <2>6. ASSUME calls'[c].status = "ACTIVE"
          PROVE  Answered(c)' # {}
      <3>1. CASE calls[c].status = "ACTIVE"
        <4>1. PICK u \in Users \ {calls[c].initiator} : seats[c][u] \in {"JOINED", "LEFT"}
          BY <2>2, <3>1 DEF Answered
        <4>2. seats'[c][u] \in {"JOINED", "LEFT"}
          BY <2>1, <4>1 DEF Drift
        <4> QED BY <2>3, <4>2 DEF Answered
      <3>2. CASE calls[c].status # "ACTIVE"
        <4>1. PICK u \in Users : seats[c][u] = "INVITED" /\ seats'[c][u] = "JOINED"
          BY <2>1, <2>6, <3>2 DEF Moves
        <4>2. u # calls[c].initiator
          BY <2>2, <4>1
        <4> QED BY <2>3, <4>1, <4>2 DEF Answered
      <3> QED BY <3>1, <3>2
    <2> QED BY <2>3, <2>4, <2>5, <2>6
  <1>7. Answers'
    BY <1>6 DEF Answers
  <1>8. ASSUME NEW v \in Workers, v # w PROVE SeatJob(job[v])'
    <2>1. job'[v] = job[v] /\ SeatJob(job[v])
      BY <1>1, <1>8 DEF Good, SInv, SeatJobs
    <2>2. CASE job[v].pc = "joining"
      <3> DEFINE c == job[v].call
                 u == job[v].user
      <3>1. c \in DOMAIN calls /\ u \in Users
        BY <2>1, <2>2 DEF Good, IInv, TypeOK, OnCall, SeatJob
      <3>2. ~FreeFor(w, c, u)
        BY <1>8, <2>2 DEF FreeFor
      <3>3. seats'[c][u] = "INVITED" /\ calls'[c].status \in {"ACTIVE", "ENDED"}
        BY <2>1, <2>2, <3>1, <3>2 DEF SeatJob, Drift, Moves
      <3> QED BY <2>1, <2>2, <3>1, <3>3 DEF SeatJob
    <2>3. CASE job[v].op = "leave" /\ job[v].pc = "claim"
      <3> DEFINE c == job[v].call
                 u == job[v].user
      <3>1. c \in DOMAIN calls /\ u \in Users /\ seats[c][u] \in {"JOINED", "LEFT"}
        BY <2>1, <2>3 DEF Good, IInv, TypeOK, OnCall, SeatJob
      <3>2. seats'[c][u] \in {"JOINED", "LEFT"}
        BY <3>1 DEF Drift
      <3> QED BY <2>1, <2>3, <3>1, <3>2 DEF SeatJob
    <2> QED BY <2>1, <2>2, <2>3 DEF SeatJob
  <1>9. SeatJobs'
    BY <1>8 DEF SeatJobs
  <1>10. OneHolder'
    BY <1>1 DEF FreeFor, Good, SInv, OneHolder
  <1> QED BY <1>5, <1>7, <1>9, <1>10 DEF SInv

\* A step that writes neither calls nor seats.
LEMMA QuietSeats ==
    ASSUME Good, NEW w \in Workers, job' = [job EXCEPT ![w] = job'[w]],
           UNCHANGED table, job'[w].pc \notin {"joining", "seats"},
           job'[w].op = "accept" /\ job'[w].pc = "claim" => job'[w].user \in Users,
           job'[w].op = "leave" /\ job'[w].pc = "claim" =>
              /\ job'[w].user \in Users
              /\ seats[job'[w].call][job'[w].user] \in {"JOINED", "LEFT"}
    PROVE  SInv'
  <1>1. \A c \in DOMAIN calls : Moves(c) /\ \A u \in Users : Drift(w, c, u)
    BY DEF table, Moves, Drift
  <1>2. SeatJob(job[w])'
    BY DEF table, SeatJob
  <1> QED BY <1>1, <1>2, DriftStep DEF table

\* The next statement of a request, or its end.
LEMMA GoesOn ==
    ASSUME Good, NEW w \in Workers, UNCHANGED table,
           Finish(w) \/ \E pc : Goto(w, pc) /\ pc \notin {"joining", "claim", "seats"}
    PROVE  SInv'
  <1>1. job[w] \in Job
    BY DEF Good, IInv, TypeOK
  <1>2. job' = [job EXCEPT ![w] = job'[w]] /\ job'[w].pc \notin {"joining", "claim", "seats"}
    <2>1. CASE Finish(w)
      BY <2>1 DEF Finish, Good, IInv, TypeOK, Idle
    <2>2. ASSUME NEW pc, Goto(w, pc), pc \notin {"joining", "claim", "seats"}
          PROVE  job' = [job EXCEPT ![w] = job'[w]] /\ job'[w].pc = pc
      <3>1. job' = [job EXCEPT ![w] = [job[w] EXCEPT !.pc = pc]]
        BY <2>2 DEF Goto
      <3>2. job'[w] = [job[w] EXCEPT !.pc = pc]
        BY <3>1 DEF Good, IInv, TypeOK
      <3> QED BY ZenonT(30), <1>1, <3>1, <3>2 DEF Job
    <2> QED BY <2>1, <2>2
  <1> QED BY <1>2, QuietSeats

\* A conditional update that ends a call, or finds it ended.
LEMMA EndsCall ==
    ASSUME Good, NEW w \in Workers, NEW c \in DOMAIN calls, NEW from, NEW out, NEW sf, NEW pc,
           EndCall(w, c, from, out, sf, pc),
           from \subseteq {"RINGING", "ACTIVE"}, out \in Outcomes,
           out = "ENDED" \/ from = {"RINGING"}, pc \in {"seats", "room"},
           pc = "seats" => sf \in {"INVITED", "JOINED"}
    PROVE  SInv'
  <1>1. CASE calls[c].status \notin from
    BY <1>1, GoesOn DEF EndCall, table
  <1>2. CASE calls[c].status \in from
    <2> DEFINE j == [job[w] EXCEPT !.pc = pc, !.call = c, !.outcome = out, !.from = sf]
    <2>1. SetStatus(c, out) /\ seats' = seats /\ job' = [job EXCEPT ![w] = j]
      BY <1>2 DEF EndCall
    <2>2. j.pc = pc /\ j.from = sf
      BY DEF Good, IInv, TypeOK, Job
    <2> HIDE DEF j
    <2>3. job'[w] = j /\ job' = [job EXCEPT ![w] = job'[w]]
      BY <2>1 DEF Good, IInv, TypeOK
    <2>4. calls[c] \in CallRow /\ calls' = [calls EXCEPT ![c] = [calls[c] EXCEPT !.status = out]]
      BY <2>1 DEF SetStatus, Good, IInv, TypeOK
    <2>5. /\ DOMAIN calls' = DOMAIN calls
          /\ calls'[c].status = out /\ calls'[c].initiator = calls[c].initiator
          /\ \A d \in DOMAIN calls \ {c} : calls'[d] = calls[d]
      BY <2>4 DEF CallRow
    <2>6. \A d \in DOMAIN calls : Moves(d) /\ \A u \in Users : Drift(w, d, u)
      BY <1>2, <2>1, <2>5 DEF Moves, Drift, Outcomes, Lifecycle!Outcomes
    <2>7. SeatJob(job[w])' /\ job'[w].pc # "joining"
      BY <2>2, <2>3 DEF SeatJob
    <2> QED BY <2>3, <2>5, <2>6, <2>7, DriftStep
  <1> QED BY <1>1, <1>2

-----------------------------------------------------------------------------
(* The requests.                                                             *)

\* A new request knows what it has read.
LEMMA BeginSeats ==
    ASSUME Good, NEW w \in Workers, NEW j, Begin(w, j),
           j.pc \notin {"joining", "seats"},
           j.op = "accept" /\ j.pc = "claim" => j.user \in Users,
           j.op = "leave" /\ j.pc = "claim" =>
              j.user \in Users /\ seats[j.call][j.user] \in {"JOINED", "LEFT"}
    PROVE  SInv'
  <1>1. job' = [job EXCEPT ![w] = j] /\ UNCHANGED table
    BY DEF Begin
  <1>2. job'[w] = j /\ job' = [job EXCEPT ![w] = job'[w]]
    BY <1>1 DEF Good, IInv, TypeOK
  <1> QED BY <1>1, <1>2, QuietSeats

LEMMA RequestSeats ==
    ASSUME Good, NEW w \in Workers, Request(w)
    PROVE  SInv'
  <1>1. ASSUME NEW todo, NEW op \in {"sweep", "accept", "token"},
               Begin(w, [Idle EXCEPT !.op = op, !.pc = "expire", !.todo = todo])
        PROVE  SInv'
    BY <1>1, BeginSeats DEF Idle
  <1>2. CASE sweepExpiredRingingCalls(w) \/ createJoinToken(w)
    BY <1>1, <1>2 DEF sweepExpiredRingingCalls, createJoinToken
  <1>3. CASE startCall(w)
    <2>1. PICK u \in Users, sort \in Sorts, key \in Keys, S \in SUBSET Users :
             Begin(w, [Idle EXCEPT !.op = "create", !.pc = "expire", !.user = u,
                         !.sort = sort, !.invitees = S, !.key = key,
                         !.todo = expireStaleRingingCallsForUsers(S \cup {u})])
      BY <1>3 DEF startCall
    <2> QED BY <2>1, BeginSeats DEF Idle
  <1>4. CASE acceptCall(w)
    <2>1. PICK c \in DOMAIN calls, u \in Users :
             \/ Begin(w, [Idle EXCEPT !.op = "accept", !.pc = "expire", !.todo = {c}])
             \/ Begin(w, [Idle EXCEPT !.op = "accept", !.pc = "claim", !.user = u,
                                      !.call = c])
      BY <1>4 DEF acceptCall
    <2>2. CASE Begin(w, [Idle EXCEPT !.op = "accept", !.pc = "claim", !.user = u,
                                     !.call = c])
      BY <2>2, BeginSeats DEF Idle
    <2> QED BY <1>1, <2>1, <2>2
  <1>5. CASE rejectCall(w)
    <2>1. PICK c \in DOMAIN calls, u \in Users :
             Begin(w, [Idle EXCEPT !.op = "reject", !.pc = "claim", !.user = u,
                                   !.call = c, !.seen = calls[c].status])
      BY <1>5 DEF rejectCall
    <2> QED BY <2>1, BeginSeats DEF Idle
  <1>6. CASE leaveCall(w)
    <2>1. PICK c \in DOMAIN calls, u \in Users :
             /\ seats[c][u] = "JOINED"
             /\ Begin(w, [Idle EXCEPT !.op = "leave", !.pc = "claim", !.user = u,
                                      !.call = c, !.seen = calls[c].status])
      BY <1>6 DEF leaveCall
    <2> QED BY <2>1, BeginSeats DEF Idle
  <1>7. CASE cancelCall(w)
    <2>1. PICK c \in DOMAIN calls :
             Begin(w, [Idle EXCEPT !.op = "cancel", !.pc = "claim", !.call = c,
                                   !.user = calls[c].initiator])
      BY <1>7 DEF cancelCall
    <2> QED BY <2>1, BeginSeats DEF Idle
  <1>8. CASE handleLiveKitWebhook(w)
    <2>1. PICK c \in DOMAIN calls \ rooms :
             Begin(w, [Idle EXCEPT !.op = "webhook", !.pc = "claim", !.call = c])
      BY <1>8 DEF handleLiveKitWebhook
    <2> QED BY <2>1, BeginSeats DEF Idle
  <1> QED BY <1>2, <1>3, <1>4, <1>5, <1>6, <1>7, <1>8 DEF Request

-----------------------------------------------------------------------------
(* The steps that end a call.                                                *)

LEMMA ExpireSeats ==
    ASSUME Good, NEW w \in Workers, expireRingingCallAsMissed(w)
    PROVE  SInv'
  <1>1. PICK c \in job[w].todo :
           \/ /\ calls[c].status = "RINGING" /\ SetStatus(c, "MISSED")
              /\ job' = [job EXCEPT ![w].pc = "seats", ![w].call = c,
                                    ![w].todo = @ \ {c},
                                    ![w].outcome = "MISSED", ![w].from = "INVITED"]
           \/ UNCHANGED calls /\ job' = [job EXCEPT ![w].todo = @ \ {c}]
    BY DEF expireRingingCallAsMissed
  <1>2. /\ c \in DOMAIN calls /\ job[w] \in Job /\ job[w].pc = "expire"
        /\ calls[c] \in CallRow /\ UNCHANGED seats
    BY DEF Good, IInv, TypeOK, expireRingingCallAsMissed
  <1>3. CASE UNCHANGED calls /\ job' = [job EXCEPT ![w].todo = @ \ {c}]
    <2> DEFINE j == [job[w] EXCEPT !.todo = @ \ {c}]
    <2>1. job' = [job EXCEPT ![w] = j] /\ j.pc = "expire"
      BY <1>2, <1>3
    <2> HIDE DEF j
    <2>2. job'[w] = j /\ job' = [job EXCEPT ![w] = job'[w]]
      BY <2>1 DEF Good, IInv, TypeOK
    <2> QED BY <1>2, <1>3, <2>1, <2>2, QuietSeats DEF table
  <1>4. CASE /\ calls[c].status = "RINGING" /\ SetStatus(c, "MISSED")
             /\ job' = [job EXCEPT ![w].pc = "seats", ![w].call = c,
                                   ![w].todo = @ \ {c},
                                   ![w].outcome = "MISSED", ![w].from = "INVITED"]
    <2> DEFINE j == [job[w] EXCEPT !.pc = "seats", !.call = c, !.todo = @ \ {c},
                                   !.outcome = "MISSED", !.from = "INVITED"]
    <2>1. job' = [job EXCEPT ![w] = j] /\ j.pc = "seats" /\ j.from = "INVITED"
      BY <1>2, <1>4 DEF Job
    <2> HIDE DEF j
    <2>2. job'[w] = j /\ job' = [job EXCEPT ![w] = job'[w]]
      BY <2>1 DEF Good, IInv, TypeOK
    <2>3. calls' = [calls EXCEPT ![c] = [calls[c] EXCEPT !.status = "MISSED"]]
      BY <1>4 DEF SetStatus
    <2>4. /\ DOMAIN calls' = DOMAIN calls
          /\ calls'[c].status = "MISSED" /\ calls'[c].initiator = calls[c].initiator
          /\ \A d \in DOMAIN calls \ {c} : calls'[d] = calls[d]
      BY <1>2, <2>3 DEF CallRow, Good, IInv, TypeOK
    <2>5. \A d \in DOMAIN calls : Moves(d) /\ \A u \in Users : Drift(w, d, u)
      BY <1>2, <1>4, <2>4 DEF Moves, Drift
    <2>6. SeatJob(job[w])'
      BY <2>1, <2>2 DEF SeatJob
    <2> QED BY <2>1, <2>2, <2>4, <2>5, <2>6, DriftStep
  <1> QED BY <1>1, <1>3, <1>4

\* The updates that end a call, conditional on its status.
LEMMA EndingSeats ==
    ASSUME Good, NEW w \in Workers,
           \/ endSingleCallOnFirstLeave(w) \/ endAllLeft(w) \/ cancelRinging(w)
           \/ endLiveKitFinishedCall(w) \/ mintToken(w)
    PROVE  SInv'
  <1>1. job[w].call \in DOMAIN calls
    BY DEF endSingleCallOnFirstLeave, endAllLeft, cancelRinging, endLiveKitFinishedCall,
           mintToken, At, Good, IInv, TypeOK, OnCall
  <1>2. {"ENDED", "CANCELED", "FAILED"} \subseteq Outcomes
    BY DEF Outcomes, Lifecycle!Outcomes
  <1>3. \/ EndCall(w, job[w].call, {"ACTIVE"}, "ENDED", "JOINED", "seats")
        \/ EndCall(w, job[w].call, {"RINGING", "ACTIVE"}, "ENDED", None, "room")
        \/ EndCall(w, job[w].call, {"RINGING"}, "CANCELED", "INVITED", "seats")
        \/ EndCall(w, job[w].call, {"RINGING", "ACTIVE"}, "ENDED", "JOINED", "seats")
        \/ EndCall(w, job[w].call, {"RINGING"}, "FAILED", None, "room")
        \/ Finish(w) /\ Silent
    BY DEF endSingleCallOnFirstLeave, endAllLeft, cancelRinging, endLiveKitFinishedCall,
           mintToken
  <1>4. CASE Finish(w) /\ Silent
    BY <1>4, GoesOn DEF Silent
  <1> HIDE DEF Good
  <1> QED BY <1>1, <1>2, <1>3, <1>4, EndsCall

-----------------------------------------------------------------------------
(* The steps that write seats.                                               *)

\* One seat moves on, and no call changes.
LEMMA SeatWritten ==
    ASSUME Good, NEW w \in Workers, NEW c \in DOMAIN calls, NEW u, NEW s,
           seats' = [seats EXCEPT ![c][u] = s], UNCHANGED calls,
           u \in Users => \/ seats[c][u] = "JOINED" /\ s = "LEFT"
                          \/ seats[c][u] = "LEFT" /\ s = "LEFT"
                          \/ /\ seats[c][u] = "INVITED" /\ FreeFor(w, c, u)
                             /\ \/ s \in {"REJECTED", "MISSED"}
                                \/ s = "JOINED" /\ calls[c].status \in {"ACTIVE", "ENDED"},
           job' = [job EXCEPT ![w] = job'[w]],
           job'[w].pc \notin {"joining", "claim", "seats"}
    PROVE  SInv'
  <1>1. seats \in [DOMAIN calls -> [Users -> SeatStatus]]
    BY DEF Good, IInv, TypeOK
  <1>2. ASSUME NEW d \in DOMAIN calls, NEW v \in Users PROVE Drift(w, d, v)
    <2>1. CASE d = c /\ v = u
      <3>1. seats'[c][u] = s
        BY <1>1, <2>1
      <3> QED BY <2>1, <3>1 DEF Drift
    <2>2. CASE d # c \/ v # u
      <3>1. seats'[d][v] = seats[d][v]
        BY <1>1, <2>2
      <3> QED BY <3>1 DEF Drift
    <2> QED BY <2>1, <2>2
  <1>3. \A d \in DOMAIN calls : Moves(d)
    BY DEF Moves
  <1>4. SeatJob(job[w])'
    BY DEF SeatJob
  <1> QED BY <1>2, <1>3, <1>4, DriftStep

\* The job after the last statement of a request, or before the next one.
LEMMA JobGoesOn ==
    ASSUME Good, NEW w \in Workers, NEW pc, Finish(w) \/ Goto(w, pc)
    PROVE  /\ job' = [job EXCEPT ![w] = job'[w]]
           /\ job'[w] = Idle \/ job'[w] = [job[w] EXCEPT !.pc = pc]
           /\ job'[w].pc \in {"idle", pc}
  <1>1. job[w] \in Job /\ job \in [Workers -> Job]
    BY DEF Good, IInv, TypeOK
  <1>2. CASE Finish(w)
    BY <1>1, <1>2 DEF Finish, Idle
  <1>3. CASE Goto(w, pc)
    <2> DEFINE j == [job[w] EXCEPT !.pc = pc]
    <2>1. job' = [job EXCEPT ![w] = j] /\ j.pc = pc
      BY <1>1, <1>3 DEF Goto, Job
    <2> HIDE DEF j
    <2>2. job'[w] = j
      BY <1>1, <2>1
    <2> QED BY <2>1, <2>2 DEF j
  <1> QED BY <1>2, <1>3

LEMMA HeldFree ==
    ASSUME NEW w \in Workers, NEW c, NEW u, ~Held(c, u)
    PROVE  FreeFor(w, c, u)
  BY DEF Held, FreeFor

LEMMA joinInvitedSeats ==
    ASSUME Good, NEW w \in Workers, joinInvitedCall(w)
    PROVE  SInv'
  <1> DEFINE c == job[w].call
             u == job[w].user
  <1>1. /\ c \in DOMAIN calls /\ u \in Users /\ FreeFor(w, c, u)
        /\ seats \in [DOMAIN calls -> [Users -> SeatStatus]]
        /\ calls[c] \in CallRow /\ job[w] \in Job
    BY HeldFree DEF joinInvitedCall, At, Good, IInv, TypeOK, OnCall, SInv, SeatJobs, SeatJob
  <1>2. Live(c) => calls[c].status \in {"RINGING", "ACTIVE"}
    BY <1>1 DEF Live, status, Good, IInv, TypeOK
  <1>3. \/ Finish(w) /\ UNCHANGED table
        \/ /\ seats[c][u] = "INVITED" /\ calls[c].status = "ACTIVE"
           /\ Goto(w, "joining") /\ UNCHANGED table
        \/ /\ seats[c][u] = "INVITED" /\ calls[c].status = "RINGING"
           /\ seats' = [seats EXCEPT ![c][u] = "JOINED"]
           /\ SetStatus(c, "ACTIVE") /\ Finish(w)
    BY <1>2 DEF joinInvitedCall
  <1> HIDE DEF c, u
  <1>4. CASE Finish(w) /\ UNCHANGED table
    BY <1>4, GoesOn
  <1>5. CASE /\ seats[c][u] = "INVITED" /\ calls[c].status = "ACTIVE"
             /\ Goto(w, "joining") /\ UNCHANGED table
    <2>1. job' = [job EXCEPT ![w] = [job[w] EXCEPT !.pc = "joining"]]
      BY <1>5 DEF Goto
    <2>2. /\ job'[w] = [job[w] EXCEPT !.pc = "joining"]
          /\ job' = [job EXCEPT ![w] = job'[w]]
      BY <2>1 DEF Good, IInv, TypeOK
    <2>3. job'[w].pc = "joining" /\ job'[w].call = c /\ job'[w].user = u
      BY <1>1, <2>2 DEF Job, c, u
    <2>4. \A d \in DOMAIN calls : Moves(d) /\ \A v \in Users : Drift(w, d, v)
      BY <1>5 DEF table, Moves, Drift
    <2>5. SeatJob(job[w])'
      BY <1>1, <1>5, <2>3 DEF SeatJob, table
    <2> QED BY <1>1, <1>5, <2>2, <2>3, <2>4, <2>5, DriftStep DEF table
  <1>6. CASE /\ seats[c][u] = "INVITED" /\ calls[c].status = "RINGING"
             /\ seats' = [seats EXCEPT ![c][u] = "JOINED"]
             /\ SetStatus(c, "ACTIVE") /\ Finish(w)
    <2>1. calls' = [calls EXCEPT ![c] = [calls[c] EXCEPT !.status = "ACTIVE"]]
      BY <1>6 DEF SetStatus
    <2>2. /\ DOMAIN calls' = DOMAIN calls
          /\ calls'[c].status = "ACTIVE" /\ calls'[c].initiator = calls[c].initiator
          /\ \A d \in DOMAIN calls \ {c} : calls'[d] = calls[d]
      BY <1>1, <2>1 DEF CallRow
    <2>3. /\ seats'[c][u] = "JOINED"
          /\ \A d \in DOMAIN calls, v \in Users :
                (d = c /\ v = u) \/ seats'[d][v] = seats[d][v]
      BY <1>1, <1>6
    <2>4. \A d \in DOMAIN calls : Moves(d)
      BY <1>1, <1>6, <2>2, <2>3 DEF Moves
    <2>5. \A d \in DOMAIN calls : \A v \in Users : Drift(w, d, v)
      BY <1>1, <1>6, <2>2, <2>3 DEF Drift
    <2>6. job' = [job EXCEPT ![w] = job'[w]] /\ job'[w].pc = "idle" /\ job'[w].op = "none"
      BY <1>6 DEF Finish, Idle, Good, IInv, TypeOK
    <2>7. SeatJob(job[w])'
      BY <2>6 DEF SeatJob
    <2> QED BY <2>2, <2>4, <2>5, <2>6, <2>7, DriftStep
  <1> QED BY <1>3, <1>4, <1>5, <1>6

LEMMA joinCommitsSeats ==
    ASSUME Good, NEW w \in Workers, joinCommits(w)
    PROVE  SInv'
  <1> DEFINE c == job[w].call
             u == job[w].user
  <1>1. /\ c \in DOMAIN calls /\ job[w].pc = "joining"
        /\ seats[c][u] = "INVITED" /\ calls[c].status \in {"ACTIVE", "ENDED"}
    BY DEF joinCommits, At, Good, IInv, TypeOK, OnCall, SInv, SeatJobs, SeatJob
  <1>2. FreeFor(w, c, u)
    BY <1>1 DEF FreeFor, Good, SInv, OneHolder
  <1>3. Finish(w) /\ seats' = [seats EXCEPT ![c][u] = "JOINED"] /\ UNCHANGED calls
    BY DEF joinCommits
  <1>4. job' = [job EXCEPT ![w] = job'[w]] /\ job'[w].pc = "idle"
    BY <1>3 DEF Finish, Idle, Good, IInv, TypeOK
  <1> HIDE DEF c, u
  <1> QED BY <1>1, <1>2, <1>3, <1>4, SeatWritten

LEMMA rejectSeatSeats ==
    ASSUME Good, NEW w \in Workers, rejectSeat(w)
    PROVE  SInv'
  <1> DEFINE c == job[w].call
             u == job[w].user
  <1>1. /\ c \in DOMAIN calls /\ FreeFor(w, c, u) /\ UNCHANGED calls
    BY HeldFree DEF rejectSeat, At, Good, IInv, TypeOK, OnCall
  <1>2. CASE seats[c][u] = "INVITED"
    <2>1. Goto(w, "count") /\ seats' = [seats EXCEPT ![c][u] = "REJECTED"]
      BY <1>2 DEF rejectSeat
    <2>2. job' = [job EXCEPT ![w] = job'[w]] /\ job'[w].pc \in {"idle", "count"}
      BY <2>1, JobGoesOn
    <2> HIDE DEF c, u
    <2> QED BY <1>1, <1>2, <2>1, <2>2, SeatWritten
  <1>3. CASE seats[c][u] # "INVITED"
    BY <1>1, <1>3, GoesOn DEF rejectSeat, table
  <1> QED BY <1>2, <1>3

LEMMA leaveSeatSeats ==
    ASSUME Good, NEW w \in Workers, leaveSeat(w)
    PROVE  SInv'
  <1> DEFINE c == job[w].call
             u == job[w].user
  <1>1. /\ c \in DOMAIN calls /\ seats[c][u] \in {"JOINED", "LEFT"}
    BY DEF leaveSeat, At, Good, IInv, TypeOK, OnCall, SInv, SeatJobs, SeatJob
  <1>2. /\ seats' = [seats EXCEPT ![c][u] = "LEFT"] /\ UNCHANGED calls
        /\ Goto(w, "endSingle") \/ Goto(w, "count")
    BY DEF leaveSeat
  <1>3. job' = [job EXCEPT ![w] = job'[w]] /\ job'[w].pc \in {"idle", "endSingle", "count"}
    BY <1>2, JobGoesOn
  <1> HIDE DEF c, u
  <1> QED BY <1>1, <1>2, <1>3, SeatWritten

LEMMA closeSeatsSeats ==
    ASSUME Good, NEW w \in Workers, closeSeats(w)
    PROVE  SInv'
  <1> DEFINE c == job[w].call
             new == [u \in Users |-> IF seats[c][u] # job[w].from THEN seats[c][u]
                                     ELSE IF job[w].from = "INVITED" THEN "MISSED"
                                     ELSE "LEFT"]
  <1>1. /\ c \in DOMAIN calls /\ job[w].from \in {"INVITED", "JOINED"}
        /\ seats \in [DOMAIN calls -> [Users -> SeatStatus]]
    BY DEF closeSeats, Good, IInv, TypeOK, OnCall, SInv, SeatJobs, SeatJob
  <1>2. \A u \in Users : seats[c][u] = job[w].from => FreeFor(w, c, u)
    BY HeldFree DEF closeSeats, Sitting
  <1>3. seats' = [seats EXCEPT ![c] = new] /\ UNCHANGED calls /\ Goto(w, "room")
    BY DEF closeSeats
  <1> HIDE DEF c
  <1>4. /\ seats'[c] = new
        /\ \A d \in DOMAIN calls \ {c} : seats'[d] = seats[d]
    <2> HIDE DEF new
    <2> QED BY <1>1, <1>3
  <1>5. \A d \in DOMAIN calls : Moves(d) /\ \A u \in Users : Drift(w, d, u)
    BY <1>1, <1>2, <1>3, <1>4 DEF Moves, Drift
  <1>6. job' = [job EXCEPT ![w] = job'[w]] /\ job'[w].pc \in {"idle", "room"}
    BY <1>3, JobGoesOn
  <1>7. SeatJob(job[w])'
    BY <1>6 DEF SeatJob
  <1> QED BY <1>3, <1>5, <1>6, <1>7, DriftStep

-----------------------------------------------------------------------------
(* Creating a call.                                                          *)

\* Its participants are looked at again in the transaction that adds it.
LEMMA CreatedSeats ==
    ASSUME Good, NEW w \in Workers, createCallSession(w)
    PROVE  SInv'
  <1>0. PICK c : c = job[w].call
    OBVIOUS
  <1> DEFINE i == job[w].user
             S == Parties(w)
             new == NewSeats(w)
             row == NewCall(w)
  <1>1. /\ c \in CallIds \ DOMAIN calls /\ i \in Users /\ S \subseteq Users
        /\ job[w] \in Job /\ DOMAIN calls \subseteq CallIds
        /\ DOMAIN seats = DOMAIN calls
    BY <1>0 DEF createCallSession, At, Good, IInv, TypeOK, JobsOK, JobOK, Fresh, Parties, Job
  <1>2. /\ row.initiator = i /\ row.status = "RINGING" /\ new[i] = "JOINED"
        /\ \A u \in Users : /\ new[u] \in {"INVITED", "JOINED"} => u \in S
                            /\ new[u] \in {"JOINED", "LEFT"} => u = i
    BY <1>1 DEF NewCall, NewSeats, Parties
  <1>3. /\ calls' = [d \in DOMAIN calls \cup {c} |-> IF d = c THEN row ELSE calls[d]]
        /\ seats' = [d \in DOMAIN seats \cup {c} |-> IF d = c THEN new ELSE seats[d]]
        /\ Goto(w, "mint") /\ assertNotBusy(S)
    BY <1>0 DEF createCallSession, AddCall
  <1>4. /\ job' = [job EXCEPT ![w] = job'[w]]
        /\ job'[w].pc \in {"idle", "mint"}
    BY <1>3, JobGoesOn
  <1> HIDE DEF i, S, new, row
  <1>5. /\ DOMAIN calls' = DOMAIN calls \cup {c}
        /\ calls'[c] = row /\ seats'[c] = new
        /\ \A d \in DOMAIN calls : calls'[d] = calls[d] /\ seats'[d] = seats[d]
    BY <1>1, <1>3
  <1>6. \A v \in Workers \ {w} : job'[v] = job[v]
    BY <1>4 DEF Good, IInv, TypeOK
  <1>7. \A d \in DOMAIN calls : Live(d)' = Live(d) /\ \A u \in Users : InCall(d, u)' = InCall(d, u)
    BY <1>1, <1>5 DEF Live, status, InCall
  <1>8. \A u \in Users : InCall(c, u)' => u \in S
    BY <1>2, <1>5 DEF InCall
  <1>9. NoDoubleBooking'
    <2> SUFFICES ASSUME NEW c1 \in DOMAIN calls', NEW c2 \in DOMAIN calls', NEW u \in Users,
                        Live(c1)', Live(c2)', InCall(c1, u)', InCall(c2, u)', c1 # c2
                 PROVE  FALSE
      BY DEF NoDoubleBooking
    <2>1. CASE c1 = c
      BY <1>3, <1>5, <1>7, <1>8, <2>1 DEF assertNotBusy
    <2>2. CASE c2 = c
      BY <1>3, <1>5, <1>7, <1>8, <2>2 DEF assertNotBusy
    <2>3. CASE c1 # c /\ c2 # c
      BY <1>5, <1>7, <2>3 DEF Good, SInv, NoDoubleBooking
    <2> QED BY <2>1, <2>2, <2>3
  <1>10. Answers'
    <2>1. ASSUME NEW d \in DOMAIN calls PROVE Answered(d)' = Answered(d)
      BY <1>5 DEF Answered
    <2>2. Answered(c)' = {}
      BY <1>2, <1>5 DEF Answered
    <2>3. seats'[c][calls'[c].initiator] = "JOINED" /\ calls'[c].status = "RINGING"
      BY <1>2, <1>5
    <2>4. \A d \in DOMAIN calls' :
             /\ seats'[d][calls'[d].initiator] \in {"JOINED", "LEFT"}
             /\ calls'[d].status \in {"RINGING", "MISSED", "CANCELED", "FAILED"} =>
                   Answered(d)' = {}
             /\ calls'[d].status = "ACTIVE" => Answered(d)' # {}
      BY <1>5, <2>1, <2>2, <2>3 DEF Good, SInv, Answers
    <2> QED BY <2>4 DEF Answers
  <1>11. SeatJobs'
    <2>1. SeatJob(job[w])'
      BY <1>4 DEF SeatJob
    <2>2. ASSUME NEW v \in Workers \ {w} PROVE SeatJob(job[v])'
      <3>1. /\ job'[v] = job[v] /\ SeatJob(job[v])
            /\ job[v].pc \in {"claim", "joining"} => job[v].call \in DOMAIN calls
        BY <1>6 DEF Good, SInv, SeatJobs, IInv, TypeOK, OnCall
      <3> QED BY <1>5, <3>1 DEF SeatJob
    <2> QED BY <2>1, <2>2 DEF SeatJobs
  <1>12. OneHolder'
    BY <1>4, <1>6 DEF Good, SInv, OneHolder
  <1> QED BY <1>9, <1>10, <1>11, <1>12 DEF SInv

\* The other steps of a creation.
LEMMA CreatingSeats ==
    ASSUME Good, NEW w \in Workers, createRoom(w) \/ lockParticipantsForCall(w)
    PROVE  SInv'
  <1>1. job[w] \in Job /\ job \in [Workers -> Job] /\ UNCHANGED table
    BY DEF Good, IInv, TypeOK, createRoom, lockParticipantsForCall, Silent
  <1>2. CASE Finish(w)
    BY <1>1, <1>2, GoesOn
  <1>3. ASSUME NEW c, NEW pc \in {"begin", "drop"},
               job' = [job EXCEPT ![w].pc = pc, ![w].call = c]
        PROVE  SInv'
    <2> DEFINE j == [job[w] EXCEPT !.pc = pc, !.call = c]
    <2>1. job' = [job EXCEPT ![w] = j] /\ j.pc \in {"begin", "drop"}
      BY <1>1, <1>3 DEF Job
    <2> HIDE DEF j
    <2>2. job'[w] = j /\ job' = [job EXCEPT ![w] = job'[w]]
      BY <1>1, <2>1
    <2> QED BY <1>1, <2>1, <2>2, QuietSeats
  <1>4. ASSUME NEW b, job' = [job EXCEPT ![w].pc = "insert", ![w].allowed = b]
        PROVE  SInv'
    <2> DEFINE j == [job[w] EXCEPT !.pc = "insert", !.allowed = b]
    <2>1. job' = [job EXCEPT ![w] = j] /\ j.pc = "insert"
      BY <1>1, <1>4 DEF Job
    <2> HIDE DEF j
    <2>2. job'[w] = j /\ job' = [job EXCEPT ![w] = job'[w]]
      BY <1>1, <2>1
    <2> QED BY <1>1, <2>1, <2>2, QuietSeats
  <1> HIDE DEF Good
  <1> QED BY <1>2, <1>3, <1>4 DEF createRoom, lockParticipantsForCall

\* The steps of a request that write neither calls nor seats.
LEMMA MovingSeats ==
    ASSUME Good, NEW w \in Workers,
           \/ AllExpired(w) \/ createRefused(w) \/ dropRoom(w) \/ leaveCount(w)
           \/ deleteRoom(w) \/ Crash(w) \/ emitCallRecordMessage(w)
           \/ endRingingCallIfNoInviteesRemain(w)
    PROVE  SInv'
  <1>1. job[w] \in Job /\ job \in [Workers -> Job] /\ UNCHANGED table
    BY DEF Good, IInv, TypeOK, AllExpired, createRefused, dropRoom, leaveCount,
           deleteRoom, Crash, emitCallRecordMessage, endRingingCallIfNoInviteesRemain, Silent
  <1>2. ASSUME Finish(w) \/ \E pc \in {"check", "drop", "endAll", "record"} : Goto(w, pc)
        PROVE  SInv'
    BY <1>1, <1>2, GoesOn
  <1>3. ASSUME job' = [job EXCEPT ![w].pc = "expire", ![w].call = None]
        PROVE  SInv'
    <2> DEFINE j == [job[w] EXCEPT !.pc = "expire", !.call = None]
    <2>1. job' = [job EXCEPT ![w] = j] /\ j.pc = "expire"
      BY <1>1, <1>3 DEF Job
    <2> HIDE DEF j
    <2>2. job'[w] = j /\ job' = [job EXCEPT ![w] = job'[w]]
      BY <1>1, <2>1
    <2> QED BY <1>1, <2>1, <2>2, QuietSeats
  <1>4. ASSUME NEW todo, job' = [job EXCEPT ![w].pc = "expire", ![w].todo = todo]
        PROVE  SInv'
    <2> DEFINE j == [job[w] EXCEPT !.pc = "expire", !.todo = todo]
    <2>1. job' = [job EXCEPT ![w] = j] /\ j.pc = "expire"
      BY <1>1, <1>4 DEF Job
    <2> HIDE DEF j
    <2>2. job'[w] = j /\ job' = [job EXCEPT ![w] = job'[w]]
      BY <1>1, <2>1
    <2> QED BY <1>1, <2>1, <2>2, QuietSeats
  <1> HIDE DEF Good
  <1> QED BY <1>2, <1>3, <1>4 DEF AllExpired, createRefused, dropRoom, leaveCount,
            deleteRoom, Crash, emitCallRecordMessage, endRingingCallIfNoInviteesRemain

-----------------------------------------------------------------------------
(* The invariant holds.                                                      *)

LEMMA InitSeats == ASSUME Init PROVE SInv
  <1>1. DOMAIN calls = {} /\ \A w \in Workers : job[w] = Idle
    BY DEF Init
  <1>2. Idle.pc = "idle"
    BY DEF Idle
  <1> HIDE DEF Idle
  <1> QED BY <1>1, <1>2 DEF SInv, NoDoubleBooking, Answers, SeatJobs, SeatJob, OneHolder

LEMMA NextSeats == ASSUME Good, [Next]_vars PROVE SInv'
  <1>1. ASSUME NEW w \in Workers, Request(w) \/ Step(w) \/ Crash(w) PROVE SInv'
    <2> HIDE DEF Good
    <2> QED BY <1>1, RequestSeats, ExpireSeats, EndingSeats, joinInvitedSeats,
               joinCommitsSeats, rejectSeatSeats, leaveSeatSeats, closeSeatsSeats,
               CreatedSeats, CreatingSeats, MovingSeats DEF Step
  <1>2. CASE UNCHANGED <<table, job>>
    BY <1>2 DEF table, Good, SInv, NoDoubleBooking, Live, status, InCall, Answers, Answered,
                SeatJobs, SeatJob, OneHolder
  <1> HIDE DEF Good
  <1> QED BY <1>1, <1>2 DEF Next, RingTimeout, LiveKitClosesRoom, ToggleBarred, vars, table

THEOREM SeatInvariant == Spec => []Good
  <1>1. Init => Good
    BY InitIInv, InitSeats DEF Good
  <1>2. Good /\ [Next]_vars => Good'
    BY NextIInv, NextSeats DEF Good
  <1> QED BY <1>1, <1>2, PTL DEF Spec

\* For any number of users, calls and concurrent requests, and although what a
\* creation checks before it makes the room may be stale when it commits:
\* nobody takes part in two calls that ring or run.
THEOREM NobodyDoubleBooked == Spec => []NoDoubleBooking
  <1>1. Good => NoDoubleBooking
    BY DEF Good, SInv
  <1> QED BY <1>1, SeatInvariant, PTL

\* However acceptances, refusals, hang-ups, the sweeper and the media server
\* race: a call that was missed, canceled or failed has nobody who accepted
\* it, and one that runs has somebody who did.
THEOREM OutcomesMatch == Spec => []OutcomeMatchesSeats
  <1>1. Good => OutcomeMatchesSeats
    BY DEF Good, SInv, Answers, Answered, OutcomeMatchesSeats
  <1> QED BY <1>1, SeatInvariant, PTL

-----------------------------------------------------------------------------
(* Blocks and acceptances.                                                   *)

\* Only an acceptance makes a call run.
LEMMA StatusWritten ==
    ASSUME Good, NEW c \in DOMAIN calls, NEW to, SetStatus(c, to), to # "ACTIVE"
    PROVE  LetsInFriends
  <1>1. calls[c] \in CallRow /\ calls' = [calls EXCEPT ![c] = [calls[c] EXCEPT !.status = to]]
    BY DEF Good, IInv, TypeOK, SetStatus
  <1>2. calls'[c].status = to /\ \A d \in DOMAIN calls \ {c} : calls'[d] = calls[d]
    BY <1>1 DEF CallRow
  <1> QED BY <1>2 DEF LetsInFriends

LEMMA EndingLetsNobodyIn ==
    ASSUME Good, NEW c \in DOMAIN calls, NEW from, NEW out \in {"ENDED", "CANCELED", "FAILED"},
           NEW sf, NEW pc, NEW w, EndCall(w, c, from, out, sf, pc)
    PROVE  LetsInFriends \/ UNCHANGED calls
  BY StatusWritten DEF EndCall

LEMMA StepHonoursBlock ==
    ASSUME Good, NEW w \in Workers, Step(w)
    PROVE  LetsInFriends \/ UNCHANGED calls
  <1>1. /\ OnCall(job[w]) => job[w].call \in DOMAIN calls
        /\ job[w].todo \subseteq DOMAIN calls /\ DOMAIN calls \subseteq CallIds
    BY DEF Good, IInv, TypeOK
  <1>2. CASE joinInvitedCall(w)
    <2> DEFINE c == job[w].call
    <2>1. c \in DOMAIN calls /\ Live(c) = (calls[c].status \in {"RINGING", "ACTIVE"})
      BY <1>1, <1>2 DEF joinInvitedCall, At, OnCall, Live, status
    <2>2. \/ UNCHANGED calls
          \/ /\ SetStatus(c, "ACTIVE")
             /\ calls[c].sort = "SINGLE" => assertCurrentCallAccess(c)
      BY <1>2, <2>1 DEF joinInvitedCall, table
    <2>3. ASSUME SetStatus(c, "ACTIVE"),
                 calls[c].sort = "SINGLE" => assertCurrentCallAccess(c)
          PROVE  LetsInFriends
      <3>1. \A d \in DOMAIN calls \ {c} : calls'[d] = calls[d]
        BY <2>3 DEF SetStatus, Good, IInv, TypeOK
      <3>2. calls[c].sort = "SINGLE" => {u \in Users : seats[c][u] # "none"} \notin barred
        BY <2>3 DEF assertCurrentCallAccess, assertDirectCallee
      <3> QED BY <3>1, <3>2 DEF LetsInFriends
    <2> QED BY <2>2, <2>3
  <1>3. CASE createCallSession(w)
    <2>1. job[w].call \notin DOMAIN calls
      BY <1>3 DEF createCallSession, At, Good, IInv, JobsOK, JobOK, Fresh
    <2>2. \A d \in DOMAIN calls : calls'[d] = calls[d]
      BY <1>3, <2>1 DEF createCallSession, AddCall
    <2> QED BY <2>2 DEF LetsInFriends
  <1>4. CASE expireRingingCallAsMissed(w)
    <2>1. UNCHANGED calls \/ \E c \in DOMAIN calls : SetStatus(c, "MISSED")
      BY <1>1, <1>4 DEF expireRingingCallAsMissed
    <2> QED BY <2>1, StatusWritten
  <1>5. CASE mintToken(w) \/ endSingleCallOnFirstLeave(w) \/ endAllLeft(w)
             \/ cancelRinging(w) \/ endLiveKitFinishedCall(w)
    <2>1. job[w].call \in DOMAIN calls
      BY <1>1, <1>5 DEF endSingleCallOnFirstLeave, endAllLeft, cancelRinging,
                        endLiveKitFinishedCall, mintToken, At, OnCall
    <2> HIDE DEF Good
    <2> QED BY <1>5, <2>1, EndingLetsNobodyIn
            DEF endSingleCallOnFirstLeave, endAllLeft, cancelRinging,
                endLiveKitFinishedCall, mintToken, Silent, table
  <1>6. CASE \/ AllExpired(w) \/ createRoom(w) \/ lockParticipantsForCall(w)
             \/ createRefused(w) \/ dropRoom(w) \/ joinCommits(w) \/ rejectSeat(w)
             \/ endRingingCallIfNoInviteesRemain(w) \/ leaveSeat(w) \/ leaveCount(w)
             \/ closeSeats(w) \/ deleteRoom(w) \/ emitCallRecordMessage(w)
    BY <1>6 DEF AllExpired, createRoom, lockParticipantsForCall, createRefused, dropRoom,
                joinCommits, rejectSeat, endRingingCallIfNoInviteesRemain, leaveSeat,
                leaveCount, closeSeats, deleteRoom, emitCallRecordMessage, Silent, table
  <1> QED BY <1>2, <1>3, <1>4, <1>5, <1>6 DEF Step

\* A single call is never answered between two users of whom one has blocked
\* the other by then, however long before its acceptance was asked for.
THEOREM AcceptsHonourBlock == Spec => AcceptHonoursBlock
  <1>1. ASSUME Good, [Next]_vars PROVE [LetsInFriends]_calls
    <2>1. ASSUME NEW w \in Workers, Request(w) \/ Crash(w) PROVE UNCHANGED calls
      BY <2>1 DEF Request, Crash, Silent, table, Begin, sweepExpiredRingingCalls, startCall,
                  acceptCall, createJoinToken, rejectCall, leaveCall, cancelCall,
                  handleLiveKitWebhook
    <2> HIDE DEF Good
    <2> QED BY <1>1, <2>1, StepHonoursBlock
            DEF Next, RingTimeout, LiveKitClosesRoom, ToggleBarred, vars, table
  <1>2. Good /\ [Next]_vars => [LetsInFriends]_calls
    BY <1>1
  <1> QED BY <1>2, SeatInvariant, PTL DEF Spec, AcceptHonoursBlock

-----------------------------------------------------------------------------
(* Rooms.                                                                    *)

\* A step of one request, after which its call lives or it sees to the room.
LEMMA RoomStep ==
    ASSUME Good, RoomsKept, NEW w \in Workers, job' = [job EXCEPT ![w] = job'[w]],
           \A c \in CallIds : Live(c) =>
              Live(c)' \/ (job'[w].call = c /\ SeesToRoom(job'[w])),
           \A c \in Owed' :
              c \in Owed \/ (job'[w].call = c /\ SeesToRoom(job'[w])),
           SeesToRoom(job[w]) =>
              \/ job[w].call \notin Owed'
              \/ \A c \in CallIds : c = job[w].call => Live(c)'
              \/ job'[w].call = job[w].call /\ SeesToRoom(job'[w])
    PROVE  RoomsKept'
  <1>1. \A v \in Workers \ {w} : job'[v] = job[v]
    BY DEF Good, IInv, TypeOK
  <1> SUFFICES ASSUME NEW c \in Owed',
                      ~(job'[w].call = c /\ SeesToRoom(job'[w]))
               PROVE  Live(c)' \/ \E v \in Workers : job'[v].call = c /\ SeesToRoom(job'[v])
    BY DEF RoomsKept, SeesToRoom
  <1>2. c \in Owed /\ c \in CallIds
    BY DEF Good, IInv, TypeOK, Owed
  <1>3. CASE Live(c)
    BY <1>2, <1>3
  <1>4. CASE ~Live(c)
    <2>1. PICK v \in Workers : job[v].call = c /\ SeesToRoom(job[v])
      BY <1>2, <1>4 DEF RoomsKept
    <2>2. CASE v = w
      BY <1>2, <2>1, <2>2
    <2>3. CASE v # w
      BY <1>1, <2>1, <2>3
    <2> QED BY <2>2, <2>3
  <1> QED BY <1>3, <1>4

\* A request that has no room to see to, or has just deleted it, moves on, and
\* every call that lives goes on living.
LEMMA RoomsStay ==
    ASSUME Good, RoomsKept, NEW w \in Workers, job' = [job EXCEPT ![w] = job'[w]],
           Owed' \subseteq Owed, SeesToRoom(job[w]) => job[w].call \notin Owed',
           \A c \in CallIds : Live(c) => Live(c)'
    PROVE  RoomsKept'
  <1>1. \A c \in CallIds : Live(c) =>
           Live(c)' \/ (job'[w].call = c /\ SeesToRoom(job'[w]))
    BY DEF SeesToRoom
  <1>2. \A c \in Owed' : c \in Owed \/ (job'[w].call = c /\ SeesToRoom(job'[w]))
    BY DEF SeesToRoom
  <1>3. SeesToRoom(job[w]) =>
           \/ job[w].call \notin Owed'
           \/ \A c \in CallIds : c = job[w].call => Live(c)'
           \/ job'[w].call = job[w].call /\ SeesToRoom(job'[w])
    BY DEF SeesToRoom
  <1> QED BY <1>1, <1>2, <1>3, RoomStep

\* The status of one call is written.
LEMMA LiveAfter ==
    ASSUME Good, NEW c \in DOMAIN calls, NEW to, SetStatus(c, to)
    PROVE  /\ \A d \in CallIds \ {c} : Live(d)' = Live(d)
           /\ to \in {"RINGING", "ACTIVE"} => Live(c)'
  <1>1. calls[c] \in CallRow /\ calls' = [calls EXCEPT ![c] = [calls[c] EXCEPT !.status = to]]
    BY DEF Good, IInv, TypeOK, SetStatus
  <1>2. /\ DOMAIN calls' = DOMAIN calls /\ calls'[c].status = to /\ c \in CallIds
        /\ \A d \in DOMAIN calls \ {c} : calls'[d] = calls[d]
    BY <1>1 DEF CallRow, Good, IInv, TypeOK
  <1> QED BY <1>2 DEF Live, status

LEMMA SameCalls ==
    ASSUME UNCHANGED calls
    PROVE  \A c \in CallIds : Live(c)' = Live(c)
  BY DEF Live, status

LEMMA EndingRooms ==
    ASSUME Good, RoomsKept, NEW w \in Workers,
           \/ endSingleCallOnFirstLeave(w) \/ endAllLeft(w) \/ cancelRinging(w)
           \/ endLiveKitFinishedCall(w) \/ mintToken(w)
    PROVE  RoomsKept'
  <1> DEFINE c == job[w].call
  <1>1. c \in DOMAIN calls /\ ~SeesToRoom(job[w]) /\ UNCHANGED Owed /\ job[w] \in Job
    BY DEF endSingleCallOnFirstLeave, endAllLeft, cancelRinging, endLiveKitFinishedCall,
           mintToken, At, Good, IInv, TypeOK, OnCall, SeesToRoom, EndCall, Silent, Owed
  <1>2. \/ Finish(w) /\ UNCHANGED calls
        \/ \E to, sf : \E pc \in {"seats", "room"} :
              /\ SetStatus(c, to)
              /\ job' = [job EXCEPT ![w].pc = pc, ![w].call = c, ![w].outcome = to,
                                    ![w].from = sf]
    BY DEF endSingleCallOnFirstLeave, endAllLeft, cancelRinging, endLiveKitFinishedCall,
           mintToken, EndCall, Silent, table
  <1>3. CASE Finish(w) /\ UNCHANGED calls
    <2>1. job' = [job EXCEPT ![w] = job'[w]]
      BY <1>3, JobGoesOn
    <2> QED BY <1>1, <1>3, <2>1, SameCalls, RoomsStay
  <1>4. ASSUME NEW to, NEW sf, NEW pc \in {"seats", "room"}, SetStatus(c, to),
               job' = [job EXCEPT ![w].pc = pc, ![w].call = c, ![w].outcome = to,
                                  ![w].from = sf]
        PROVE  RoomsKept'
    <2> DEFINE j == [job[w] EXCEPT !.pc = pc, !.call = c, !.outcome = to, !.from = sf]
    <2>1. job' = [job EXCEPT ![w] = j] /\ j.pc = pc /\ j.call = c
      BY <1>1, <1>4 DEF Job
    <2>2. SeesToRoom(j)
      BY <2>1 DEF SeesToRoom
    <2> HIDE DEF j
    <2>3. job'[w] = j /\ job' = [job EXCEPT ![w] = job'[w]]
      BY <2>1 DEF Good, IInv, TypeOK
    <2>4. \A d \in CallIds \ {c} : Live(d)' = Live(d)
      BY <1>1, <1>4, LiveAfter
    <2> HIDE DEF Good
    <2> QED BY <1>1, <2>1, <2>2, <2>3, <2>4, RoomStep
  <1> QED BY <1>2, <1>3, <1>4

LEMMA ExpireRooms ==
    ASSUME Good, RoomsKept, NEW w \in Workers, expireRingingCallAsMissed(w)
    PROVE  RoomsKept'
  <1>1. PICK c \in job[w].todo :
           \/ /\ SetStatus(c, "MISSED")
              /\ job' = [job EXCEPT ![w].pc = "seats", ![w].call = c,
                                    ![w].todo = @ \ {c},
                                    ![w].outcome = "MISSED", ![w].from = "INVITED"]
           \/ UNCHANGED calls /\ job' = [job EXCEPT ![w].todo = @ \ {c}]
    BY DEF expireRingingCallAsMissed
  <1>2. /\ c \in DOMAIN calls /\ job[w] \in Job /\ job[w].pc = "expire"
        /\ UNCHANGED Owed /\ ~SeesToRoom(job[w])
    BY DEF Good, IInv, TypeOK, expireRingingCallAsMissed, SeesToRoom, Owed
  <1>3. CASE UNCHANGED calls /\ job' = [job EXCEPT ![w].todo = @ \ {c}]
    <2>1. job' = [job EXCEPT ![w] = job'[w]]
      BY <1>3 DEF Good, IInv, TypeOK
    <2> QED BY <1>2, <1>3, <2>1, SameCalls, RoomsStay
  <1>4. CASE /\ SetStatus(c, "MISSED")
             /\ job' = [job EXCEPT ![w].pc = "seats", ![w].call = c,
                                   ![w].todo = @ \ {c},
                                   ![w].outcome = "MISSED", ![w].from = "INVITED"]
    <2> DEFINE j == [job[w] EXCEPT !.pc = "seats", !.call = c, !.todo = @ \ {c},
                                   !.outcome = "MISSED", !.from = "INVITED"]
    <2>1. job' = [job EXCEPT ![w] = j] /\ j.pc = "seats" /\ j.call = c
      BY <1>2, <1>4 DEF Job
    <2>2. SeesToRoom(j)
      BY <2>1 DEF SeesToRoom
    <2> HIDE DEF j
    <2>3. job'[w] = j /\ job' = [job EXCEPT ![w] = job'[w]]
      BY <2>1 DEF Good, IInv, TypeOK
    <2>4. \A d \in CallIds \ {c} : Live(d)' = Live(d)
      BY <1>2, <1>4, LiveAfter
    <2> HIDE DEF Good
    <2> QED BY <1>2, <2>1, <2>2, <2>3, <2>4, RoomStep
  <1> QED BY <1>1, <1>3, <1>4

\* The steps of a creation.
LEMMA CreatingRooms ==
    ASSUME Good, RoomsKept, NEW w \in Workers,
           \/ createRoom(w) \/ lockParticipantsForCall(w) \/ createCallSession(w)
           \/ createRefused(w) \/ dropRoom(w)
    PROVE  RoomsKept'
  <1>1. job[w] \in Job /\ job \in [Workers -> Job]
    BY DEF Good, IInv, TypeOK
  <1>2. CASE createRoom(w) /\ Finish(w)
    <2>1. ~SeesToRoom(job[w]) /\ UNCHANGED calls
      BY <1>2 DEF createRoom, At, SeesToRoom, table
    <2>2. job' = [job EXCEPT ![w] = job'[w]]
      BY <1>2, JobGoesOn
    <2>3. Owed' \subseteq Owed
      <3>1. job'[w].pc = "idle"
        BY <1>1, <1>2 DEF Finish, Idle
      <3>2. ~ \E c \in CallIds : \E pc \in {"begin", "drop"} :
                 job' = [job EXCEPT ![w].pc = pc, ![w].call = c]
        BY <1>1, <3>1 DEF Job
      <3>3. \/ UNCHANGED <<rooms, strays>>
            \/ \E c \in CallIds : rooms' = rooms \cup {c} /\ strays' = strays \cup {c}
        BY <1>2, <3>2 DEF createRoom
      <3> QED BY <3>3 DEF Owed
    <2> QED BY <2>1, <2>2, <2>3, SameCalls, RoomsStay
  <1>3. CASE createRoom(w) /\ ~Finish(w)
    <2>1. PICK c \in CallIds, pc \in {"begin", "drop"} :
             /\ rooms' = rooms \cup {c} /\ UNCHANGED strays
             /\ job' = [job EXCEPT ![w].pc = pc, ![w].call = c]
      BY <1>3 DEF createRoom
    <2>2. ~SeesToRoom(job[w]) /\ UNCHANGED calls
      BY <1>3 DEF createRoom, At, SeesToRoom, table
    <2> DEFINE j == [job[w] EXCEPT !.pc = pc, !.call = c]
    <2>3. job' = [job EXCEPT ![w] = j] /\ j.pc = pc /\ j.call = c
      BY <1>1, <2>1 DEF Job
    <2>4. SeesToRoom(j)
      BY <2>3 DEF SeesToRoom
    <2> HIDE DEF j
    <2>5. job'[w] = j /\ job' = [job EXCEPT ![w] = job'[w]]
      BY <1>1, <2>3
    <2>6. \A d \in Owed' : d \in Owed \/ d = c
      BY <2>1 DEF Owed
    <2> HIDE DEF Good
    <2> QED BY <2>2, <2>3, <2>4, <2>5, <2>6, SameCalls, RoomStep
  <1>4. CASE lockParticipantsForCall(w)
    <2>1. PICK b : job' = [job EXCEPT ![w].pc = "insert", ![w].allowed = b]
      BY <1>4 DEF lockParticipantsForCall
    <2>2. UNCHANGED <<Owed, calls>>
      BY <1>4 DEF lockParticipantsForCall, Silent, table, Owed
    <2> DEFINE j == [job[w] EXCEPT !.pc = "insert", !.allowed = b]
    <2>3. job' = [job EXCEPT ![w] = j] /\ j.pc = "insert" /\ j.call = job[w].call
      BY <1>1, <2>1 DEF Job
    <2>4. SeesToRoom(j)
      BY <2>3 DEF SeesToRoom
    <2> HIDE DEF j
    <2>5. job'[w] = j /\ job' = [job EXCEPT ![w] = job'[w]]
      BY <1>1, <2>3
    <2> HIDE DEF Good
    <2> QED BY <2>2, <2>3, <2>4, <2>5, SameCalls, RoomStep
  <1>5. CASE createCallSession(w)
    <2>1. PICK c : c = job[w].call
      OBVIOUS
    <2>2. /\ c \in CallIds \ DOMAIN calls /\ UNCHANGED Owed /\ Goto(w, "mint")
          /\ calls' = [d \in DOMAIN calls \cup {c} |->
                          IF d = c THEN NewCall(w) ELSE calls[d]]
      BY <1>5, <2>1 DEF createCallSession, AddCall, At, Good, IInv, JobsOK, JobOK, Fresh,
                        Owed
    <2>3. Live(c)'
      BY <2>2 DEF Live, status, NewCall
    <2>4. \A d \in CallIds : Live(d) => Live(d)'
      BY <2>2 DEF Live, status
    <2>5. job' = [job EXCEPT ![w] = job'[w]]
      BY <2>2, JobGoesOn
    <2>6. \A d \in CallIds : Live(d) =>
             Live(d)' \/ (job'[w].call = d /\ SeesToRoom(job'[w]))
      BY <2>4 DEF SeesToRoom
    <2>7. \A d \in Owed' : d \in Owed \/ (job'[w].call = d /\ SeesToRoom(job'[w]))
      BY <2>2 DEF SeesToRoom
    <2>8. \A d \in CallIds : d = job[w].call => Live(d)'
      BY <2>1, <2>3
    <2> HIDE DEF Good
    <2> QED BY <2>5, <2>6, <2>7, <2>8, RoomStep
  <1>6. CASE createRefused(w)
    <2>1. UNCHANGED <<Owed, calls>> /\ Goto(w, "drop")
      BY <1>6 DEF createRefused, Silent, table, Owed
    <2> DEFINE j == [job[w] EXCEPT !.pc = "drop"]
    <2>2. job' = [job EXCEPT ![w] = j] /\ j.pc = "drop" /\ j.call = job[w].call
      BY <1>1, <2>1 DEF Job, Goto
    <2>3. SeesToRoom(j)
      BY <2>2 DEF SeesToRoom
    <2> HIDE DEF j
    <2>4. job'[w] = j /\ job' = [job EXCEPT ![w] = job'[w]]
      BY <1>1, <2>2
    <2> HIDE DEF Good
    <2> QED BY <2>1, <2>2, <2>3, <2>4, SameCalls, RoomStep
  <1>7. CASE dropRoom(w)
    <2>1. UNCHANGED calls /\ Finish(w) /\ Owed' = Owed \ {job[w].call}
      BY <1>7 DEF dropRoom, livekitDeleteRoom, table, Owed
    <2>2. job' = [job EXCEPT ![w] = job'[w]]
      BY <2>1, JobGoesOn
    <2>3. Owed' \subseteq Owed /\ job[w].call \notin Owed'
      BY <2>1
    <2> HIDE DEF Good
    <2> QED BY <2>1, <2>2, <2>3, SameCalls, RoomsStay
  <1> QED BY <1>2, <1>3, <1>4, <1>5, <1>6, <1>7

\* The steps of other requests, which have no room to see to.
LEMMA AskingRooms ==
    ASSUME Good, RoomsKept, NEW w \in Workers,
           \/ Request(w) \/ AllExpired(w) \/ joinCommits(w) \/ rejectSeat(w)
           \/ endRingingCallIfNoInviteesRemain(w) \/ leaveSeat(w) \/ leaveCount(w)
           \/ emitCallRecordMessage(w)
    PROVE  RoomsKept'
  <1>1. UNCHANGED calls /\ UNCHANGED Owed
    BY DEF Owed, Request, Silent, table, Begin, sweepExpiredRingingCalls, startCall,
           acceptCall, createJoinToken, rejectCall, leaveCall, cancelCall,
           handleLiveKitWebhook, AllExpired, joinCommits, rejectSeat,
           endRingingCallIfNoInviteesRemain, leaveSeat, leaveCount, emitCallRecordMessage
  <1>2. job[w].pc \in {"idle", "expire", "joining", "claim", "count", "record"}
    <2>1. Request(w) => job[w].pc = "idle"
      BY DEF Request, Begin, sweepExpiredRingingCalls, startCall, acceptCall,
             createJoinToken, rejectCall, leaveCall, cancelCall, handleLiveKitWebhook
    <2>2. AllExpired(w) \/ emitCallRecordMessage(w) => job[w].pc \in {"expire", "record"}
      BY DEF AllExpired, emitCallRecordMessage
    <2>3. joinCommits(w) \/ rejectSeat(w) \/ leaveSeat(w) => job[w].pc \in {"joining", "claim"}
      BY DEF joinCommits, rejectSeat, leaveSeat, At
    <2>4. endRingingCallIfNoInviteesRemain(w) \/ leaveCount(w) => job[w].pc = "count"
      BY DEF endRingingCallIfNoInviteesRemain, leaveCount, At
    <2> QED BY <2>1, <2>2, <2>3, <2>4
  <1>3. job' = [job EXCEPT ![w] = job'[w]]
    <2>1. job \in [Workers -> Job]
      BY DEF Good, IInv, TypeOK
    <2>2. \E r : job' = [job EXCEPT ![w] = r]
      <3> HIDE DEF Idle
      <3> QED BY DEF Request, Begin, sweepExpiredRingingCalls, startCall,
           acceptCall, createJoinToken, rejectCall, leaveCall, cancelCall, Finish, Goto,
           handleLiveKitWebhook, AllExpired, joinCommits, rejectSeat,
           endRingingCallIfNoInviteesRemain, leaveSeat, leaveCount, emitCallRecordMessage
    <2> QED BY <2>1, <2>2
  <1>4. ~SeesToRoom(job[w])
    BY <1>2 DEF SeesToRoom
  <1> QED BY <1>1, <1>3, <1>4, SameCalls, RoomsStay

\* Answering keeps the call alive, closing it keeps its room in hand.
LEMMA ClosingRooms ==
    ASSUME Good, RoomsKept, NEW w \in Workers,
           joinInvitedCall(w) \/ closeSeats(w) \/ deleteRoom(w)
    PROVE  RoomsKept'
  <1>1. job[w] \in Job /\ job \in [Workers -> Job]
    BY DEF Good, IInv, TypeOK
  <1>2. CASE joinInvitedCall(w)
    <2> DEFINE c == job[w].call
    <2>1. c \in DOMAIN calls /\ UNCHANGED Owed /\ ~SeesToRoom(job[w])
      BY <1>2 DEF Owed, joinInvitedCall, At, Good, IInv, TypeOK, OnCall, SeesToRoom
    <2>2. Finish(w) \/ Goto(w, "joining")
      BY <1>2 DEF joinInvitedCall
    <2>3. job' = [job EXCEPT ![w] = job'[w]]
      BY <2>2, JobGoesOn
    <2>4. UNCHANGED calls \/ SetStatus(c, "ACTIVE")
      BY <1>2 DEF joinInvitedCall, table
    <2>5. \A d \in CallIds : Live(d) => Live(d)'
      <3>1. CASE UNCHANGED calls
        BY <3>1, SameCalls
      <3>2. CASE SetStatus(c, "ACTIVE")
        <4>1. PICK e \in DOMAIN calls : e = c
          BY <2>1
        <4>2. Live(e)' /\ \A d \in CallIds \ {e} : Live(d)' = Live(d)
          BY <3>2, <4>1, LiveAfter
        <4> QED BY <4>2
      <3> QED BY <2>4, <3>1, <3>2
    <2> QED BY <2>1, <2>3, <2>5, RoomsStay
  <1>3. CASE closeSeats(w)
    <2>1. UNCHANGED <<Owed, calls>> /\ Goto(w, "room")
      BY <1>3 DEF closeSeats, Owed
    <2> DEFINE j == [job[w] EXCEPT !.pc = "room"]
    <2>2. job' = [job EXCEPT ![w] = j] /\ j.pc = "room" /\ j.call = job[w].call
      BY <1>1, <2>1 DEF Job, Goto
    <2>3. SeesToRoom(j)
      BY <2>2 DEF SeesToRoom
    <2> HIDE DEF j
    <2>4. job'[w] = j /\ job' = [job EXCEPT ![w] = job'[w]]
      BY <1>1, <2>2
    <2> HIDE DEF Good
    <2> QED BY <2>1, <2>2, <2>3, <2>4, SameCalls, RoomStep
  <1>4. CASE deleteRoom(w)
    <2>1. UNCHANGED calls /\ Goto(w, "record") /\ Owed' = Owed \ {job[w].call}
      BY <1>4 DEF deleteRoom, livekitDeleteRoom, table, Owed
    <2>2. job' = [job EXCEPT ![w] = job'[w]]
      BY <2>1, JobGoesOn
    <2>3. Owed' \subseteq Owed /\ job[w].call \notin Owed'
      BY <2>1
    <2> HIDE DEF Good
    <2> QED BY <2>1, <2>2, <2>3, SameCalls, RoomsStay
  <1> QED BY <1>2, <1>3, <1>4

LEMMA NextRooms ==
    ASSUME "crash" \notin Faults, Good, RoomsKept, [Next]_vars
    PROVE  RoomsKept'
  <1>1. ASSUME NEW w \in Workers, Request(w) \/ Step(w) \/ Crash(w) PROVE RoomsKept'
    <2>1. ~Crash(w)
      BY DEF Crash
    <2> HIDE DEF Good, RoomsKept
    <2> QED BY <1>1, <2>1, EndingRooms, ExpireRooms, CreatingRooms, AskingRooms,
               ClosingRooms DEF Step
  <1>2. CASE UNCHANGED <<calls, job>> /\ Owed' \subseteq Owed
    BY <1>2 DEF RoomsKept, Live, status, SeesToRoom
  <1>3. CASE \/ UNCHANGED vars \/ LiveKitClosesRoom \/ ToggleBarred
             \/ \E c \in CallIds : RingTimeout(c)
    BY <1>2, <1>3 DEF RingTimeout, LiveKitClosesRoom, ToggleBarred, vars, table, Owed
  <1> HIDE DEF Good, RoomsKept
  <1> QED BY <1>1, <1>3 DEF Next

\* Without crashes every room that is made for a call is deleted when the call
\* ends or is not created after all: a room that outlives both its call and the
\* requests that work on it is one the media server was asked to delete and did
\* not, or one it made and said that it had not.
THEOREM RoomsComeBack ==
    ASSUME "crash" \notin Faults PROVE  Spec => []RoomsAreReturned
  <1>1. Init => RoomsKept
    BY DEF Init, RoomsKept, Owed
  <1>2. Good /\ RoomsKept /\ [Next]_vars => RoomsKept'
    BY NextRooms
  <1>3. RoomsKept => RoomsAreReturned
    BY DEF RoomsKept, RoomsAreReturned, Owed
  <1> QED BY <1>1, <1>2, <1>3, SeatInvariant, PTL DEF Spec

=============================================================================
