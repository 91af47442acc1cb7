---------------------------- MODULE CallLifecycle ----------------------------
(***************************************************************************)
(* What the call service promises about each call, whoever answers, hangs  *)
(* up, cancels or times out at the same moment: it rings, it may be        *)
(* answered, it ends once, and its end is recorded at most once, with the  *)
(* outcome it had.  A call that was never answered can only be missed,     *)
(* canceled, failed or closed; an answered one can only be closed.         *)
(***************************************************************************)
EXTENDS Sequences

CONSTANTS CallIds   \* ids of calls

VARIABLES
    status,    \* the status of each call; "none" before it is created
    records    \* the outcomes recorded for each call, in order

lifecycleVars == <<status, records>>

Outcomes == {"ENDED", "CANCELED", "MISSED", "FAILED"}
Statuses == {"none", "RINGING", "ACTIVE"} \cup Outcomes

LifecycleInit ==
    /\ status = [c \in CallIds |-> "none"]
    /\ records = [c \in CallIds |-> <<>>]

Move(c, from, to) ==
    /\ status[c] \in from
    /\ status' = [status EXCEPT ![c] = to]
    /\ UNCHANGED records

Ring(c) == Move(c, {"none"}, "RINGING")
Answer(c) == Move(c, {"RINGING"}, "ACTIVE")
End(c) == \/ Move(c, {"RINGING", "ACTIVE"}, "ENDED")
          \/ \E out \in Outcomes \ {"ENDED"} : Move(c, {"RINGING"}, out)

Record(c) ==
    /\ status[c] \in Outcomes /\ records[c] = <<>>
    /\ records' = [records EXCEPT ![c] = <<status[c]>>]
    /\ UNCHANGED status

LifecycleNext == \E c \in CallIds : Ring(c) \/ Answer(c) \/ End(c) \/ Record(c)

LifecycleSpec == LifecycleInit /\ [][LifecycleNext]_lifecycleVars
=============================================================================
