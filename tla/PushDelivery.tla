----------------------------- MODULE PushDelivery -----------------------------
(***************************************************************************)
(* What the push outbox promises for one notification: for every device a  *)
(* row that is tried a bounded number of times and, once its outcome is    *)
(* final, is never tried again - as long as no worker outlives its lease.  *)
(***************************************************************************)
EXTENDS Integers

CONSTANTS Devices, Limit
VARIABLES row,    \* status and number of tries of each device
          torn    \* some worker went on working after losing its lease

Open == {"PENDING", "FAILED"}
Final == {"CONFIRMED", "TERMINAL"}

\* How one row may move: it is made, tried, answered by a receipt, given up
\* because the device is gone, or its tries are counted afresh.
May(r, s) ==
    \/ s = r
    \/ r.status = "none" /\ s.status = "PENDING" /\ s.tries = 0
    \/ /\ r.status \in Open /\ r.tries < Limit
       /\ s.status \in {"SENT", "FAILED"} \cup Final /\ s.tries = r.tries + 1
    \/ r.status = "SENT" /\ s.status \in {"FAILED"} \cup Final /\ s.tries = r.tries
    \/ r.status \in Open /\ s.status = "TERMINAL" /\ s.tries = r.tries
    \/ r.status = "FAILED" /\ s.status = "FAILED" /\ s.tries = 0

Init == row = [d \in Devices |-> [status |-> "none", tries |-> 0]] /\ torn = FALSE

Kept == torn' = torn /\ \A d \in Devices : torn \/ May(row[d], row'[d])
Tear == torn' = TRUE

Next == Kept \/ Tear
Spec == Init /\ [][Next]_<<row, torn>>
=============================================================================
