------------------------ MODULE CircleAdmissionProofs ------------------------
(***************************************************************************)
(* Proofs about CircleAdmission, for any users, capacities, numbers of     *)
(* votes, invitations and deliverers: the books of a circle agree, its     *)
(* members change only as CircleRoster allows, and a notice is written     *)
(* only while its invitation stands.                                       *)
(***************************************************************************)
EXTENDS CircleAdmission, FiniteSetTheorems, TLAPS

Statuses == {"INVITED", "PENDING", "APPROVED", "ADMIN_APPROVED", "REJECTED", "CANCELLED"}

Row == [status : Statuses, applicant : CircleUsers, inviter : CircleUsers,
        approved : Nat, required : Nat \ {0},
        votes : [CircleUsers -> {"none", "PENDING", "APPROVED", "REJECTED"}],
        notice : {"none", "due", "done"}, claim : Deliverers \union {NoClaim}]

(* No vote is counted that is not there, nor one twice. *)
Counted(row) == row.approved <= Cardinality(Approvals(row.votes))

(* A full set of votes has been acted on. *)
Decided(row) ==
  /\ row.status = "PENDING" => row.approved < row.required
  /\ row.status = "APPROVED" => row.approved >= row.required

RowOK(row) == row \in Row /\ Counted(row) /\ Decided(row)

(* Rows are numbered in the order of their creation. *)
Numbered(rows) == \E n \in Nat : DOMAIN rows = 1..n

RowsOK(rows) == Numbered(rows) /\ \A i \in DOMAIN rows : RowOK(rows[i])

(* The members and their number. *)
SeatsOK ==
  /\ membership \in [CircleUsers -> {"NONE", "PENDING", "ACTIVE", "REJECTED"}]
  /\ memberCount = Cardinality(Admitted)
  /\ memberCount <= circle.maxMembers

CircleOK == circle \in [deleted : BOOLEAN, required : RequiredVotes,
                        maxMembers : CircleCapacities, memberCanInvite : BOOLEAN]

CircleInv == SeatsOK /\ CircleOK /\ RowsOK(invitations)

RosterStep == [Roster!RosterNext]_(Roster!rosterVars)

-----------------------------------------------------------------------------
(* Facts about finite sets and rows *)

LEMMA AdmittedFinite == IsFiniteSet(Admitted) /\ Cardinality(Admitted) \in Nat
  <1>1. Admitted \subseteq CircleUsers BY DEF Admitted
  <1> QED BY <1>1, CircleAssumption, FS_Subset, FS_CardinalityType DEF CircleAssumption

LEMMA ApprovalsFinite ==
  ASSUME NEW votes
  PROVE  IsFiniteSet(Approvals(votes)) /\ Cardinality(Approvals(votes)) \in Nat
  <1>1. Approvals(votes) \subseteq CircleUsers BY DEF Approvals
  <1> QED BY <1>1, CircleAssumption, FS_Subset, FS_CardinalityType DEF CircleAssumption

LEMMA OneApproval ==
  ASSUME NEW votes, NEW u \in CircleUsers, votes[u] = "APPROVED"
  PROVE  1 <= Cardinality(Approvals(votes))
  <1>1. u \in Approvals(votes) BY DEF Approvals
  <1>2. Cardinality(Approvals(votes)) # 0 BY <1>1, ApprovalsFinite, FS_EmptySet
  <1> QED BY <1>2, ApprovalsFinite

(* A vote that is not an approval becomes one. *)
LEMMA MoreApprovals ==
  ASSUME NEW votes, NEW u \in CircleUsers, votes[u] # "APPROVED",
         DOMAIN votes = CircleUsers
  PROVE  Cardinality(Approvals([votes EXCEPT ![u] = "APPROVED"]))
           = Cardinality(Approvals(votes)) + 1
  <1>1. u \notin Approvals(votes) BY DEF Approvals
  <1>2. Approvals([votes EXCEPT ![u] = "APPROVED"]) = Approvals(votes) \union {u}
    BY DEF Approvals
  <1> QED BY <1>1, <1>2, ApprovalsFinite, FS_AddElement

(* A vote that is no approval and does not become one. *)
LEMMA SameApprovals ==
  ASSUME NEW votes, NEW u \in CircleUsers, votes[u] # "APPROVED",
         DOMAIN votes = CircleUsers, NEW vote, vote # "APPROVED"
  PROVE  Approvals([votes EXCEPT ![u] = vote]) = Approvals(votes)
  BY DEF Approvals

(* One row of several is written. *)
LEMMA WriteRow ==
  ASSUME NEW rows, RowsOK(rows), NEW i \in DOMAIN rows, NEW row, RowOK(row)
  PROVE  RowsOK([rows EXCEPT ![i] = row])
  BY DEF RowsOK, Numbered

LEMMA CancelOK ==
  ASSUME NEW row, RowOK(row)
  PROVE  RowOK([row EXCEPT !.status = "CANCELLED"])
  BY DEF RowOK, Row, Counted, Decided, Statuses

LEMMA CancelPendingOK ==
  ASSUME NEW rows, NEW u, RowsOK(rows)
  PROVE  RowsOK(CancelPending(rows, u))
  BY CancelOK DEF RowsOK, Numbered, CancelPending

-----------------------------------------------------------------------------
(* Admission *)

LEMMA ActivateStep ==
  ASSUME SeatsOK, CircleOK, NEW u \in CircleUsers, NEW rows, RowsOK(rows),
         activateMembers(u, rows), UNCHANGED <<circle, joinBans>>
  PROVE  SeatsOK' /\ RowsOK(invitations)' /\ RosterStep
  <1>1. RowsOK(invitations)'
    BY CancelPendingOK DEF activateMembers
  <1>2. CASE membership[u] = "ACTIVE"
    <2>1. UNCHANGED <<membership, memberCount>> BY <1>2 DEF activateMembers
    <2>2. Admitted' = Admitted BY <2>1 DEF Admitted
    <2> QED BY <1>1, <2>1, <2>2 DEF SeatsOK, RosterStep, Roster!rosterVars
  <1>3. CASE membership[u] # "ACTIVE"
    <2>1. /\ u \notin joinBans /\ ~circle.deleted
          /\ memberCount + 1 <= circle.maxMembers /\ memberCount' = memberCount + 1
          /\ membership' = [membership EXCEPT ![u] = "ACTIVE"]
      BY <1>3 DEF activateMembers, reserveCircleSeats
    <2>2. u \notin Admitted /\ Admitted' = Admitted \union {u}
      BY <1>3, <2>1 DEF Admitted, SeatsOK
    <2>3. memberCount' = Cardinality(Admitted')
      BY <2>1, <2>2, AdmittedFinite, FS_AddElement DEF SeatsOK
    <2>4. SeatsOK' BY <2>1, <2>3 DEF SeatsOK
    <2>5. circle.maxMembers \in Nat
      BY CircleAssumption DEF CircleOK, CircleAssumption
    <2>6. memberCount < circle.maxMembers
      BY <2>1, <2>5, AdmittedFinite DEF SeatsOK
    <2>7. Roster!Come(u) BY <2>1, <2>2, <2>6 DEF Roster!Come
    <2> QED BY <1>1, <2>4, <2>7 DEF RosterStep, Roster!RosterNext
  <1> QED BY <1>2, <1>3

(* Row i has just been given a vote and may hold a full set. *)
LEMMA FinalizeStep ==
  ASSUME SeatsOK, CircleOK, NEW rows, Numbered(rows), NEW i \in DOMAIN rows,
         rows[i] \in Row, Counted(rows[i]), rows[i].status = "PENDING",
         \A k \in DOMAIN rows \ {i} : RowOK(rows[k]),
         finalize(i, rows), UNCHANGED <<circle, joinBans>>
  PROVE  SeatsOK' /\ RowsOK(invitations)' /\ RosterStep
  <1>1. CASE rows[i].approved >= rows[i].required
    <2> DEFINE row == [rows[i] EXCEPT !.status = "APPROVED"]
               next == [rows EXCEPT ![i].status = "APPROVED"]
    <2>1. RowOK(row) BY <1>1 DEF RowOK, Row, Counted, Decided, Statuses
    <2>2. DOMAIN next = DOMAIN rows /\ next[i] = row
          /\ \A k \in DOMAIN rows \ {i} : next[k] = rows[k]
      OBVIOUS
    <2>3. RowsOK(next) BY <2>1, <2>2 DEF RowsOK, Numbered
    <2>4. activateMembers(rows[i].applicant, next) BY <1>1 DEF finalize
    <2>5. rows[i].applicant \in CircleUsers BY DEF Row
    <2> QED BY <2>3, <2>4, <2>5, ActivateStep
  <1>2. CASE ~(rows[i].approved >= rows[i].required)
    <2>1. invitations' = rows /\ UNCHANGED <<membership, memberCount>>
      BY <1>2 DEF finalize
    <2>2. RowOK(rows[i]) BY <1>2 DEF RowOK, Row, Decided
    <2>3. RowsOK(rows) BY <2>2 DEF RowsOK
    <2>4. Admitted' = Admitted BY <2>1 DEF Admitted
    <2> QED BY <2>1, <2>3, <2>4 DEF SeatsOK, RosterStep, Roster!rosterVars, RowsOK
  <1> QED BY <1>1, <1>2

LEMMA ConsentStep ==
  ASSUME CircleInv, NEW i \in Invitations, NEW v \in CircleUsers,
         Consent(i, v), UNCHANGED <<circle, joinBans>>
  PROVE  SeatsOK' /\ RowsOK(invitations)' /\ RosterStep
  <1> DEFINE votes == [invitations[i].votes EXCEPT ![v] = "APPROVED"]
             row == [status |-> "PENDING", applicant |-> invitations[i].applicant,
                     inviter |-> v, approved |-> 1, required |-> invitations[i].required,
                     votes |-> votes, notice |-> invitations[i].notice,
                     claim |-> invitations[i].claim]
             next == [invitations EXCEPT ![i].status = "PENDING", ![i].inviter = v,
                                         ![i].approved = 1, ![i].votes[v] = "APPROVED"]
  <1>1. invitations[i] \in Row BY DEF CircleInv, RowsOK, RowOK, Invitations
  <1>2. row \in Row BY <1>1 DEF Row, Statuses
  <1>3. next[i] = row BY <1>1 DEF Row, Invitations
  <1>4. DOMAIN next = DOMAIN invitations
        /\ \A k \in DOMAIN next \ {i} : next[k] = invitations[k]
    OBVIOUS
  <1>5. Counted(row)
    <2>1. votes[v] = "APPROVED" BY <1>1 DEF Row
    <2> QED BY <2>1, OneApproval DEF Counted
  <1>6. \A k \in DOMAIN next \ {i} : RowOK(next[k])
    BY <1>4 DEF CircleInv, RowsOK
  <1>7. finalize(i, next) BY DEF Consent
  <1>8. /\ i \in DOMAIN next /\ next[i].status = "PENDING"
        /\ Numbered(next)
    BY <1>3, <1>4 DEF Invitations, CircleInv, RowsOK, Numbered
  <1> HIDE DEF next, row
  <1> QED BY <1>2, <1>3, <1>5, <1>6, <1>7, <1>8, FinalizeStep DEF CircleInv

-----------------------------------------------------------------------------
(* The other steps *)

Result == CircleInv' /\ RosterStep

(* The members stay as they are, and so do circle and bans. *)
LEMMA QuietStep ==
  ASSUME CircleInv, Admitted' = Admitted,
         membership' \in [CircleUsers -> {"NONE", "PENDING", "ACTIVE", "REJECTED"}],
         UNCHANGED <<memberCount, circle, joinBans>>, RowsOK(invitations)'
  PROVE  Result
  BY DEF Result, CircleInv, SeatsOK, CircleOK, RosterStep, Roster!rosterVars

(* Row i is written over, and nothing that the members depend on. *)
LEMMA RowStep ==
  ASSUME CircleInv, NEW i \in Invitations, NEW row, RowOK(row),
         invitations' = [invitations EXCEPT ![i] = row],
         UNCHANGED <<membership, memberCount, circle, joinBans>>
  PROVE  Result
  <1>1. RowsOK(invitations)' BY WriteRow DEF CircleInv, Invitations, RowsOK
  <1>2. Admitted' = Admitted BY DEF Admitted
  <1> QED BY <1>1, <1>2, QuietStep DEF CircleInv, SeatsOK

(* A new row behind the others. *)
LEMMA NextNumber ==
  ASSUME RowsOK(invitations)
  PROVE  /\ Cardinality(Invitations) \in Nat
         /\ Invitations = 1..Cardinality(Invitations)
  <1>1. PICK n \in Nat : DOMAIN invitations = 1..n BY DEF RowsOK, Numbered
  <1>2. Cardinality(1..n) = n BY <1>1, FS_Interval
  <1> QED BY <1>1, <1>2 DEF Invitations

LEMMA NewRow ==
  ASSUME RowsOK(invitations), NEW row, RowOK(row)
  PROVE  RowsOK([i \in 1..Cardinality(Invitations) + 1 |->
                   IF i \in Invitations THEN invitations[i] ELSE row])
  BY NextNumber DEF RowsOK, Numbered, Invitations

LEMMA RequiredType == CircleOK => circle.required \in Nat \ {0}
  BY CircleAssumption DEF CircleOK, CircleAssumption

LEMMA joinCircleStep ==
  ASSUME CircleInv, NEW u \in CircleUsers, joinCircle(u)
  PROVE  Result
  <1> DEFINE row == [status |-> "PENDING", applicant |-> u, inviter |-> u,
                     approved |-> 0, required |-> circle.required,
                     votes |-> NoVotes, notice |-> "none", claim |-> NoClaim]
  <1>1. Admitted' = Admitted BY DEF joinCircle, Admitted, CircleInv, SeatsOK
  <1>2. RowOK(row)
    <2>1. row \in Row BY RequiredType DEF Row, Statuses, NoVotes, CircleInv
    <2>2. 0 <= Cardinality(Approvals(NoVotes)) BY ApprovalsFinite
    <2>3. 0 < circle.required BY RequiredType DEF CircleInv
    <2> QED BY <2>1, <2>2, <2>3 DEF RowOK, Counted, Decided
  <1>3. RowsOK(invitations)'
    BY <1>2, NewRow DEF joinCircle, CircleInv, RowsOK
  <1>4. membership' \in [CircleUsers -> {"NONE", "PENDING", "ACTIVE", "REJECTED"}]
    BY DEF joinCircle, CircleInv, SeatsOK
  <1> QED BY <1>1, <1>3, <1>4, QuietStep DEF joinCircle

(* The row that an invitation writes, with or without consent. *)
LEMMA InvitedRow ==
  ASSUME CircleInv, NEW u \in CircleUsers, NEW v \in CircleUsers,
         NEW st \in {"INVITED", "PENDING"}, NEW nt \in {"none", "due"},
         NEW row, row = [status |-> st, applicant |-> u, inviter |-> v,
                approved |-> 1, required |-> circle.required,
                votes |-> [NoVotes EXCEPT ![v] = "APPROVED"],
                notice |-> nt, claim |-> NoClaim]
  PROVE  row \in Row /\ Counted(row) /\ (st = "INVITED" => RowOK(row))
  <1>1. row \in Row BY RequiredType DEF Row, Statuses, NoVotes, CircleInv
  <1>2. row.votes[v] = "APPROVED" BY DEF NoVotes
  <1>3. Counted(row) BY <1>2, OneApproval DEF Counted
  <1> QED BY <1>1, <1>3 DEF RowOK, Decided

LEMMA inviteStep ==
  ASSUME CircleInv, NEW v \in CircleUsers, NEW u \in CircleUsers, invite(v, u)
  PROVE  Result
  <1> DEFINE row == [status |-> "INVITED", applicant |-> u, inviter |-> v,
                     approved |-> 1, required |-> circle.required,
                     votes |-> [NoVotes EXCEPT ![v] = "APPROVED"],
                     notice |-> "due", claim |-> NoClaim]
  <1>1. RowOK(row) BY InvitedRow
  <1>2. RowsOK(invitations)' BY <1>1, NewRow DEF invite, CircleInv, RowsOK
  <1>3. Admitted' = Admitted BY DEF invite, Admitted
  <1> QED BY <1>2, <1>3, QuietStep DEF invite, CircleInv, SeatsOK

LEMMA joinByCodeStep ==
  ASSUME CircleInv, NEW v \in CircleUsers, NEW u \in CircleUsers, joinByCode(v, u)
  PROVE  Result
  <1> DEFINE n == Cardinality(Invitations) + 1
             mine == {i \in Invitations : /\ invitations[i].applicant = u
                        /\ invitations[i].status \in {"INVITED", "PENDING"}}
             row == [status |-> "PENDING", applicant |-> u, inviter |-> v,
                     approved |-> 1, required |-> circle.required,
                     votes |-> [NoVotes EXCEPT ![v] = "APPROVED"],
                     notice |-> "none", claim |-> NoClaim]
             next == [i \in 1..n |-> IF i \in Invitations THEN invitations[i] ELSE row]
  <1>1. UNCHANGED <<circle, joinBans>> BY DEF joinByCode
  <1>2. \/ \E i \in mine : Consent(i, v)
        \/ mine = {} /\ finalize(n, next)
    BY DEF joinByCode
  <1>3. CASE \E i \in mine : Consent(i, v)
    BY <1>1, <1>3, ConsentStep DEF Result, CircleInv, CircleOK
  <1>4. CASE mine = {} /\ finalize(n, next)
    <2>1. row \in Row /\ Counted(row) BY InvitedRow
    <2>2. n \in Nat \ {0} /\ Invitations = 1..(n - 1) BY NextNumber DEF CircleInv
    <2>3. n \in DOMAIN next /\ next[n] = row /\ Numbered(next)
      BY <2>2 DEF Numbered
    <2>4. \A k \in DOMAIN next \ {n} : RowOK(next[k])
      BY <2>2 DEF CircleInv, RowsOK, Invitations
    <2>5. row.status = "PENDING" OBVIOUS
    <2> HIDE DEF next, row, n
    <2> QED BY <1>1, <1>4, <2>1, <2>3, <2>4, <2>5, FinalizeStep
            DEF Result, CircleInv, CircleOK
  <1> QED BY <1>2, <1>3, <1>4

LEMMA RowsAreOK ==
  ASSUME CircleInv, NEW i \in Invitations
  PROVE  RowOK(invitations[i]) /\ invitations[i] \in Row
  BY DEF CircleInv, RowsOK, RowOK, Invitations

LEMMA acceptInvitationStep ==
  ASSUME CircleInv, NEW i \in Invitations, acceptInvitation(i)
  PROVE  Result
  <1>1. invitations[i].inviter \in CircleUsers BY RowsAreOK DEF Row
  <1>2. Consent(i, invitations[i].inviter) /\ UNCHANGED <<circle, joinBans>>
    BY DEF acceptInvitation
  <1> QED BY <1>1, <1>2, ConsentStep DEF Result, CircleInv, CircleOK

LEMMA declineInvitationStep ==
  ASSUME CircleInv, NEW i \in Invitations, declineInvitation(i)
  PROVE  Result
  <1>1. RowOK([invitations[i] EXCEPT !.status = "CANCELLED"]) BY RowsAreOK, CancelOK
  <1> QED BY <1>1, RowStep DEF declineInvitation

(* A verifier's seat takes a value that is no approval. *)
LEMMA SeatVote ==
  ASSUME CircleInv, NEW i \in Invitations, NEW v \in CircleUsers,
         invitations[i].votes[v] # "APPROVED", NEW vote \in {"PENDING", "REJECTED"}
  PROVE  RowOK([invitations[i] EXCEPT !.votes[v] = vote])
  <1> DEFINE old == invitations[i]
             row == [old EXCEPT !.votes[v] = vote]
  <1>1. old \in Row /\ RowOK(old) BY RowsAreOK
  <1>2. /\ row \in Row /\ row.status = old.status
        /\ row.approved = old.approved /\ row.required = old.required
        /\ row.votes = [old.votes EXCEPT ![v] = vote]
    BY <1>1 DEF Row
  <1>3. Approvals(row.votes) = Approvals(old.votes)
    BY <1>1, <1>2, SameApprovals DEF Row
  <1> QED BY <1>1, <1>2, <1>3 DEF RowOK, Counted, Decided

LEMMA addVerifierStep ==
  ASSUME CircleInv, NEW i \in Invitations, NEW v \in CircleUsers, addVerifier(i, v)
  PROVE  Result
  <1>1. RowOK([invitations[i] EXCEPT !.votes[v] = "PENDING"])
    BY SeatVote DEF addVerifier
  <1> QED BY <1>1, RowStep DEF addVerifier

LEMMA respondNoStep ==
  ASSUME CircleInv, NEW i \in Invitations, NEW v \in CircleUsers, respondNo(i, v)
  PROVE  Result
  <1>1. RowOK([invitations[i] EXCEPT !.votes[v] = "REJECTED"])
    BY SeatVote DEF respondNo
  <1> QED BY <1>1, RowStep DEF respondNo

(* A verifier's approval, as respondYes writes it into the row. *)
LEMMA ApprovedRow ==
  ASSUME NEW old, old \in Row, NEW v \in CircleUsers, NEW n \in Nat, NEW row,
         row = [status |-> old.status, applicant |-> old.applicant,
                inviter |-> old.inviter, approved |-> n, required |-> old.required,
                votes |-> [old.votes EXCEPT ![v] = "APPROVED"],
                notice |-> old.notice, claim |-> old.claim]
  PROVE  /\ row \in Row /\ row.status = old.status /\ row.approved = n
         /\ row.votes = [old.votes EXCEPT ![v] = "APPROVED"]
  BY DEF Row

LEMMA respondYesStep ==
  ASSUME CircleInv, NEW i \in Invitations, NEW v \in CircleUsers, respondYes(i, v)
  PROVE  Result
  <1> DEFINE old == invitations[i]
             n == old.approved + 1
             row == [status |-> old.status, applicant |-> old.applicant,
                     inviter |-> old.inviter, approved |-> n, required |-> old.required,
                     votes |-> [old.votes EXCEPT ![v] = "APPROVED"],
                     notice |-> old.notice, claim |-> old.claim]
             next == [invitations EXCEPT ![i].votes[v] = "APPROVED",
                                         ![i].approved = n]
  <1>1. old \in Row /\ Counted(old) BY RowsAreOK DEF RowOK
  <1>2. old.status = "PENDING" /\ old.votes[v] = "PENDING" /\ finalize(i, next)
        /\ UNCHANGED <<circle, joinBans>>
    BY DEF respondYes
  <1>3. old.approved \in Nat /\ n \in Nat /\ DOMAIN old.votes = CircleUsers
    BY <1>1 DEF Row
  <1>4. /\ i \in DOMAIN next /\ next[i] = row /\ Numbered(next)
        /\ \A k \in DOMAIN next \ {i} : RowOK(next[k])
    <2>1. DOMAIN next = DOMAIN invitations /\ i \in DOMAIN invitations BY DEF Invitations
    <2>2. next[i] = row BY <1>1, <2>1 DEF Row
    <2>3. \A k \in DOMAIN next \ {i} : next[k] = invitations[k] BY <2>1
    <2> HIDE DEF next
    <2> QED BY <2>1, <2>2, <2>3 DEF CircleInv, RowsOK, Numbered
  <1>5. n = old.approved + 1 OBVIOUS
  <1>6. /\ row \in Row /\ row.status = old.status /\ row.approved = n
        /\ row.votes = [old.votes EXCEPT ![v] = "APPROVED"]
    BY <1>1, <1>3, ApprovedRow
  <1> HIDE DEF next, row, n, old
  <1>7. Counted(row)
    <2>1. Cardinality(Approvals(row.votes)) = Cardinality(Approvals(old.votes)) + 1
      BY <1>2, <1>3, <1>6, MoreApprovals
    <2> QED BY <1>1, <1>3, <1>5, <1>6, <2>1, ApprovalsFinite DEF Counted
  <1> QED BY <1>2, <1>4, <1>6, <1>7, FinalizeStep DEF Result, CircleInv, CircleOK

LEMMA adminApproveStep ==
  ASSUME CircleInv, NEW i \in Invitations, adminApprove(i)
  PROVE  Result
  <1> DEFINE row == [invitations[i] EXCEPT !.status = "ADMIN_APPROVED"]
             next == [invitations EXCEPT ![i].status = "ADMIN_APPROVED"]
  <1>1. RowOK(row) BY RowsAreOK DEF RowOK, Row, Counted, Decided, Statuses
  <1>2. next = [invitations EXCEPT ![i] = row] OBVIOUS
  <1>3. RowsOK(next) BY <1>1, <1>2, WriteRow DEF CircleInv, Invitations
  <1>4. activateMembers(invitations[i].applicant, next) /\ UNCHANGED <<circle, joinBans>>
    BY DEF adminApprove
  <1>5. invitations[i].applicant \in CircleUsers BY RowsAreOK DEF Row
  <1> QED BY <1>3, <1>4, <1>5, ActivateStep DEF Result, CircleInv, CircleOK

LEMMA adminRejectStep ==
  ASSUME CircleInv, NEW i \in Invitations, NEW blacklist \in BOOLEAN,
         adminReject(i, blacklist)
  PROVE  Result
  <1> DEFINE u == invitations[i].applicant
             row == [invitations[i] EXCEPT !.status = "REJECTED"]
  <1>1. u \in CircleUsers BY RowsAreOK DEF Row
  <1>2. RowOK(row) BY RowsAreOK DEF RowOK, Row, Counted, Decided, Statuses
  <1>3. RowsOK(invitations)'
    <2>1. invitations' = [invitations EXCEPT ![i] = row] BY DEF adminReject
    <2> QED BY <1>2, <2>1, WriteRow DEF CircleInv, Invitations
  <1>4. /\ membership[u] # "ACTIVE" /\ UNCHANGED <<memberCount, circle>>
        /\ membership' = [membership EXCEPT ![u] = IF membership[u] = "PENDING"
                                                     THEN "REJECTED" ELSE membership[u]]
    BY DEF adminReject
  <1>5. Admitted' = Admitted
    BY <1>1, <1>4 DEF Admitted, CircleInv, SeatsOK
  <1>6. CircleInv'
    BY <1>1, <1>3, <1>4, <1>5 DEF CircleInv, SeatsOK, CircleOK
  <1>7. CASE blacklist
    <2>1. joinBans' = joinBans \union {u} BY <1>7 DEF adminReject
    <2>2. Roster!Ban(u) BY <1>4, <1>5, <2>1 DEF Roster!Ban, Admitted
    <2> QED BY <1>1, <1>6, <2>2 DEF Result, RosterStep, Roster!RosterNext
  <1>8. CASE ~blacklist
    BY <1>4, <1>5, <1>6, <1>8 DEF adminReject, Result, RosterStep, Roster!rosterVars
  <1> QED BY <1>7, <1>8

LEMMA leaveCircleStep ==
  ASSUME CircleInv, NEW u \in CircleUsers, leaveCircle(u)
  PROVE  Result
  <1>1. RowsOK(invitations)' BY CancelPendingOK DEF leaveCircle, CircleInv, RowsOK
  <1>2. /\ u # CircleOwner /\ UNCHANGED <<circle, joinBans>>
        /\ membership' = [membership EXCEPT ![u] = "NONE"]
        /\ memberCount' = IF membership[u] = "ACTIVE" THEN memberCount - 1 ELSE memberCount
    BY DEF leaveCircle
  <1>3. CASE membership[u] = "ACTIVE"
    <2>1. u \in Admitted /\ Admitted' = Admitted \ {u}
      BY <1>2, <1>3 DEF Admitted, CircleInv, SeatsOK
    <2>2. memberCount' = Cardinality(Admitted')
      BY <1>2, <1>3, <2>1, AdmittedFinite, FS_RemoveElement DEF CircleInv, SeatsOK
    <2>3. memberCount' <= circle.maxMembers
      <3>1. circle.maxMembers \in Nat
        BY CircleAssumption DEF CircleInv, CircleOK, CircleAssumption
      <3>2. memberCount \in Nat /\ memberCount <= circle.maxMembers
        BY AdmittedFinite DEF CircleInv, SeatsOK
      <3>3. memberCount' = memberCount - 1 BY <1>2, <1>3
      <3> QED BY <3>1, <3>2, <3>3
    <2>4. CircleInv' BY <1>1, <1>2, <2>2, <2>3 DEF CircleInv, SeatsOK, CircleOK
    <2>5. Roster!Go(u) BY <1>2, <1>3, <2>1 DEF Roster!Go
    <2> QED BY <2>4, <2>5 DEF Result, RosterStep, Roster!RosterNext
  <1>4. CASE membership[u] # "ACTIVE"
    <2>1. Admitted' = Admitted BY <1>2, <1>4 DEF Admitted, CircleInv, SeatsOK
    <2> QED BY <1>1, <1>2, <1>4, <2>1, QuietStep DEF CircleInv, SeatsOK
  <1> QED BY <1>3, <1>4

LEMMA dissolveCircleStep ==
  ASSUME CircleInv, dissolveCircle
  PROVE  Result
  <1>1. RowsOK(invitations)'
    BY CancelOK DEF dissolveCircle, CircleInv, RowsOK, Numbered, Invitations
  <1>2. Admitted' = Admitted BY DEF dissolveCircle, Admitted
  <1>3. CircleOK' /\ circle'.maxMembers = circle.maxMembers /\ circle'.deleted /\ ~circle.deleted
    BY DEF dissolveCircle, CircleInv, CircleOK
  <1>4. CircleInv' BY <1>1, <1>2, <1>3 DEF dissolveCircle, CircleInv, SeatsOK
  <1>5. Roster!Dissolve BY <1>2, <1>3 DEF dissolveCircle, Roster!Dissolve
  <1> QED BY <1>4, <1>5 DEF Result, RosterStep, Roster!RosterNext

LEMMA updateCircleStep ==
  ASSUME CircleInv, NEW n \in RequiredVotes, NEW b \in BOOLEAN, updateCircle(n, b)
  PROVE  Result
  <1>1. Admitted' = Admitted BY DEF updateCircle, Admitted
  <1>2. CircleOK' /\ circle'.maxMembers = circle.maxMembers /\ circle'.deleted = circle.deleted
    BY DEF updateCircle, CircleInv, CircleOK
  <1>3. CircleInv' BY <1>1, <1>2 DEF updateCircle, CircleInv, SeatsOK, RowsOK
  <1> QED BY <1>1, <1>2, <1>3 DEF updateCircle, Result, RosterStep, Roster!rosterVars

LEMMA worsenRelationStep ==
  ASSUME CircleInv, NEW pair \in Pairs, NEW r, worsenRelation(pair, r)
  PROVE  Result
  <1>1. Admitted' = Admitted BY DEF worsenRelation, Admitted
  <1> QED BY <1>1, QuietStep DEF worsenRelation, CircleInv, SeatsOK, RowsOK

-----------------------------------------------------------------------------
(* Delivery of the notice *)

(* A step of a deliverer writes at most the status CANCELLED, the state of
   the notice and the claim of one row. *)
LEMMA DeliveryRow ==
  ASSUME NEW old, RowOK(old), NEW nt \in {"none", "due", "done"},
         NEW c \in Deliverers \union {NoClaim},
         NEW st \in {old.status, "CANCELLED"}, NEW row,
         row = [status |-> st, applicant |-> old.applicant, inviter |-> old.inviter,
                approved |-> old.approved, required |-> old.required,
                votes |-> old.votes, notice |-> nt, claim |-> c]
  PROVE  RowOK(row)
  <1>1. row \in Row BY DEF RowOK, Row, Statuses
  <1>2. Counted(row) BY DEF RowOK, Counted
  <1>3. Decided(row) BY DEF RowOK, Decided
  <1> QED BY <1>1, <1>2, <1>3 DEF RowOK

(* Such a step, on a row that need not exist. *)
LEMMA DeliveryStep ==
  ASSUME CircleInv, NEW i, NEW row, i \in Invitations => RowOK(row),
         invitations' = [invitations EXCEPT ![i] = row],
         UNCHANGED <<membership, memberCount, circle, joinBans>>
  PROVE  Result
  <1>1. CASE i \in Invitations BY <1>1, RowStep
  <1>2. CASE i \notin Invitations
    <2>1. RowsOK(invitations)' BY <1>2 DEF Invitations, CircleInv, RowsOK, Numbered
    <2>2. Admitted' = Admitted BY DEF Admitted
    <2> QED BY <2>1, <2>2, QuietStep DEF CircleInv, SeatsOK
  <1> QED BY <1>1, <1>2

LEMMA claimConsentDeliveryStep ==
  ASSUME CircleInv, NEW d \in Deliverers, NEW i \in Invitations,
         claimConsentDelivery(d, i)
  PROVE  Result
  <1> DEFINE old == invitations[i]
             claimed == [old EXCEPT !.claim = d]
             cancelled == [old EXCEPT !.status = "CANCELLED", !.notice = "done"]
  <1>1. RowOK(old) /\ old \in Row BY RowsAreOK
  <1>2. UNCHANGED <<membership, memberCount, circle, joinBans>>
    BY DEF claimConsentDelivery
  <1>3. invitations' \in {[invitations EXCEPT ![i] = claimed],
                         [invitations EXCEPT ![i] = cancelled]}
    BY DEF claimConsentDelivery
  <1>4. RowOK(claimed) BY <1>1 DEF RowOK, Row, Counted, Decided
  <1>5. RowOK(cancelled) BY <1>1 DEF RowOK, Row, Counted, Decided, Statuses
  <1> QED BY <1>2, <1>3, <1>4, <1>5, RowStep

LEMMA AbortOK ==
  ASSUME NEW old, RowOK(old)
  PROVE  RowOK(abortConsent(old))
  <1>1. CASE old.status = "INVITED"
    <2>1. abortConsent(old) =
            [status |-> "CANCELLED", applicant |-> old.applicant, inviter |-> old.inviter,
             approved |-> old.approved, required |-> old.required,
             votes |-> old.votes, notice |-> "done", claim |-> NoClaim]
      BY <1>1 DEF abortConsent, RowOK, Row
    <2> QED BY <2>1, DeliveryRow
  <1>2. CASE old.status # "INVITED"
    BY <1>2 DEF abortConsent, RowOK, Row, Counted, Decided
  <1> QED BY <1>1, <1>2

LEMMA writeConsentStep ==
  ASSUME CircleInv, NEW d \in Deliverers, writeConsent(d)
  PROVE  Result
  <1> DEFINE i == delivering[d].invitation
             verdict == recheckConsentDelivery(d, invitations[i])
  <1>1. UNCHANGED <<membership, memberCount, circle, joinBans>>
    BY DEF writeConsent
  <1>2. CASE verdict = "ok"
    <2>1. UNCHANGED invitations BY <1>2 DEF writeConsent
    <2> QED BY <1>1, <2>1, QuietStep DEF Admitted, CircleInv, SeatsOK, RowsOK
  <1>3. CASE verdict # "ok"
    <2> DEFINE row == IF verdict = "lost" THEN invitations[i]
                                          ELSE abortConsent(invitations[i])
    <2>1. invitations' = [invitations EXCEPT ![i] = row]
      BY <1>3 DEF writeConsent
    <2>2. ASSUME i \in Invitations PROVE RowOK(row)
      BY <2>2, RowsAreOK, AbortOK
    <2> QED BY <1>1, <2>1, <2>2, DeliveryStep
  <1> QED BY <1>2, <1>3

(* The row that closeConsent leaves. *)
LEMMA CloseOK ==
  ASSUME NEW old, RowOK(old), NEW row,
         row = [old EXCEPT !.notice = "done", !.claim = NoClaim]
  PROVE  RowOK(row)
  <1>1. row = [status |-> old.status, applicant |-> old.applicant, inviter |-> old.inviter,
               approved |-> old.approved, required |-> old.required,
               votes |-> old.votes, notice |-> "done", claim |-> NoClaim]
    BY DEF RowOK, Row
  <1> QED BY <1>1, DeliveryRow

LEMMA closeConsentStep ==
  ASSUME CircleInv, NEW d \in Deliverers, closeConsent(d)
  PROVE  Result
  <1> DEFINE i == delivering[d].invitation
             old == invitations[i]
             closed == [old EXCEPT !.notice = "done", !.claim = NoClaim]
             row == IF old.notice = "due" THEN closed ELSE old
  <1>1. UNCHANGED <<membership, memberCount, circle, joinBans>>
    BY DEF closeConsent
  <1>2. invitations' = [invitations EXCEPT ![i] = row]
    BY DEF closeConsent
  <1>3. ASSUME i \in Invitations PROVE RowOK(row)
    <2>1. RowOK(old) BY <1>3, RowsAreOK
    <2>2. RowOK(closed) BY <2>1, CloseOK
    <2> QED BY <2>1, <2>2
  <1> QED BY <1>1, <1>2, <1>3, DeliveryStep

LEMMA deliveryFailsStep ==
  ASSUME CircleInv, NEW d \in Deliverers, deliveryFails(d)
  PROVE  Result
  <1> DEFINE i == delivering[d].invitation
             row == [invitations[i] EXCEPT !.claim = NoClaim]
  <1>1. UNCHANGED <<membership, memberCount, circle, joinBans>>
        /\ invitations' \in {invitations, [invitations EXCEPT ![i] = row]}
    BY DEF deliveryFails
  <1>2. CASE invitations' = invitations
    BY <1>1, <1>2, QuietStep DEF Admitted, CircleInv, SeatsOK, RowsOK
  <1>3. CASE invitations' = [invitations EXCEPT ![i] = row]
    <2>1. ASSUME i \in Invitations PROVE RowOK(row)
      BY <2>1, RowsAreOK DEF RowOK, Row, Counted, Decided
    <2> QED BY <1>1, <1>3, <2>1, DeliveryStep
  <1> QED BY <1>1, <1>2, <1>3

-----------------------------------------------------------------------------
(* The theorems *)

LEMMA InitStep == CircleInit => CircleInv /\ Roster!RosterInit
  <1> SUFFICES ASSUME CircleInit PROVE CircleInv /\ Roster!RosterInit OBVIOUS
  <1>1. Admitted = FirstMembers
    BY CircleAssumption DEF CircleInit, Admitted, CircleAssumption
  <1>2. SeatsOK BY <1>1 DEF CircleInit, SeatsOK
  <1>3. CircleOK BY DEF CircleInit, CircleOK
  <1>4. RowsOK(invitations)
    <2>1. DOMAIN invitations = 1..0 BY DEF CircleInit
    <2> QED BY <2>1 DEF RowsOK, Numbered
  <1>5. Roster!RosterInit
    BY <1>1, CircleAssumption DEF CircleInit, CircleAssumption, Roster!RosterInit,
           Roster!Cardinality, Cardinality
  <1> QED BY <1>2, <1>3, <1>4, <1>5 DEF CircleInv

LEMMA CircleNextStep ==
  ASSUME CircleInv, [CircleNext]_circleVars
  PROVE  Result
  <1>1. ASSUME NEW u \in CircleUsers, joinCircle(u) \/ leaveCircle(u) PROVE Result
    BY <1>1, joinCircleStep, leaveCircleStep
  <1>2. ASSUME NEW u \in CircleUsers, NEW v \in CircleUsers,
               invite(u, v) \/ joinByCode(u, v)
        PROVE  Result
    BY <1>2, inviteStep, joinByCodeStep
  <1>3. ASSUME NEW i \in Invitations,
               acceptInvitation(i) \/ declineInvitation(i) \/ adminApprove(i)
        PROVE  Result
    BY <1>3, acceptInvitationStep, declineInvitationStep, adminApproveStep
  <1>4. ASSUME NEW i \in Invitations, NEW v \in CircleUsers,
               addVerifier(i, v) \/ respondYes(i, v) \/ respondNo(i, v)
        PROVE  Result
    BY <1>4, addVerifierStep, respondYesStep, respondNoStep
  <1>5. ASSUME NEW i \in Invitations, NEW b \in BOOLEAN, adminReject(i, b) PROVE Result
    BY <1>5, adminRejectStep
  <1>6. CASE dissolveCircle BY <1>6, dissolveCircleStep
  <1>7. ASSUME NEW n \in RequiredVotes, NEW b \in BOOLEAN, updateCircle(n, b) PROVE Result
    BY <1>7, updateCircleStep
  <1>8. ASSUME NEW pair \in Pairs, NEW r \in {"none", "blocked"}, worsenRelation(pair, r)
        PROVE  Result
    BY <1>8, worsenRelationStep
  <1>9. ASSUME NEW d \in Deliverers, NEW i \in Invitations, claimConsentDelivery(d, i)
        PROVE  Result
    BY <1>9, claimConsentDeliveryStep
  <1>10. ASSUME NEW d \in Deliverers, writeConsent(d) \/ closeConsent(d) \/ deliveryFails(d)
         PROVE  Result
    BY <1>10, writeConsentStep, closeConsentStep, deliveryFailsStep
  <1>11. CASE UNCHANGED circleVars
    BY <1>11, QuietStep DEF circleVars, Admitted, CircleInv, SeatsOK, RowsOK
  <1> QED BY <1>1, <1>2, <1>3, <1>4, <1>5, <1>6, <1>7, <1>8, <1>9, <1>10, <1>11
          DEF CircleNext

(* Whatever requests and deliverers interleave, the rows of a circle keep
   their form: CircleInv is inductive. *)
THEOREM CircleInvariant == CircleSpec => []CircleInv
  <1>1. CircleInit => CircleInv BY InitStep
  <1>2. CircleInv /\ [CircleNext]_circleVars => CircleInv' BY CircleNextStep DEF Result
  <1> QED BY <1>1, <1>2, PTL DEF CircleSpec

(* memberCount is the number of active members and within the limit; no row
   counts a vote that is missing or counts one twice, and a row whose count
   is full is decided (activateMembers, respond, invite, leaveCircle). *)
THEOREM CircleBooksCorrect == CircleSpec => []CircleBooksAgree
  <1>1. CircleInv => CircleBooksAgree
    BY DEF CircleInv, SeatsOK, RowsOK, RowOK, Counted, Decided, CircleBooksAgree, Invitations
  <1> QED BY <1>1, CircleInvariant, PTL

(* The admission of a circle implements CircleRoster: members come one at a
   time into a free seat of an open circle, and never against a ban. *)
THEOREM RosterKept == CircleSpec => KeepsRoster
  <1>1. CircleInit => Roster!RosterInit BY InitStep
  <1>2. CircleInv /\ [CircleNext]_circleVars => [Roster!RosterNext]_(Roster!rosterVars)
    BY CircleNextStep DEF Result, RosterStep
  <1> QED BY <1>1, <1>2, CircleInvariant, PTL DEF CircleSpec, KeepsRoster, Roster!RosterSpec

(* Only writeConsent adds notices and cards, and only after it judged the
   invitation again in the transaction of the write. *)
THEOREM ConsentKept == CircleSpec => ConsentIsHonoured
  <1> DEFINE Honoured == \A card \in cards' \ cards :
       LET row == invitations[card[1]] IN
         /\ row.status = "INVITED"
         /\ ~Blocked(row.inviter, row.applicant)
         /\ canBeInvited(row.applicant, row.inviter)
  <1>1. ASSUME NEW d \in Deliverers, writeConsent(d) PROVE Honoured
    <2> DEFINE i == delivering[d].invitation
               kind == delivering[d].step
    <2>1. CASE recheckConsentDelivery(d, invitations[i]) = "ok"
      <3>1. cards' = cards \union {<<i, kind>>} BY <1>1, <2>1 DEF writeConsent
      <3>2. \A card \in cards' \ cards : card[1] = i BY <3>1
      <3>3. invitations[i].status = "INVITED" /\ isConsentDeliverable(invitations[i])
        BY <2>1 DEF recheckConsentDelivery
      <3> QED BY <3>2, <3>3 DEF isConsentDeliverable
    <2>2. CASE recheckConsentDelivery(d, invitations[i]) # "ok"
      BY <1>1, <2>2 DEF writeConsent
    <2> QED BY <2>1, <2>2
  <1>2. ASSUME UNCHANGED cards PROVE Honoured BY <1>2
  <1>3. [CircleNext]_circleVars => (UNCHANGED cards) \/ \E d \in Deliverers : writeConsent(d)
    BY DEF CircleNext, circleVars, joinCircle, leaveCircle, invite, joinByCode,
           acceptInvitation, declineInvitation, adminApprove, addVerifier, respondYes,
           respondNo, adminReject, dissolveCircle, updateCircle, worsenRelation,
           claimConsentDelivery, closeConsent, deliveryFails
  <1>4. [CircleNext]_circleVars => [Honoured]_circleVars BY <1>1, <1>2, <1>3
  <1> QED BY <1>4, PTL DEF CircleSpec, ConsentIsHonoured
=============================================================================
