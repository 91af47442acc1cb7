--------------------------- MODULE CircleAdmission ---------------------------
(***************************************************************************)
(* Admission to one circle: applications, invitations with the consent of  *)
(* the invited user, votes of verifiers, the decision of an administrator, *)
(* the seat that an admission takes, and the delivery of the invitation    *)
(* notice.  Modelled from circle-invitation.service.ts,                    *)
(* circle-admission-policy.ts, circle-capacity.ts, circle.service.ts and   *)
(* group.service.ts.                                                       *)
(*                                                                         *)
(* Each request is one serializable transaction under the member locks of  *)
(* the users it names, so it is one step here.  The delivery of a notice   *)
(* is not: a deliverer claims the invitation in one transaction, writes    *)
(* the notice and the card in two more, and closes the claim in a fourth.  *)
(***************************************************************************)
EXTENDS Naturals, FiniteSets

CONSTANTS
  CircleUsers,       \* the users the model knows
  CircleOwner,       \* the member who owns the circle and never leaves it
  FirstMembers,      \* the members when the model starts
  CircleCapacities,  \* the values maxMembers may have
  RequiredVotes,     \* the values updateCircle may give requiredVerifierCount
  FriendsOnly,       \* users who let only friends invite them
  MaxInvitations,    \* bound on the rows of CircleInvitation
  MaxCircleEvents,   \* bound on leavings, edits, dissolution and changes of relation
  Deliverers,        \* runs of deliverConsentInvitation
  NoClaim            \* consentNoticeClaimedAt is null

ASSUME CircleAssumption ==
  /\ IsFiniteSet(CircleUsers)
  /\ CircleOwner \in FirstMembers /\ FirstMembers \subseteq CircleUsers
  /\ CircleCapacities \subseteq Nat \ {0}
  /\ RequiredVotes \subseteq Nat \ {0} /\ RequiredVotes # {}
  /\ FriendsOnly \subseteq CircleUsers
  /\ MaxInvitations \in Nat /\ MaxCircleEvents \in Nat
  /\ NoClaim \notin Deliverers

VARIABLES
  circleEvents,      \* how many of the bounded events happened
  membership,        \* CircleMember.status per user, "NONE" without a row
  memberCount,       \* the denormalised Circle.memberCount
  circle,            \* deleted, requiredVerifierCount, maxMembers, memberCanInvite
  joinBans,          \* users with a ChatGroupJoinBan
  relation,          \* per pair of users: friends, strangers, or one blocks the other
  invitations,       \* the rows of CircleInvitation, in order of creation
  delivering,        \* per deliverer: the invitation it works on and its next step
  cards              \* notices and cards that exist: pairs of invitation and kind

circleVars == <<circleEvents, membership, memberCount, circle, joinBans, relation,
                invitations, delivering, cards>>

Pairs == {pair \in SUBSET CircleUsers : Cardinality(pair) = 2}
Invitations == DOMAIN invitations
Admitted == {u \in CircleUsers : membership[u] = "ACTIVE"}
Friends(u, v) == relation[{u, v}] = "friends"
Blocked(u, v) == u # v /\ relation[{u, v}] = "blocked"
CircleEvent == circleEvents < MaxCircleEvents /\ circleEvents' = circleEvents + 1
Approvals(votes) == {u \in CircleUsers : votes[u] = "APPROVED"}
NoVotes == [u \in CircleUsers |-> "none"]
NotDelivering == [invitation |-> 0, step |-> "idle"]

(* canBeInvitedToGroupOrCircle: the privacy setting of the invited user. *)
canBeInvited(applicant, inviter) ==
  applicant \in FriendsOnly => Friends(applicant, inviter)

(* cancelPendingInvitations: the applicant's PENDING rows, not the INVITED. *)
CancelPending(rows, u) ==
  [i \in DOMAIN rows |->
     IF rows[i].applicant = u /\ rows[i].status = "PENDING"
       THEN [rows[i] EXCEPT !.status = "CANCELLED"] ELSE rows[i]]

-----------------------------------------------------------------------------
(* Admission policy *)

(* assertCanApply: the circle exists and has a free seat, the user is not
   banned.  (Limits on level, credit and number of circles refuse in the
   same way and are left out.) *)
assertCanApply(u) ==
  /\ ~circle.deleted
  /\ u \notin joinBans
  /\ memberCount < circle.maxMembers

(* reserveCircleSeats: the conditional update of memberCount. *)
reserveCircleSeats(n) ==
  /\ ~circle.deleted
  /\ memberCount + n <= circle.maxMembers
  /\ memberCount' = memberCount + n

(* activateMembers that trusts the checks its callers made. *)
activateMembers_Banned(u, rows) ==
  IF membership[u] = "ACTIVE"
    THEN /\ UNCHANGED <<membership, memberCount>>
         /\ invitations' = CancelPending(rows, u)
    ELSE /\ reserveCircleSeats(1)
         /\ membership' = [membership EXCEPT ![u] = "ACTIVE"]
         /\ invitations' = CancelPending(rows, u)

(* activateMembers for one user, called inside the transaction of the
   decision with the rows that decision wrote.  A refusal is an exception
   and rolls the whole decision back, so the action is then not enabled. *)
activateMembers(u, rows) ==
  IF membership[u] = "ACTIVE"
    THEN /\ UNCHANGED <<membership, memberCount>>
         /\ invitations' = CancelPending(rows, u)
    ELSE /\ u \notin joinBans
         /\ reserveCircleSeats(1)
         /\ membership' = [membership EXCEPT ![u] = "ACTIVE"]
         /\ invitations' = CancelPending(rows, u)

-----------------------------------------------------------------------------
(* Applications and invitations *)

(* joinCircle: the user applies.  A PENDING row is reused; an INVITED one is
   not, the application stands beside it. *)
joinCircle(u) ==
  /\ membership[u] # "ACTIVE"
  /\ assertCanApply(u)
  /\ membership' = [membership EXCEPT ![u] = "PENDING"]
  /\ \/ /\ \E i \in Invitations : invitations[i].applicant = u
                                    /\ invitations[i].status = "PENDING"
        /\ UNCHANGED invitations
     \/ /\ \A i \in Invitations : ~(/\ invitations[i].applicant = u
                                    /\ invitations[i].status = "PENDING")
        /\ Cardinality(Invitations) < MaxInvitations
        /\ invitations' = [i \in 1..Cardinality(Invitations) + 1 |->
             IF i \in Invitations THEN invitations[i]
             ELSE [status |-> "PENDING", applicant |-> u, inviter |-> u,
                   approved |-> 0, required |-> circle.required,
                   votes |-> NoVotes, notice |-> "none", claim |-> NoClaim]]
  /\ UNCHANGED <<circleEvents, memberCount, circle, joinBans, relation, delivering, cards>>

(* The conditions of inviteInTransaction that do not depend on the rows. *)
MayInvite(inviter, applicant) ==
  /\ membership[inviter] = "ACTIVE"
  /\ membership[applicant] # "ACTIVE"
  /\ applicant \notin joinBans
  /\ ~Blocked(inviter, applicant)
  /\ ~circle.deleted
  /\ circle.memberCanInvite \/ inviter = CircleOwner
  /\ assertCanApply(applicant)

(* invite without the consent of the applicant: an open row answers the
   request unchanged, otherwise a row INVITED with the vote of its inviter
   is written and waits for consent. *)
invite(inviter, applicant) ==
  /\ inviter # applicant
  /\ MayInvite(inviter, applicant)
  /\ canBeInvited(applicant, inviter)
  /\ \A i \in Invitations :
       ~(/\ invitations[i].applicant = applicant
         /\ invitations[i].status \in {"INVITED", "PENDING"})
  /\ Cardinality(Invitations) < MaxInvitations
  /\ invitations' = [i \in 1..Cardinality(Invitations) + 1 |->
       IF i \in Invitations THEN invitations[i]
       ELSE [status |-> "INVITED", applicant |-> applicant, inviter |-> inviter,
             approved |-> 1, required |-> circle.required,
             votes |-> [NoVotes EXCEPT ![inviter] = "APPROVED"],
             notice |-> "due", claim |-> NoClaim]]
  /\ UNCHANGED <<circleEvents, membership, memberCount, circle, joinBans, relation, delivering, cards>>

(* Row i holds a full set of votes: it is approved and its applicant is
   admitted, all in this transaction; otherwise the rows are only written. *)
finalize(i, rows) ==
  IF rows[i].approved >= rows[i].required
    THEN activateMembers(rows[i].applicant,
                         [rows EXCEPT ![i].status = "APPROVED"])
    ELSE invitations' = rows /\ UNCHANGED <<membership, memberCount>>

(* invite with the consent of the applicant.  An INVITED row becomes PENDING
   in the name of this inviter: the count restarts at one and the inviter's
   vote is written afresh, while a vote of another inviter stays.  A circle
   that asks for one vote admits in the same transaction. *)
Consent(i, inviter) ==
  finalize(i, [invitations EXCEPT ![i].status = "PENDING",
                                  ![i].inviter = inviter,
                                  ![i].approved = 1,
                                  ![i].votes[inviter] = "APPROVED"])

(* invite after scanning the circle's code of a member (qr.service.ts): a
   PENDING row of the applicant answers the request unchanged. *)
joinByCode(inviter, applicant) ==
  LET n == Cardinality(Invitations) + 1
      mine == {i \in Invitations : /\ invitations[i].applicant = applicant
                                   /\ invitations[i].status \in {"INVITED", "PENDING"}} IN
  /\ inviter # applicant
  /\ MayInvite(inviter, applicant)
  /\ \A i \in mine : invitations[i].status = "INVITED"
  /\ \/ \E i \in mine : Consent(i, inviter)
     \/ /\ mine = {} /\ n <= MaxInvitations
        /\ finalize(n, [i \in 1..n |->
             IF i \in Invitations THEN invitations[i]
             ELSE [status |-> "PENDING", applicant |-> applicant, inviter |-> inviter,
                   approved |-> 1, required |-> circle.required,
                   votes |-> [NoVotes EXCEPT ![inviter] = "APPROVED"],
                   notice |-> "none", claim |-> NoClaim]])
  /\ UNCHANGED <<circleEvents, circle, joinBans, relation, delivering, cards>>

(* respondToInvitation, accept: invite runs again, with consent, for the row
   and its inviter.  A second PENDING row of the applicant is refused by the
   unique index on PENDING rows. *)
acceptInvitation(i) ==
  LET row == invitations[i] IN
  /\ row.status = "INVITED"
  /\ MayInvite(row.inviter, row.applicant)
  /\ \A k \in Invitations : ~(/\ invitations[k].applicant = row.applicant
                              /\ invitations[k].status = "PENDING")
  /\ Consent(i, row.inviter)
  /\ UNCHANGED <<circleEvents, circle, joinBans, relation, delivering, cards>>

(* respondToInvitation, reject. *)
declineInvitation(i) ==
  /\ invitations[i].status = "INVITED"
  /\ invitations' = [invitations EXCEPT ![i].status = "CANCELLED"]
  /\ UNCHANGED <<circleEvents, membership, memberCount, circle, joinBans, relation, delivering, cards>>

(* addVerifier: the applicant asks a friend who is a member to vote, as long
   as the votes given and asked for do not reach the required number. *)
addVerifier(i, v) ==
  LET row == invitations[i] IN
  /\ row.status = "PENDING"
  /\ v # row.applicant /\ membership[v] = "ACTIVE" /\ Friends(row.applicant, v)
  /\ row.votes[v] = "none"
  /\ Cardinality({u \in CircleUsers : row.votes[u] \in {"PENDING", "APPROVED"}})
       < row.required
  /\ invitations' = [invitations EXCEPT ![i].votes[v] = "PENDING"]
  /\ UNCHANGED <<circleEvents, membership, memberCount, circle, joinBans, relation, delivering, cards>>

(* respond that counts a vote of a seat which has voted already. *)
respondYes_Again(i, v) ==
  LET row == invitations[i] IN
  /\ row.status = "PENDING" /\ row.votes[v] \in {"PENDING", "APPROVED"}
  /\ membership[v] = "ACTIVE" /\ Friends(row.applicant, v)
  /\ finalize(i, [invitations EXCEPT ![i].votes[v] = "APPROVED",
                                     ![i].approved = row.approved + 1])
  /\ UNCHANGED <<circleEvents, circle, joinBans, relation, delivering, cards>>

(* respond, approve: membership and friendship are judged again at the vote;
   the vote that completes the set admits the applicant. *)
respondYes(i, v) ==
  LET row == invitations[i] IN
  /\ row.status = "PENDING" /\ row.votes[v] = "PENDING"
  /\ membership[v] = "ACTIVE" /\ Friends(row.applicant, v)
  /\ finalize(i, [invitations EXCEPT ![i].votes[v] = "APPROVED",
                                     ![i].approved = row.approved + 1])
  /\ UNCHANGED <<circleEvents, circle, joinBans, relation, delivering, cards>>

(* respond, reject: open to a verifier who left or is no friend any more. *)
respondNo(i, v) ==
  /\ invitations[i].status = "PENDING" /\ invitations[i].votes[v] = "PENDING"
  /\ invitations' = [invitations EXCEPT ![i].votes[v] = "REJECTED"]
  /\ UNCHANGED <<circleEvents, membership, memberCount, circle, joinBans, relation, delivering, cards>>

(* adminApprove: the owner decides without the votes. *)
adminApprove(i) ==
  /\ invitations[i].status = "PENDING"
  /\ activateMembers(invitations[i].applicant,
                     [invitations EXCEPT ![i].status = "ADMIN_APPROVED"])
  /\ UNCHANGED <<circleEvents, circle, joinBans, relation, delivering, cards>>

(* adminReject, with or without the ban: a row rejected before may still be
   used to add the ban, whatever other rows the applicant has by then. *)
adminReject(i, blacklist) ==
  LET u == invitations[i].applicant IN
  /\ membership[u] # "ACTIVE"
  /\ \/ invitations[i].status = "PENDING"
     \/ invitations[i].status = "REJECTED" /\ blacklist /\ u \notin joinBans
  /\ joinBans' = IF blacklist THEN joinBans \union {u} ELSE joinBans
  /\ invitations' = [invitations EXCEPT ![i].status = "REJECTED"]
  /\ membership' = [membership EXCEPT ![u] = IF @ = "PENDING" THEN "REJECTED" ELSE @]
  /\ UNCHANGED <<circleEvents, memberCount, circle, relation, delivering, cards>>

-----------------------------------------------------------------------------
(* Leaving, and the life of the circle *)

(* leaveCircle, leaveGroup and removeGroupMember have the same effect on the
   rows: PENDING applications are cancelled - by the last two also of a user
   without a member row -, the row is deleted, and only an active member lowers
   the count.  INVITED rows stay. *)
leaveCircle(u) ==
  /\ u # CircleOwner
  /\ membership[u] # "NONE" \/ CancelPending(invitations, u) # invitations
  /\ invitations' = CancelPending(invitations, u)
  /\ membership' = [membership EXCEPT ![u] = "NONE"]
  /\ memberCount' = IF membership[u] = "ACTIVE" THEN memberCount - 1 ELSE memberCount
  /\ CircleEvent
  /\ UNCHANGED <<circle, joinBans, relation, delivering, cards>>

(* dissolveCircle: open rows are cancelled, the member rows are kept. *)
dissolveCircle ==
  /\ ~circle.deleted
  /\ circle' = [circle EXCEPT !.deleted = TRUE]
  /\ invitations' = [i \in Invitations |->
       IF invitations[i].status \in {"INVITED", "PENDING"}
         THEN [invitations[i] EXCEPT !.status = "CANCELLED"] ELSE invitations[i]]
  /\ CircleEvent
  /\ UNCHANGED <<membership, memberCount, joinBans, relation, delivering, cards>>

(* updateCircle, the fields that admission reads. *)
updateCircle(required, memberCanInvite) ==
  /\ ~circle.deleted
  /\ circle' = [circle EXCEPT !.required = required,
                              !.memberCanInvite = memberCanInvite]
  /\ circle' # circle
  /\ CircleEvent
  /\ UNCHANGED <<membership, memberCount, joinBans, relation, invitations, delivering, cards>>

(* Friendship ends, or one of the two blocks the other: written under the
   same locks of the pair as the checks above. *)
worsenRelation(pair, r) ==
  /\ <<relation[pair], r>> \in {<<"friends", "none">>, <<"friends", "blocked">>,
                                <<"none", "blocked">>}
  /\ relation' = [relation EXCEPT ![pair] = r]
  /\ CircleEvent
  /\ UNCHANGED <<membership, memberCount, circle, joinBans, invitations, delivering, cards>>

-----------------------------------------------------------------------------
(* Delivery of the invitation notice *)

isConsentDeliverable(row) ==
  /\ ~circle.deleted
  /\ membership[row.inviter] = "ACTIVE"
  /\ ~Blocked(row.inviter, row.applicant)
  /\ canBeInvited(row.applicant, row.inviter)
  /\ circle.memberCanInvite \/ row.inviter = CircleOwner

(* claimConsentDelivery.  A claim held by another deliverer is passed over
   unless its lease ran out, which may happen while that one still works. *)
claimConsentDelivery(d, i) ==
  LET row == invitations[i] IN
  /\ delivering[d] = NotDelivering
  /\ row.status = "INVITED" /\ row.notice = "due"
  /\ IF isConsentDeliverable(row)
       THEN /\ invitations' = [invitations EXCEPT ![i].claim = d]
            /\ delivering' = [delivering EXCEPT ![d] = [invitation |-> i, step |-> "notice"]]
       ELSE /\ invitations' = [invitations EXCEPT ![i].status = "CANCELLED",
                                                  ![i].notice = "done"]
            /\ UNCHANGED delivering
  /\ UNCHANGED <<circleEvents, membership, memberCount, circle, joinBans, relation, cards>>

(* recheckConsentDelivery, in the transaction of the write itself. *)
recheckConsentDelivery(d, row) ==
  IF row.claim # d THEN "lost"
  ELSE IF row.status # "INVITED" \/ ~isConsentDeliverable(row) THEN "ineligible"
  ELSE "ok"

(* The deliverer gives up its claim, and cancels an invitation that is still
   unanswered. *)
abortConsent(row) ==
  IF row.status = "INVITED"
    THEN [row EXCEPT !.status = "CANCELLED", !.notice = "done", !.claim = NoClaim]
    ELSE [row EXCEPT !.claim = NoClaim]

(* The write of the notice or of the card when only the claim is compared. *)
writeConsent_ClaimOnly(d) ==
  LET i == delivering[d].invitation
      next == IF delivering[d].step = "notice" THEN "card" ELSE "close" IN
  /\ delivering[d].step \in {"notice", "card"}
  /\ IF invitations[i].claim = d
       THEN /\ cards' = cards \union {<<i, delivering[d].step>>}
            /\ delivering' = [delivering EXCEPT ![d].step = next]
            /\ UNCHANGED invitations
       ELSE /\ delivering' = [delivering EXCEPT ![d] = NotDelivering]
            /\ UNCHANGED <<cards, invitations>>
  /\ UNCHANGED <<circleEvents, membership, memberCount, circle, joinBans, relation>>

(* deliverCircleConsentNotification and insertServerMessage with the guard:
   each writes its row unless the invitation lost its standing, which
   cancels it. *)
writeConsent(d) ==
  LET i == delivering[d].invitation
      next == IF delivering[d].step = "notice" THEN "card" ELSE "close"
      verdict == recheckConsentDelivery(d, invitations[i]) IN
  /\ delivering[d].step \in {"notice", "card"}
  /\ IF verdict = "ok"
       THEN /\ cards' = cards \union {<<i, delivering[d].step>>}
            /\ delivering' = [delivering EXCEPT ![d].step = next]
            /\ UNCHANGED invitations
       ELSE /\ delivering' = [delivering EXCEPT ![d] = NotDelivering]
            /\ invitations' = [invitations EXCEPT ![i] =
                 IF verdict = "lost" THEN @ ELSE abortConsent(@)]
            /\ UNCHANGED cards
  /\ UNCHANGED <<circleEvents, membership, memberCount, circle, joinBans, relation>>

(* The end of deliverConsentInvitation: delivered once, whoever claims. *)
closeConsent(d) ==
  /\ delivering[d].step = "close"
  /\ invitations' = [invitations EXCEPT ![delivering[d].invitation] =
       IF @.notice = "due" THEN [@ EXCEPT !.notice = "done", !.claim = NoClaim] ELSE @]
  /\ delivering' = [delivering EXCEPT ![d] = NotDelivering]
  /\ UNCHANGED <<circleEvents, membership, memberCount, circle, joinBans, relation, cards>>

(* The call in flight fails or the process dies: the claim is released if
   that still works (releaseConsentClaim), or left to its lease. *)
deliveryFails(d) ==
  LET i == delivering[d].invitation IN
  /\ delivering[d] # NotDelivering
  /\ delivering' = [delivering EXCEPT ![d] = NotDelivering]
  /\ \/ UNCHANGED invitations
     \/ invitations[i].claim = d
          /\ invitations' = [invitations EXCEPT ![i].claim = NoClaim]
  /\ UNCHANGED <<circleEvents, membership, memberCount, circle, joinBans, relation, cards>>

-----------------------------------------------------------------------------
CircleInit ==
  /\ circleEvents = 0
  /\ membership = [u \in CircleUsers |-> IF u \in FirstMembers THEN "ACTIVE" ELSE "NONE"]
  /\ memberCount = Cardinality(FirstMembers)
  /\ circle \in [deleted : {FALSE}, required : RequiredVotes,
                 maxMembers : CircleCapacities, memberCanInvite : {TRUE}]
  /\ memberCount <= circle.maxMembers
  /\ joinBans = {}
  /\ relation = [pair \in Pairs |-> "friends"]
  /\ invitations = [i \in {} |-> i]
  /\ delivering = [d \in Deliverers |-> NotDelivering]
  /\ cards = {}

CircleNext ==
  \/ \E u \in CircleUsers : joinCircle(u) \/ leaveCircle(u)
  \/ \E u, v \in CircleUsers : invite(u, v) \/ joinByCode(u, v)
  \/ \E i \in Invitations : acceptInvitation(i) \/ declineInvitation(i) \/ adminApprove(i)
  \/ \E i \in Invitations, v \in CircleUsers :
       addVerifier(i, v) \/ respondYes(i, v) \/ respondNo(i, v)
  \/ \E i \in Invitations, b \in BOOLEAN : adminReject(i, b)
  \/ dissolveCircle
  \/ \E n \in RequiredVotes, b \in BOOLEAN : updateCircle(n, b)
  \/ \E pair \in Pairs, r \in {"none", "blocked"} : worsenRelation(pair, r)
  \/ \E d \in Deliverers, i \in Invitations : claimConsentDelivery(d, i)
  \/ \E d \in Deliverers : writeConsent(d) \/ closeConsent(d) \/ deliveryFails(d)

CircleSpec == CircleInit /\ [][CircleNext]_circleVars

-----------------------------------------------------------------------------
(* Properties *)

(* memberCount, kept by separate increments and decrements of admission,
   leaving and removal, is the number of active rows and within the limit.
   No row counts a vote it does not have or counts one twice; an approved row
   had as many as were required when it was written; and one whose count is
   full is never left PENDING for reconcileApprovedInvitations to repair. *)
CircleBooksAgree ==
  /\ memberCount = Cardinality(Admitted)
  /\ memberCount <= circle.maxMembers
  /\ \A i \in Invitations : LET row == invitations[i] IN
       /\ row.approved <= Cardinality(Approvals(row.votes))
       /\ row.status = "PENDING" => row.approved < row.required
       /\ row.status = "APPROVED" => row.approved >= row.required

(* What the comment on reconcileApprovedInvitations says: no application is
   left PENDING with a full set of approvals. *)
FullSetIsDecided ==
  \A i \in Invitations :
    invitations[i].status = "PENDING" =>
      Cardinality(Approvals(invitations[i].votes)) < invitations[i].required

(* The members as CircleRoster sees them. *)
Roster == INSTANCE CircleRoster WITH
  People <- CircleUsers, Keeper <- CircleOwner, inside <- Admitted,
  count <- memberCount, limit <- circle.maxMembers, banned <- joinBans,
  open <- ~circle.deleted

(* What CircleRoster promises: however two open rows of a user, votes, codes,
   bans, leavings and the dissolution interleave, members come in one at a
   time, into a free seat of a circle that exists, and a user banned by
   adminReject comes in by no road - neither by an application that was open
   beside the rejected one nor by an invitation that waited for consent. *)
KeepsRoster == Roster!RosterSpec

(* No notice and no card of an invitation appears after the applicant
   declined it, blocked the inviter or ended the friendship their privacy
   asks for, although the deliverer read all of that long before it writes
   (recheckConsentDelivery). *)
ConsentIsHonoured ==
  [][\A card \in cards' \ cards :
       LET row == invitations[card[1]] IN
         /\ row.status = "INVITED"
         /\ ~Blocked(row.inviter, row.applicant)
         /\ canBeInvited(row.applicant, row.inviter)]_circleVars
=============================================================================
