------------------------------- MODULE Sessions -------------------------------
(***************************************************************************)
(* The sessions and trusted devices of one account: the rows of refresh    *)
(* tokens with the access token issued beside each, the revocation scopes, *)
(* device trust, challenges for unknown devices and recovery, and the      *)
(* device-bound push tokens.                                               *)
(*                                                                         *)
(* Logins, refreshes and the removal of devices hold the account's         *)
(* auth_session lock while they run one transaction after another; logout  *)
(* with a refresh token, the single device switch and approvals do not     *)
(* take it.                                                                *)
(*                                                                         *)
(* A row snapshots the generation of the four scopes when it is made, and  *)
(* a generation only grows, so all that matters of a snapshot is whether   *)
(* the scope has been advanced since: the row is stale in that scope.      *)
(***************************************************************************)
EXTENDS Integers, Sequences, FiniteSets

CONSTANTS
    AuthDevices,    \* devices of the account's owner
    MaxSessions,    \* rows of refresh tokens looked at
    MaxPasswords,   \* changes of password looked at
    AuthProfiles,   \* sets of operations looked at together
    MaxAuthEvents,  \* removals, switches, rejections and failures looked at
    NoFamily        \* no family, no device

VARIABLES
    authOps,        \* the operations that occur in this behaviour
    authEvents,     \* how many of those events so far
    sessions,       \* the rows, in the order they were made
    exempt,         \* for a scope, the family its last advance exempted
    single,         \* singleDeviceLoginEnabled
    password,       \* which password the account has
    trust,          \* what TrustedDevice says of each device
    stable,         \* the identifier of a later installation that a trusted
                    \* device has registered
    challenge,      \* the login challenge of each device
    pushBound,      \* devices with an enabled push token
    authOp,         \* the operation that holds the lock auth_session
    knows,          \* devices whose password has been compared, with which one
    removed,        \* devices removed since they were last let in
    floor           \* the password after the last change that was completed

sessionVars == <<authOps, authEvents, sessions, exempt, single, password, trust, stable, challenge,
                 pushBound, authOp, knows, removed, floor>>

ASSUME NoFamilyAssumption == NoFamily \notin Nat

Rows == DOMAIN sessions
Live(r) == sessions[r].state = "LIVE"
FamilyOf(r) == {x \in Rows : sessions[x].family = sessions[r].family}
Scopes == {"ACCOUNT", "AUDIENCE"}

\* SessionVerifier: what a request with the access token of row r gets.
verifyInDatabase(r) ==
    /\ ~sessions[r].cut
    /\ sessions[r].state \in {"LIVE", "ROTATED"}
    /\ \A s \in sessions[r].stale : s \in Scopes /\ exempt[s] = sessions[r].family

\* A row revoked for any reason but rotation is not accepted again, whatever
\* its snapshots.
Ended(r) == [sessions[r] EXCEPT !.state = "ENDED", !.stale = {}]

\* advanceScopeGeneration with the revocation that goes with it: rows in the
\* scope become stale, live ones outside the kept family are revoked.
Revoked(scope, rows, keep) ==
    [r \in Rows |->
        IF r \notin rows THEN sessions[r]
        ELSE IF Live(r) /\ sessions[r].family # keep THEN Ended(r)
        ELSE [sessions[r] EXCEPT !.stale = @ \cup {scope}]]

NewRow(d, family, pw) == [state |-> "LIVE", family |-> family, device |-> d,
                          stale |-> {}, cut |-> FALSE, password |-> pw]

NoAuthOp == [kind |-> "none"]
LockFree == authOp = NoAuthOp
Open == {"PENDING", "APPROVED"}

\* A challenge that is rejected, used or missing admits nobody: it is closed.
\* While it is being approved, the approver has been checked and the row has
\* not been written.
Closed == [status |-> "closed", recovery |-> FALSE, approving |-> FALSE]

-----------------------------------------------------------------------------
(* Writes shared by the operations.                                         *)

revokeOtherDevices(keep) ==
    /\ trust' = [d \in AuthDevices |->
                    IF trust[d] = "trusted" /\ d \notin keep THEN "revoked" ELSE trust[d]]
    /\ pushBound' = pushBound \cap keep

invalidateChallenges ==
    challenge' = [d \in AuthDevices |-> Closed]

\* The requests of other devices to recover the account; d is in its owner's
\* hands.
cancelRecoveries(d) ==
    challenge' = [e \in AuthDevices |->
        IF e # d /\ challenge[e].recovery THEN Closed ELSE challenge[e]]

revokeOtherSessions(r) ==
    LET family == sessions[r].family IN
    /\ sessions' = Revoked("ACCOUNT", Rows, family)
    /\ exempt' = [exempt EXCEPT !["ACCOUNT"] = family]

\* Fault: the access tokens of rows rotated before are left alone.
revokeAll_RowsOnly ==
    sessions' = [r \in Rows |-> IF Live(r) THEN Ended(r) ELSE sessions[r]]

revokeAll ==
    sessions' = [r \in Rows |-> IF Live(r) THEN Ended(r) ELSE [sessions[r] EXCEPT !.cut = TRUE]]

-----------------------------------------------------------------------------
(* Login.                                                                   *)

\* The password is compared before the lock is taken.
login(d) ==
    /\ knows' = [knows EXCEPT ![d] = password]
    /\ UNCHANGED <<sessions, exempt, single, password, trust, stable, challenge,
                   pushBound, authOp, removed, floor>>

isFirstDevice == (\A d \in AuthDevices : trust[d] # "trusted") /\ \A r \in Rows : ~Live(r)

LetIn(d) == removed' = removed \ {d}

\* The password is right, the device is not known: its last challenge goes on,
\* or it gets one.
createChallenge(d) ==
    /\ challenge' = [challenge EXCEPT ![d].status = IF @ = "closed" THEN "PENDING" ELSE @]
    /\ UNCHANGED <<trust, removed, authOp>>

\* A day after the owner asked for it, the password alone is enough.
claimMaturedRecovery(d) ==
    /\ challenge[d].recovery
    /\ challenge' = [challenge EXCEPT ![d] = Closed]
    /\ LetIn(d)
    /\ authOp' = [kind |-> "recoverIssue", device |-> d]
    /\ UNCHANGED trust

\* A reinstalled application is recognised by the stable identifier a trusted
\* installation has registered, unless it was removed itself.
Reinstalled(d) == trust[d] = "unknown" /\ \E e \in AuthDevices : trust[e] = "trusted" /\ stable[e] = d

\* Under the lock the password is looked at again, and the device decides.
evaluateLogin(d) ==
    /\ LockFree /\ knows[d] = password
    /\ \/ /\ trust[d] = "trusted" \/ Reinstalled(d) \/ isFirstDevice
          /\ trust' = [trust EXCEPT ![d] = "trusted"]
          /\ IF isFirstDevice THEN UNCHANGED challenge ELSE cancelRecoveries(d)
          /\ LetIn(d)
          /\ authOp' = [kind |-> "issue", device |-> d]
       \/ /\ trust[d] # "trusted" /\ ~Reinstalled(d) /\ ~isFirstDevice
          /\ claimMaturedRecovery(d) \/ createChallenge(d)
    /\ knows' = [knows EXCEPT ![d] = -1]
    /\ UNCHANGED <<sessions, exempt, single, password, stable, pushBound, floor>>

\* Fault: the replaced sessions are revoked without advancing the scope.
replaceForSingleDevice_NoScope(d, family) ==
    /\ sessions' = Append([r \in Rows |-> IF Live(r) THEN Ended(r) ELSE sessions[r]],
                   NewRow(d, family, password))
    /\ exempt' = exempt

replaceForSingleDevice(d, family) ==
    /\ sessions' = Append(Revoked("AUDIENCE", Rows, NoFamily),
                          NewRow(d, family, password))
    /\ exempt' = [exempt EXCEPT !["AUDIENCE"] = family]

createAppSession(d) ==
    /\ Len(sessions) < MaxSessions
    /\ LET family == Len(sessions) + 1 IN
       IF single THEN replaceForSingleDevice(d, family)
       ELSE sessions' = Append(sessions, NewRow(d, family, password)) /\ UNCHANGED exempt

issueTokens ==
    /\ authOp.kind \in {"issue", "recoverIssue"}
    /\ createAppSession(authOp.device)
    /\ authOp' = IF authOp.kind = "issue" THEN NoAuthOp
                 ELSE [kind |-> "recoverSessions", device |-> authOp.device, row |-> Len(sessions')]
    /\ UNCHANGED <<single, password, trust, stable, challenge, pushBound, knows, removed, floor>>

\* completeRecoveryLogin: the device becomes the only one.  The new session is
\* issued first, the others end, and trust comes last.
recoverRevokeSessions ==
    /\ authOp.kind = "recoverSessions"
    /\ revokeOtherSessions(authOp.row)
    /\ authOp' = [authOp EXCEPT !.kind = "recoverDevices"]
    /\ UNCHANGED <<single, password, trust, stable, challenge, pushBound, knows, removed, floor>>

recoverRevokeDevices ==
    /\ authOp.kind = "recoverDevices"
    /\ revokeOtherDevices({authOp.device})
    /\ authOp' = [authOp EXCEPT !.kind = "recoverChallenges"]
    /\ UNCHANGED <<sessions, exempt, single, password, stable, challenge, knows, removed, floor>>

recoverInvalidate ==
    /\ authOp.kind = "recoverChallenges"
    /\ invalidateChallenges
    /\ authOp' = [authOp EXCEPT !.kind = "recoverTrust"]
    /\ UNCHANGED <<sessions, exempt, single, password, trust, stable, pushBound, knows, removed, floor>>

recoverTrust ==
    /\ authOp.kind = "recoverTrust"
    /\ trust' = [trust EXCEPT ![authOp.device] = "trusted"]
    /\ removed' = removed \cup (AuthDevices \ {authOp.device})
    /\ authOp' = NoAuthOp
    /\ UNCHANGED <<sessions, exempt, single, password, stable, challenge, pushBound, knows, floor>>

-----------------------------------------------------------------------------
(* Challenges.                                                              *)

requestRecovery(d) ==
    /\ LockFree /\ challenge[d].status \in Open
    /\ challenge' = [challenge EXCEPT ![d].recovery = TRUE]
    /\ UNCHANGED <<sessions, exempt, single, password, trust, stable,
                   pushBound, authOp, knows, removed, floor>>

assertTrustedApprover(e, d) ==
    /\ trust[e] = "trusted" /\ challenge[d].status \in Open
    /\ challenge' = [challenge EXCEPT ![d].approving = TRUE]
    /\ UNCHANGED <<sessions, exempt, single, password, trust, stable,
                   pushBound, authOp, knows, removed, floor>>

approve(d) ==
    /\ challenge[d].approving
    /\ challenge' = [challenge EXCEPT ![d].status = "APPROVED", ![d].approving = FALSE]
    /\ UNCHANGED <<sessions, exempt, single, password, trust, stable, pushBound, authOp,
                   knows, removed, floor>>

reject(e, d) ==
    /\ LockFree /\ trust[e] = "trusted" /\ challenge[d].status \in Open
    /\ challenge' = [challenge EXCEPT ![d] = Closed]
    /\ UNCHANGED <<sessions, exempt, single, password, trust, stable, pushBound,
                   authOp, knows, removed, floor>>

\* The code of an approved challenge, which may have gone stale and be asked
\* for again.
reopenIfCodeExpired(d) ==
    /\ LockFree /\ challenge[d].status = "APPROVED"
    /\ challenge' = [challenge EXCEPT ![d].status = "PENDING"]
    /\ UNCHANGED <<sessions, exempt, single, password, trust, stable, pushBound,
                   authOp, knows, removed, floor>>

\* A code shown by the approver ...
consumeWithCode(d) ==
    /\ LockFree /\ challenge[d].status = "APPROVED"
    /\ challenge' = [challenge EXCEPT ![d] = Closed]
    /\ authOp' = [kind |-> "verified", device |-> d]
    /\ UNCHANGED <<sessions, exempt, single, password, trust, stable, pushBound,
                   knows, removed, floor>>

\* ... or the owner's security code or questions.
consumeAfterSecurityCode(d) ==
    /\ LockFree /\ challenge[d].status \in Open
    /\ challenge' = [challenge EXCEPT ![d] = Closed]
    /\ authOp' = [kind |-> "verified", device |-> d]
    /\ UNCHANGED <<sessions, exempt, single, password, trust, stable, pushBound,
                   knows, removed, floor>>

completeVerifiedLogin ==
    /\ authOp.kind = "verified"
    /\ trust' = [trust EXCEPT ![authOp.device] = "trusted"]
    /\ LetIn(authOp.device)
    /\ authOp' = [authOp EXCEPT !.kind = "issue"]
    /\ UNCHANGED <<sessions, exempt, single, password, stable, challenge, pushBound, knows, floor>>

-----------------------------------------------------------------------------
(* Refresh and logout.                                                      *)

\* A device never seen before is recorded; a removed one stays removed.
trustOnRefresh(d, s) ==
    /\ trust' = IF trust[d] = "unknown" THEN [trust EXCEPT ![d] = "trusted"] ELSE trust
    /\ stable' = IF trust[d] = "revoked" \/ s = NoFamily THEN stable ELSE [stable EXCEPT ![d] = s]
    /\ IF trust[d] = "revoked" THEN UNCHANGED challenge ELSE cancelRecoveries(d)

\* A row that was rotated before, or has no reason noted, ends its family.
TokenFamilyReuse(r) ==
    /\ sessions[r].state \in {"ROTATED", "PASSWORD_RESET"}
    /\ sessions' = Revoked("FAMILY", FamilyOf(r), NoFamily)

rotateLocked(r) ==
    /\ Live(r) /\ Len(sessions) < MaxSessions
    /\ sessions' = Append([sessions EXCEPT ![r].state = "ROTATED"],
                          NewRow(sessions[r].device, sessions[r].family, sessions[r].password))

\* One transaction under both locks.
refreshLocked(r, s) ==
    /\ LockFree
    /\ \/ rotateLocked(r) /\ trustOnRefresh(sessions[r].device, s)
       \/ TokenFamilyReuse(r) /\ s = NoFamily /\ UNCHANGED <<trust, stable, challenge>>
    /\ UNCHANGED <<exempt, single, password, pushBound, authOp, knows, removed, floor>>

\* With the refresh token; takes no account lock.
revoke(r) ==
    /\ sessions' = Revoked("FAMILY", FamilyOf(r), NoFamily)
    /\ UNCHANGED <<exempt, single, password, trust, stable, challenge, pushBound,
                   authOp, knows, removed, floor>>

setSingleDeviceLogin(r, enabled) ==
    /\ verifyInDatabase(r)
    /\ single' = enabled
    /\ IF enabled THEN revokeOtherSessions(r) ELSE UNCHANGED <<sessions, exempt>>
    /\ UNCHANGED <<password, trust, stable, challenge, pushBound, authOp, knows, removed, floor>>

-----------------------------------------------------------------------------
(* Removing devices, under the lock: one transaction after another.         *)

\* The device of row x is removed from row r's; a row of the same device is
\* ended alone.
logoutSession(r, x) ==
    /\ LockFree /\ verifyInDatabase(r) /\ x # r
    /\ sessions' = Revoked("FAMILY", FamilyOf(x), NoFamily)
    /\ authOp' = IF sessions[x].device = sessions[r].device THEN NoAuthOp
                 ELSE [kind |-> "removeSessions", device |-> sessions[x].device]
    /\ UNCHANGED <<exempt, single, password, trust, stable, challenge, pushBound,
                   knows, removed, floor>>

\* Fault: only the family of the session that was picked is ended.
revokeDeviceSessions_None ==
    /\ authOp.kind = "removeSessions"
    /\ authOp' = [authOp EXCEPT !.kind = "removeTrust"]
    /\ UNCHANGED <<sessions, exempt, single, password, trust, stable, challenge, pushBound,
                   knows, removed, floor>>

revokeDeviceSessions ==
    /\ authOp.kind = "removeSessions"
    /\ sessions' = Revoked("DEVICE", {y \in Rows : sessions[y].device = authOp.device},
                           NoFamily)
    /\ authOp' = [authOp EXCEPT !.kind = "removeTrust"]
    /\ UNCHANGED <<exempt, single, password, trust, stable, challenge, pushBound,
                   knows, removed, floor>>

revokeDevice ==
    /\ authOp.kind = "removeTrust"
    /\ revokeOtherDevices(AuthDevices \ {authOp.device})
    /\ authOp' = [kind |-> "removeChallenges", gone |-> {authOp.device}]
    /\ UNCHANGED <<sessions, exempt, single, password, stable, challenge, knows, removed, floor>>

logoutOtherSessions(r) ==
    /\ LockFree /\ verifyInDatabase(r)
    /\ revokeOtherSessions(r)
    /\ authOp' = [kind |-> "othersTrust", keep |-> {sessions[r].device}]
    /\ UNCHANGED <<single, password, trust, stable, challenge, pushBound, knows, removed, floor>>

othersTrust ==
    /\ authOp.kind = "othersTrust"
    /\ revokeOtherDevices(authOp.keep)
    /\ authOp' = [kind |-> "removeChallenges", gone |-> AuthDevices \ authOp.keep]
    /\ UNCHANGED <<sessions, exempt, single, password, stable, challenge, knows, removed, floor>>

removeChallenges ==
    /\ authOp.kind = "removeChallenges"
    /\ invalidateChallenges
    /\ removed' = removed \cup authOp.gone
    /\ authOp' = NoAuthOp
    /\ UNCHANGED <<sessions, exempt, single, password, trust, stable, pushBound, knows, floor>>

\* logoutAll and changePassword keep the trust of the device they come from.
logoutAll(r) ==
    /\ LockFree /\ verifyInDatabase(r)
    /\ authOp' = [kind |-> "allTrust", keep |-> {sessions[r].device}, floor |-> floor]
    /\ UNCHANGED <<sessions, exempt, single, password, trust, stable, challenge, pushBound,
                   knows, removed, floor>>

changePassword(r) ==
    /\ LockFree /\ verifyInDatabase(r) /\ password < MaxPasswords
    /\ password' = password + 1
    /\ authOp' = [kind |-> "allTrust", keep |-> {sessions[r].device}, floor |-> password + 1]
    /\ UNCHANGED <<sessions, exempt, single, trust, stable, challenge, pushBound,
                   knows, removed, floor>>

allTrust ==
    /\ authOp.kind = "allTrust"
    /\ revokeOtherDevices(authOp.keep)
    /\ authOp' = [authOp EXCEPT !.kind = "allChallenges"]
    /\ UNCHANGED <<sessions, exempt, single, password, stable, challenge, knows, removed, floor>>

allChallenges ==
    /\ authOp.kind = "allChallenges"
    /\ invalidateChallenges
    /\ authOp' = [authOp EXCEPT !.kind = "allSessions"]
    /\ UNCHANGED <<sessions, exempt, single, password, trust, stable, pushBound, knows, removed, floor>>

allSessions ==
    /\ authOp.kind = "allSessions"
    /\ revokeAll
    /\ removed' = removed \cup (AuthDevices \ authOp.keep)
    /\ floor' = authOp.floor
    /\ authOp' = NoAuthOp
    /\ UNCHANGED <<exempt, single, password, trust, stable, challenge, pushBound, knows>>

\* Password and sessions in one transaction, then all trust and challenges.
resetPassword ==
    /\ LockFree /\ password < MaxPasswords
    /\ password' = password + 1 /\ floor' = password + 1
    /\ sessions' = [r \in Rows |-> [sessions[r] EXCEPT !.cut = TRUE,
                                      !.state = IF Live(r) THEN "PASSWORD_RESET" ELSE @]]
    /\ authOp' = [kind |-> "othersTrust", keep |-> {}]
    /\ UNCHANGED <<exempt, single, trust, stable, challenge, pushBound, knows, removed>>

\* A transaction fails or the process dies: what was done stays, the lock is
\* released; a failed recovery can be claimed again.
AuthOpFails ==
    /\ ~LockFree /\ authOp' = NoAuthOp
    /\ \/ UNCHANGED challenge
       \/ /\ authOp.kind \in {"recoverIssue", "recoverSessions", "recoverDevices",
                              "recoverChallenges", "recoverTrust"}
          /\ challenge' = [challenge EXCEPT ![authOp.device] =
                             [Closed EXCEPT !.status = "PENDING", !.recovery = TRUE]]
    /\ UNCHANGED <<sessions, exempt, single, password, trust, stable, pushBound,
                   knows, removed, floor>>

\* A push token is bound to the device of a session that is still going on.
bindPushToken(r) ==
    /\ LockFree
    /\ Live(r) \/ (sessions[r].state = "ROTATED" /\
                   \E x \in Rows : Live(x) /\ sessions[x].family = sessions[r].family)
    /\ trust[sessions[r].device] = "trusted"
    /\ pushBound' = pushBound \cup {sessions[r].device}
    /\ UNCHANGED <<sessions, exempt, single, password, trust, stable, challenge,
                   authOp, knows, removed, floor>>

SessionInit ==
    /\ authOps \in AuthProfiles /\ authEvents = 0
    /\ sessions = <<>> /\ exempt = [s \in Scopes |-> NoFamily] /\ single = FALSE
    /\ password = 0 /\ floor = 0
    /\ trust = [d \in AuthDevices |-> "unknown"] /\ stable = [d \in AuthDevices |-> NoFamily]
    /\ challenge = [d \in AuthDevices |-> Closed]
    /\ pushBound = {} /\ removed = {}
    /\ authOp = NoAuthOp
    /\ knows = [d \in AuthDevices |-> -1]

\* The transactions that follow the first of an operation.
Continue ==
    \/ issueTokens \/ completeVerifiedLogin
    \/ recoverRevokeSessions \/ recoverRevokeDevices \/ recoverInvalidate \/ recoverTrust
    \/ revokeDeviceSessions \/ revokeDevice \/ othersTrust \/ removeChallenges
    \/ allTrust \/ allChallenges \/ allSessions

\* The first transactions of the operations that end something, and failures.
AuthEvent ==
    \/ AuthOpFails
    \/ "resetPassword" \in authOps /\ resetPassword
    \/ \E d, e \in AuthDevices : "approval" \in authOps /\ reject(e, d)
    \/ \E r \in Rows :
          \/ revoke(r)
          \/ "logoutOthers" \in authOps /\ logoutOtherSessions(r)
          \/ "logoutAll" \in authOps /\ logoutAll(r)
          \/ "changePassword" \in authOps /\ changePassword(r)
          \/ \E enabled \in BOOLEAN : "single" \in authOps /\ setSingleDeviceLogin(r, enabled)
          \/ \E x \in Rows : "logoutSession" \in authOps /\ logoutSession(r, x)

SessionNext ==
    /\ UNCHANGED authOps
    /\ \/ authEvents < MaxAuthEvents /\ authEvents' = authEvents + 1 /\ AuthEvent
       \/ /\ UNCHANGED authEvents
          /\ \/ Continue
             \/ \E d \in AuthDevices :
                   \/ login(d) \/ evaluateLogin(d)
                   \/ "securityCode" \in authOps /\ consumeAfterSecurityCode(d)
                   \/ "recovery" \in authOps /\ requestRecovery(d)
                   \/ "approval" \in authOps /\ (approve(d) \/ consumeWithCode(d) \/ reopenIfCodeExpired(d))
                   \/ \E e \in AuthDevices : "approval" \in authOps /\ assertTrustedApprover(e, d)
             \/ \E r \in Rows :
                   \/ \E s \in {NoFamily} \cup IF "reinstall" \in authOps THEN AuthDevices ELSE {} :
                         refreshLocked(r, s)
                   \/ "push" \in authOps /\ bindPushToken(r)

SessionSpec == SessionInit /\ [][SessionNext]_sessionVars

-----------------------------------------------------------------------------
(* Properties.                                                              *)

\* While single device login is on, the access tokens that pass verification
\* belong to one login: through rotations, replays, exemptions that later
\* operations overwrite, and ROTATED rows whose own revocation is never
\* written.
OneLoginWhenSingle ==
    single => \A r, x \in Rows :
        verifyInDatabase(r) /\ verifyInDatabase(x) => sessions[r].family = sessions[x].family

\* A device removed in device management has no session that can be refreshed,
\* no push token and no trust, until it is let in again as a verified, first or
\* recovering device.
RemovedStaysOut ==
    LockFree => \A d \in removed :
        /\ trust[d] # "trusted" /\ d \notin pushBound
        /\ \A r \in Rows : sessions[r].device = d => ~Live(r)

\* Once a change of password is complete nothing that began with an older one
\* is accepted, not even a login whose password was compared before it.
PasswordEndsSessions ==
    LockFree => \A r \in Rows : verifyInDatabase(r) => sessions[r].password >= floor
=============================================================================
