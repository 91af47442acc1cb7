---------------------------- MODULE SessionsProofs ----------------------------
(* Proofs about Sessions, for any number of devices, rows and operations:   *)
(* one login while single device login is on, a removed device stays out,   *)
(* and a change of password ends what began with an older one.              *)
(*                                                                          *)
(* The argument: the removals of devices are several transactions long, and *)
(* between them logout, the single device switch, approvals and failures    *)
(* come in.  None of those reaches more devices (Reached): none makes a row *)
(* live, a device trusted or a push token bound.  So what the operation     *)
(* that holds the lock has achieved so far (OpKnows) is still so when it    *)
(* takes its next step.                                                     *)
EXTENDS Sessions, SequenceTheorems, TLAPS

-----------------------------------------------------------------------------
(* The inductive invariant.                                                 *)

RowRecords == [state : {"LIVE", "ROTATED", "ENDED", "PASSWORD_RESET"}, family : Nat,
               device : AuthDevices, stale : SUBSET {"ACCOUNT", "AUDIENCE", "FAMILY", "DEVICE"},
               cut : BOOLEAN, password : Nat]
Challenges == [status : {"PENDING", "APPROVED", "closed"}, recovery : BOOLEAN, approving : BOOLEAN]

\* What holds the lock.
RecoverKinds == {"recoverSessions", "recoverDevices", "recoverChallenges", "recoverTrust"}
AuthOperations ==
    {NoAuthOp}
    \cup [kind : {"issue", "recoverIssue", "verified", "removeSessions", "removeTrust"},
          device : AuthDevices]
    \cup [kind : RecoverKinds, device : AuthDevices, row : Nat]
    \cup [kind : {"othersTrust"}, keep : SUBSET AuthDevices]
    \cup [kind : {"removeChallenges"}, gone : SUBSET AuthDevices]
    \cup [kind : {"allTrust", "allChallenges", "allSessions"}, keep : SUBSET AuthDevices, floor : Nat]

RowsType ==
    /\ sessions \in Seq(RowRecords)
    /\ exempt \in [Scopes -> Nat \cup {NoFamily}]
    /\ single \in BOOLEAN
    /\ password \in Nat /\ floor \in Nat

DeviceType ==
    /\ trust \in [AuthDevices -> {"unknown", "trusted", "revoked"}]
    /\ stable \in [AuthDevices -> AuthDevices \cup {NoFamily}]
    /\ challenge \in [AuthDevices -> Challenges]
    /\ pushBound \in SUBSET AuthDevices
    /\ authOp \in AuthOperations
    /\ knows \in [AuthDevices -> Nat \cup {-1}]
    /\ removed \in SUBSET AuthDevices

\* A family is one login, on one device.
Families ==
    /\ \A r \in Rows : sessions[r].family \in 1..Len(sessions)
    /\ \A r, x \in Rows : sessions[r].family = sessions[x].family =>
                             sessions[r].device = sessions[x].device

\* A row that can be refreshed is one that is accepted.
LiveAccepted == \A r \in Rows : Live(r) => verifyInDatabase(r)

\* A password that is no longer good opens nothing, also while it is being
\* changed.
OldIsCut ==
    /\ floor <= password
    /\ \A r \in Rows : sessions[r].password < floor =>
          sessions[r].cut \/ sessions[r].state \notin {"LIVE", "ROTATED"}

RowsInv == RowsType /\ Families /\ LiveAccepted /\ OneLoginWhenSingle /\ OldIsCut

\* Devices that are still served in some way.
LiveDevices == {d \in AuthDevices : \E r \in Rows : Live(r) /\ sessions[r].device = d}
Trusted == {d \in AuthDevices : trust[d] = "trusted"}
Reached == LiveDevices \cup pushBound \cup Trusted

\* What the operation that holds the lock has done so far.
OpKnows ==
    /\ authOp.kind \in {"issue", "recoverIssue"} \cup RecoverKinds => authOp.device \notin removed
    /\ authOp.kind = "recoverSessions" =>
          authOp.row \in Rows /\ sessions[authOp.row].device = authOp.device
    /\ authOp.kind \in {"recoverDevices", "recoverChallenges", "recoverTrust"} =>
          LiveDevices \subseteq {authOp.device}
    /\ authOp.kind \in {"recoverChallenges", "recoverTrust"} => Reached \subseteq {authOp.device}
    /\ authOp.kind = "removeTrust" => authOp.device \notin LiveDevices
    /\ authOp.kind = "removeChallenges" => authOp.gone \cap Reached = {}
    /\ authOp.kind = "othersTrust" => LiveDevices \subseteq authOp.keep
    /\ authOp.kind \in {"allTrust", "allChallenges", "allSessions"} => authOp.floor <= password
    /\ authOp.kind \in {"allChallenges", "allSessions"} => Trusted \cup pushBound \subseteq authOp.keep

RemovedOut == removed \cap Reached = {}

SessionInv == DeviceType /\ RowsInv /\ OpKnows /\ RemovedOut

-----------------------------------------------------------------------------
(* The rows.                                                                *)

AllScopes == {"ACCOUNT", "AUDIENCE", "FAMILY", "DEVICE"}

LEMMA RowsAre ==
    ASSUME RowsType
    PROVE  /\ Len(sessions) \in Nat /\ Rows = 1..Len(sessions)
           /\ \A r \in Rows :
                 /\ sessions[r] \in RowRecords
                 /\ sessions[r].state \in {"LIVE", "ROTATED", "ENDED", "PASSWORD_RESET"}
                 /\ sessions[r].family \in Nat /\ sessions[r].family # NoFamily
                 /\ sessions[r].device \in AuthDevices /\ sessions[r].password \in Nat
                 /\ sessions[r].cut \in BOOLEAN /\ sessions[r].stale \in SUBSET AllScopes
  <1>1. Len(sessions) \in Nat /\ Rows = 1..Len(sessions)
    BY LenProperties DEF RowsType, Rows
  <1>2. \A r \in Rows : sessions[r] \in RowRecords
    BY <1>1, ElementOfSeq DEF RowsType
  <1>3. \A r \in Rows : sessions[r].family \in Nat
    BY <1>2 DEF RowRecords
  <1> QED BY <1>1, <1>2, <1>3, NoFamilyAssumption DEF RowRecords, AllScopes

\* Rows that are written again: login, device and password stay, and no row
\* comes back.
Fades ==
    /\ sessions' \in Seq(RowRecords) /\ Len(sessions') = Len(sessions)
    /\ \A r \in Rows :
          /\ sessions'[r].family = sessions[r].family /\ sessions'[r].device = sessions[r].device
          /\ sessions'[r].password = sessions[r].password
          /\ sessions[r].cut => sessions'[r].cut
          /\ sessions'[r].state \in {sessions[r].state, "ENDED", "PASSWORD_RESET"}

LEMMA Rewritten ==
    ASSUME RowsType, sessions' \in [Rows -> RowRecords]
    PROVE  sessions' \in Seq(RowRecords) /\ Len(sessions') = Len(sessions) /\ Rows' = Rows
  <1>1. Len(sessions) \in Nat /\ Rows = 1..Len(sessions)
    BY RowsAre
  <1>2. sessions' \in [1..Len(sessions) -> RowRecords]
    BY <1>1
  <1>3. sessions' \in Seq(RowRecords)
    BY <1>1, <1>2, SeqDef
  <1>4. DOMAIN sessions' = 1..Len(sessions') /\ Len(sessions') \in Nat
    BY <1>3, LenProperties
  <1>5. Len(sessions') = Len(sessions)
    BY <1>1, <1>2, <1>4
  <1> QED BY <1>1, <1>3, <1>4, <1>5 DEF Rows

\* What stays so when rows fade.
LEMMA Fading ==
    ASSUME RowsInv, Fades, floor' <= password', floor' = floor, password' \in Nat
    PROVE  /\ Rows' = Rows /\ Families' /\ OldIsCut' /\ LiveDevices' \subseteq LiveDevices
           /\ \A r \in Rows : Live(r)' => Live(r)
  <1>1. Len(sessions) \in Nat /\ Rows = 1..Len(sessions)
    BY RowsAre DEF RowsInv
  <1>2. Rows' = Rows /\ Len(sessions') = Len(sessions)
    BY <1>1, LenProperties DEF Fades, Rows
  <1>3. Families'
    BY <1>2 DEF RowsInv, Families, Fades
  <1>4. OldIsCut'
    <2>1. ASSUME NEW r \in Rows, sessions'[r].password < floor'
          PROVE  sessions'[r].cut \/ sessions'[r].state \notin {"LIVE", "ROTATED"}
      <3>1. sessions[r].password < floor
        BY <2>1 DEF Fades
      <3>2. sessions[r].cut \/ sessions[r].state \notin {"LIVE", "ROTATED"}
        BY <3>1 DEF RowsInv, OldIsCut
      <3> QED BY <3>2 DEF Fades
    <2> QED BY <1>2, <2>1 DEF OldIsCut
  <1>5. \A r \in Rows : Live(r)' => Live(r)
    BY <1>2 DEF Fades, Live
  <1>6. LiveDevices' \subseteq LiveDevices
    BY <1>2, <1>5 DEF LiveDevices, Fades
  <1> QED BY <1>2, <1>3, <1>4, <1>5, <1>6

LEMMA RevokedAre ==
    ASSUME RowsType, NEW scope \in AllScopes, NEW rows, NEW keep,
           NEW after, after = Revoked(scope, rows, keep)
    PROVE  /\ after \in [Rows -> RowRecords]
           /\ \A r \in Rows :
                 /\ after[r].family = sessions[r].family /\ after[r].device = sessions[r].device
                 /\ after[r].password = sessions[r].password /\ after[r].cut = sessions[r].cut
                 /\ r \notin rows => after[r] = sessions[r]
                 /\ r \in rows =>
                       \/ Live(r) /\ sessions[r].family # keep /\ after[r].state = "ENDED"
                       \/ /\ ~Live(r) \/ sessions[r].family = keep
                          /\ after[r].state = sessions[r].state
                          /\ after[r].stale = sessions[r].stale \cup {scope}
  <1> DEFINE row(r) ==
        IF r \notin rows THEN sessions[r]
        ELSE IF Live(r) /\ sessions[r].family # keep THEN Ended(r)
        ELSE [sessions[r] EXCEPT !.stale = @ \cup {scope}]
  <1>1. ASSUME NEW r \in Rows
        PROVE  /\ row(r) \in RowRecords
               /\ row(r).family = sessions[r].family /\ row(r).device = sessions[r].device
               /\ row(r).password = sessions[r].password /\ row(r).cut = sessions[r].cut
               /\ r \notin rows => row(r) = sessions[r]
               /\ r \in rows =>
                     \/ Live(r) /\ sessions[r].family # keep /\ row(r).state = "ENDED"
                     \/ /\ ~Live(r) \/ sessions[r].family = keep
                        /\ row(r).state = sessions[r].state
                        /\ row(r).stale = sessions[r].stale \cup {scope}
    <2>1. sessions[r] \in RowRecords /\ sessions[r].stale \in SUBSET AllScopes
      BY RowsAre
    <2>2. CASE r \notin rows
      BY <2>1, <2>2
    <2>3. CASE r \in rows /\ Live(r) /\ sessions[r].family # keep
      <3>1. row(r) = Ended(r)
        BY <2>3
      <3>2. /\ Ended(r) \in RowRecords /\ Ended(r).state = "ENDED"
            /\ Ended(r).family = sessions[r].family /\ Ended(r).device = sessions[r].device
            /\ Ended(r).password = sessions[r].password /\ Ended(r).cut = sessions[r].cut
        BY <2>1 DEF Ended, RowRecords
      <3> QED BY <2>3, <3>1, <3>2
    <2>4. CASE r \in rows /\ (~Live(r) \/ sessions[r].family = keep)
      <3>1. row(r) = [sessions[r] EXCEPT !.stale = sessions[r].stale \cup {scope}]
        BY <2>1, <2>4 DEF RowRecords
      <3> HIDE DEF row
      <3>2. sessions[r].stale \cup {scope} \in SUBSET AllScopes
        BY <2>1
      <3>3. /\ row(r) \in RowRecords /\ row(r).state = sessions[r].state
            /\ row(r).family = sessions[r].family /\ row(r).device = sessions[r].device
            /\ row(r).password = sessions[r].password /\ row(r).cut = sessions[r].cut
            /\ row(r).stale = sessions[r].stale \cup {scope}
        BY <2>1, <3>1, <3>2 DEF RowRecords, AllScopes
      <3> QED BY <2>4, <3>3
    <2> QED BY <2>2, <2>3, <2>4
  <1>2. after = [r \in Rows |-> row(r)]
    BY DEF Revoked
  <1> HIDE DEF row
  <1>3. after \in [Rows -> RowRecords] /\ \A r \in Rows : after[r] = row(r)
    BY <1>1, <1>2
  <1> QED BY <1>1, <1>3

LEMMA RevokedRows ==
    ASSUME RowsType, NEW scope \in AllScopes, NEW rows, NEW keep,
           sessions' = Revoked(scope, rows, keep)
    PROVE  /\ Fades /\ Rows' = Rows
           /\ \A r \in Rows :
                 /\ sessions'[r].cut = sessions[r].cut
                 /\ r \notin rows => sessions'[r] = sessions[r]
                 /\ r \in rows =>
                       \/ Live(r) /\ sessions[r].family # keep /\ sessions'[r].state = "ENDED"
                       \/ /\ ~Live(r) \/ sessions[r].family = keep
                          /\ sessions'[r].state = sessions[r].state
                          /\ sessions'[r].stale = sessions[r].stale \cup {scope}
  <1>1. PICK after : after = Revoked(scope, rows, keep)
    OBVIOUS
  <1>2. /\ after \in [Rows -> RowRecords]
        /\ \A r \in Rows :
              /\ after[r].family = sessions[r].family /\ after[r].device = sessions[r].device
              /\ after[r].password = sessions[r].password /\ after[r].cut = sessions[r].cut
              /\ r \notin rows => after[r] = sessions[r]
              /\ r \in rows =>
                    \/ Live(r) /\ sessions[r].family # keep /\ after[r].state = "ENDED"
                    \/ /\ ~Live(r) \/ sessions[r].family = keep
                       /\ after[r].state = sessions[r].state
                       /\ after[r].stale = sessions[r].stale \cup {scope}
    BY <1>1, RevokedAre
  <1>3. sessions' = after
    BY <1>1
  <1>4. sessions' \in Seq(RowRecords) /\ Len(sessions') = Len(sessions) /\ Rows' = Rows
    BY <1>2, <1>3, Rewritten
  <1>5. ASSUME NEW r \in Rows PROVE after[r].state \in {sessions[r].state, "ENDED"}
    <2>1. CASE r \notin rows
      BY <1>2, <2>1
    <2>2. CASE r \in rows
      BY <1>2, <2>2
    <2> QED BY <2>1, <2>2
  <1>6. Fades
    BY <1>2, <1>3, <1>4, <1>5 DEF Fades
  <1> QED BY <1>2, <1>3, <1>4, <1>6

\* Families, or the rows of a device, end.
LEMMA FamilyEnds ==
    ASSUME RowsInv, NEW scope \in {"FAMILY", "DEVICE"}, NEW rows,
           sessions' = Revoked(scope, rows, NoFamily),
           UNCHANGED <<exempt, single, password, floor>>
    PROVE  /\ RowsInv' /\ Fades /\ Rows' = Rows /\ LiveDevices' \subseteq LiveDevices
           /\ \A r \in Rows : r \in rows => ~Live(r)'
  <1>1. /\ Fades /\ Rows' = Rows
        /\ \A r \in Rows :
              /\ sessions'[r].cut = sessions[r].cut
              /\ r \notin rows => sessions'[r] = sessions[r]
              /\ r \in rows =>
                    \/ Live(r) /\ sessions[r].family # NoFamily /\ sessions'[r].state = "ENDED"
                    \/ /\ ~Live(r) \/ sessions[r].family = NoFamily
                       /\ sessions'[r].state = sessions[r].state
                       /\ sessions'[r].stale = sessions[r].stale \cup {scope}
    BY RevokedRows DEF RowsInv, AllScopes
  <1>2. Families' /\ OldIsCut' /\ LiveDevices' \subseteq LiveDevices
    <2>1. floor' <= password' /\ floor' = floor /\ password' \in Nat
      BY DEF RowsInv, RowsType, OldIsCut
    <2> QED BY <1>1, <2>1, Fading
  <1>3. RowsType'
    BY <1>1 DEF RowsInv, RowsType, Fades
  <1>4. \A r \in Rows : sessions[r].family # NoFamily
    BY RowsAre DEF RowsInv
  <1>5. \A r \in Rows : r \in rows => ~Live(r)'
    BY <1>1, <1>4 DEF Live
  <1>6. ASSUME NEW r \in Rows, verifyInDatabase(r)'
        PROVE  verifyInDatabase(r) /\ sessions'[r] = sessions[r]
    <2>1. r \notin rows
      <3>1. ASSUME r \in rows, sessions'[r].state = "ENDED" PROVE FALSE
        BY <1>6, <3>1 DEF verifyInDatabase
      <3>2. ASSUME scope \in sessions'[r].stale PROVE FALSE
        BY <1>6, <3>2 DEF verifyInDatabase, Scopes
      <3> QED BY <1>1, <3>1, <3>2
    <2>2. sessions'[r] = sessions[r]
      BY <1>1, <2>1
    <2> QED BY <1>6, <2>2 DEF verifyInDatabase
  <1>7. LiveAccepted'
    <2>1. ASSUME NEW r \in Rows, Live(r)' PROVE verifyInDatabase(r)'
      <3>1. sessions'[r] = sessions[r] /\ Live(r)
        BY <1>1, <1>5, <2>1 DEF Live
      <3>2. verifyInDatabase(r)
        BY <3>1 DEF RowsInv, LiveAccepted
      <3> QED BY <3>1, <3>2 DEF verifyInDatabase
    <2> QED BY <1>1, <2>1 DEF LiveAccepted
  <1>8. OneLoginWhenSingle'
    <2>1. ASSUME single', NEW r \in Rows, NEW x \in Rows, verifyInDatabase(r)', verifyInDatabase(x)'
          PROVE  sessions'[r].family = sessions'[x].family
      <3>1. single
        BY <2>1
      <3>2. sessions[r].family = sessions[x].family
        BY <1>6, <2>1, <3>1 DEF RowsInv, OneLoginWhenSingle
      <3> QED BY <1>6, <2>1, <3>2
    <2> QED BY <1>1, <2>1 DEF OneLoginWhenSingle
  <1> QED BY <1>1, <1>2, <1>3, <1>5, <1>7, <1>8 DEF RowsInv

\* All logins but one end.
LEMMA OthersEnd ==
    ASSUME RowsInv, NEW r \in Rows, revokeOtherSessions(r), single' \in BOOLEAN,
           UNCHANGED <<password, floor>>
    PROVE  /\ RowsInv' /\ Fades /\ Rows' = Rows
           /\ LiveDevices' \subseteq LiveDevices \cap {sessions[r].device}
  <1> DEFINE family == sessions[r].family
  <1>1. /\ sessions' = Revoked("ACCOUNT", Rows, family)
        /\ exempt' = [exempt EXCEPT !["ACCOUNT"] = family]
    BY DEF revokeOtherSessions
  <1>2. family \in Nat /\ exempt \in [Scopes -> Nat \cup {NoFamily}] /\ "ACCOUNT" \in Scopes
    BY RowsAre DEF RowsInv, RowsType, Scopes
  <1>3. /\ exempt' \in [Scopes -> Nat \cup {NoFamily}] /\ exempt'["ACCOUNT"] = family
        /\ \A s \in Scopes \ {"ACCOUNT"} : exempt'[s] = exempt[s]
    BY <1>1, <1>2
  <1>4. /\ Fades /\ Rows' = Rows
        /\ \A x \in Rows :
              /\ sessions'[x].cut = sessions[x].cut
              /\ \/ Live(x) /\ sessions[x].family # family /\ sessions'[x].state = "ENDED"
                 \/ /\ ~Live(x) \/ sessions[x].family = family
                    /\ sessions'[x].state = sessions[x].state
                    /\ sessions'[x].stale = sessions[x].stale \cup {"ACCOUNT"}
    BY <1>1, RevokedRows DEF RowsInv, AllScopes
  <1>5. Families' /\ OldIsCut' /\ LiveDevices' \subseteq LiveDevices
    <2>1. floor' <= password' /\ floor' = floor /\ password' \in Nat
      BY DEF RowsInv, RowsType, OldIsCut
    <2> QED BY <1>4, <2>1, Fading
  <1>6. RowsType'
    BY <1>3, <1>4 DEF RowsInv, RowsType, Fades
  <1>7. \A x \in Rows : sessions'[x].family = sessions[x].family /\ sessions'[x].device = sessions[x].device
    BY <1>4 DEF Fades
  <1> HIDE DEF family
  <1>8. ASSUME NEW x \in Rows, Live(x)' PROVE Live(x) /\ sessions[x].family = family
    BY <1>4, <1>8 DEF Live
  <1>9. LiveAccepted'
    <2>1. ASSUME NEW x \in Rows, Live(x)' PROVE verifyInDatabase(x)'
      <3>1. Live(x) /\ sessions[x].family = family /\ sessions'[x].family = family
        BY <1>7, <1>8, <2>1
      <3>2. verifyInDatabase(x)
        BY <3>1 DEF RowsInv, LiveAccepted
      <3>3. sessions'[x].stale = sessions[x].stale \cup {"ACCOUNT"}
        BY <1>4, <3>1
      <3>4. ~sessions'[x].cut
        BY <1>4, <3>2 DEF verifyInDatabase
      <3>5. sessions'[x].state \in {"LIVE", "ROTATED"}
        BY <2>1 DEF Live
      <3>6. ASSUME NEW s \in sessions'[x].stale
            PROVE  s \in Scopes /\ exempt'[s] = sessions'[x].family
        <4>1. CASE s = "ACCOUNT"
          BY <1>2, <1>3, <3>1, <4>1
        <4>2. CASE s # "ACCOUNT"
          <5>1. s \in Scopes /\ exempt[s] = family
            BY <3>1, <3>2, <3>3, <3>6, <4>2 DEF verifyInDatabase
          <5> QED BY <1>3, <3>1, <4>2, <5>1
        <4> QED BY <4>1, <4>2
      <3> QED BY <3>4, <3>5, <3>6 DEF verifyInDatabase
    <2> QED BY <1>4, <2>1 DEF LiveAccepted
  <1>10. OneLoginWhenSingle'
    <2>1. ASSUME NEW x \in Rows, verifyInDatabase(x)' PROVE sessions'[x].family = family
      <3>1. sessions'[x].state \in {"LIVE", "ROTATED"}
        BY <2>1 DEF verifyInDatabase
      <3>2. CASE sessions'[x].stale = sessions[x].stale \cup {"ACCOUNT"}
        <4>1. "ACCOUNT" \in sessions'[x].stale
          BY <3>2
        <4> QED BY <1>3, <2>1, <4>1 DEF verifyInDatabase
      <3> QED BY <1>4, <3>1, <3>2
    <2> QED BY <1>4, <2>1 DEF OneLoginWhenSingle
  <1>11. LiveDevices' \subseteq {sessions[r].device}
    <2>1. \A x \in Rows : Live(x)' => sessions'[x].device = sessions[r].device
      BY <1>7, <1>8 DEF RowsInv, Families, family
    <2> QED BY <1>4, <2>1 DEF LiveDevices
  <1> QED BY <1>4, <1>5, <1>6, <1>9, <1>10, <1>11 DEF RowsInv

\* All logins end, and what is left of them is cut off.
LEMMA AllEnd ==
    ASSUME RowsInv, sessions' \in [Rows -> RowRecords],
           \A r \in Rows :
              /\ sessions'[r].family = sessions[r].family
              /\ sessions'[r].device = sessions[r].device
              /\ sessions'[r].state # "LIVE"
              /\ sessions'[r].cut \/ sessions'[r].state # "ROTATED",
           UNCHANGED <<exempt, single>>, password' \in Nat, floor' \in Nat, floor' <= password'
    PROVE  RowsInv' /\ Rows' = Rows /\ LiveDevices' = {}
  <1>1. sessions' \in Seq(RowRecords) /\ Len(sessions') = Len(sessions) /\ Rows' = Rows
    BY Rewritten DEF RowsInv
  <1>2. RowsType'
    BY <1>1 DEF RowsInv, RowsType
  <1>3. Families'
    BY <1>1 DEF RowsInv, Families
  <1>4. \A r \in Rows : ~Live(r)' /\ ~verifyInDatabase(r)'
    BY <1>1 DEF Live, verifyInDatabase
  <1>5. LiveAccepted' /\ OneLoginWhenSingle' /\ LiveDevices' = {}
    BY <1>1, <1>4 DEF LiveAccepted, OneLoginWhenSingle, LiveDevices
  <1>6. OldIsCut'
    BY <1>1 DEF OldIsCut
  <1> QED BY <1>1, <1>2, <1>3, <1>5, <1>6 DEF RowsInv

\* A row is added to rows that may have been written again.
LEMMA Appended ==
    ASSUME RowsType, NEW after \in [Rows -> RowRecords], NEW row \in RowRecords,
           sessions' = Append(after, row), NEW n, n = Len(sessions) + 1
    PROVE  /\ sessions' \in Seq(RowRecords) /\ Len(sessions') = n /\ n \in Nat \ {0}
           /\ Rows' = Rows \cup {n} /\ n \notin Rows /\ Rows = 1..(n - 1)
           /\ \A r \in Rows : sessions'[r] = after[r]
           /\ sessions'[n] = row
  <1>1. Len(sessions) \in Nat /\ Rows = 1..Len(sessions)
    BY RowsAre
  <1>2. after \in Seq(RowRecords) /\ Len(after) = Len(sessions)
    <2>1. after \in Seq(RowRecords)
      BY <1>1, SeqDef
    <2>2. DOMAIN after = 1..Len(after) /\ Len(after) \in Nat
      BY <2>1, LenProperties
    <2> QED BY <1>1, <2>1, <2>2
  <1>3. /\ sessions' \in Seq(RowRecords) /\ Len(sessions') = n
        /\ \A r \in 1..Len(after) : sessions'[r] = after[r]
        /\ sessions'[n] = row
    BY <1>1, <1>2, AppendProperties
  <1>4. Rows' = 1..n
    BY <1>3, LenProperties DEF Rows
  <1> QED BY <1>1, <1>2, <1>3, <1>4

\* A login.
LEMMA Issued ==
    ASSUME RowsInv, NEW d \in AuthDevices, createAppSession(d), UNCHANGED <<single, password, floor>>
    PROVE  /\ RowsInv' /\ LiveDevices' \subseteq LiveDevices \cup {d}
           /\ Len(sessions') \in Rows' /\ sessions'[Len(sessions')].device = d
  <1>1. PICK n : n = Len(sessions) + 1
    OBVIOUS
  <1>2. n \in Nat /\ RowsType /\ floor <= password /\ password \in Nat /\ floor \in Nat
    BY <1>1, RowsAre DEF RowsInv, RowsType, OldIsCut
  <1>3. PICK row : row = NewRow(d, n, password)
    OBVIOUS
  <1>4. /\ row \in RowRecords /\ row.state = "LIVE" /\ row.family = n /\ row.device = d
        /\ row.stale = {} /\ row.cut = FALSE /\ row.password = password
    BY <1>2, <1>3 DEF NewRow, RowRecords
  <1>5. CASE single
    <2>1. /\ sessions' = Append(Revoked("AUDIENCE", Rows, NoFamily), row)
          /\ exempt' = [exempt EXCEPT !["AUDIENCE"] = n]
      BY <1>1, <1>3, <1>5 DEF createAppSession, replaceForSingleDevice
    <2>2. PICK after : after = Revoked("AUDIENCE", Rows, NoFamily)
      OBVIOUS
    <2>3. /\ after \in [Rows -> RowRecords]
          /\ \A r \in Rows :
                /\ after[r].family = sessions[r].family /\ after[r].device = sessions[r].device
                /\ after[r].password = sessions[r].password /\ after[r].cut = sessions[r].cut
                /\ \/ after[r].state = "ENDED"
                   \/ /\ ~Live(r) \/ sessions[r].family = NoFamily
                      /\ after[r].state = sessions[r].state
                      /\ after[r].stale = sessions[r].stale \cup {"AUDIENCE"}
      BY <1>2, <2>2, RevokedAre DEF AllScopes
    <2>4. /\ sessions' \in Seq(RowRecords) /\ Len(sessions') = n /\ n \in Nat \ {0}
          /\ Rows' = Rows \cup {n} /\ n \notin Rows /\ Rows = 1..(n - 1)
          /\ \A r \in Rows : sessions'[r] = after[r]
          /\ sessions'[n] = row
      <3>1. sessions' = Append(after, row) /\ after \in [Rows -> RowRecords] /\ row \in RowRecords
        BY <1>4, <2>1, <2>2, <2>3
      <3>2. RowsType
        BY <1>2
      <3> QED BY <1>1, <3>1, <3>2, Appended
    <2>5. exempt' \in [Scopes -> Nat \cup {NoFamily}] /\ exempt'["AUDIENCE"] = n
      BY <1>2, <2>1 DEF RowsType, Scopes
    <2>6. RowsType'
      BY <1>2, <2>4, <2>5 DEF RowsType
    <2>7. \A r \in Rows : sessions[r].family \in 1..(n - 1)
      BY <1>1, <1>2, RowsAre DEF RowsInv, Families
    <2>8. Families'
      <3>1. \A r \in Rows' : sessions'[r].family \in 1..n
        BY <1>2, <1>4, <2>3, <2>4, <2>7
      <3>2. ASSUME NEW r \in Rows', NEW x \in Rows', sessions'[r].family = sessions'[x].family
            PROVE  sessions'[r].device = sessions'[x].device
        <4>1. CASE r \in Rows /\ x \in Rows
          BY <2>3, <2>4, <3>2, <4>1 DEF RowsInv, Families
        <4>2. CASE r = n \/ x = n
          BY <1>2, <1>4, <2>3, <2>4, <2>7, <3>2, <4>2
        <4> QED BY <2>4, <4>1, <4>2
      <3> QED BY <2>4, <3>1, <3>2 DEF Families
    <2>9. \A r \in Rows : sessions[r].family # NoFamily
      BY <1>2, RowsAre
    <2>10. ASSUME NEW r \in Rows PROVE ~Live(r)' /\ ~verifyInDatabase(r)'
      <3>1. sessions'[r] = after[r] /\ sessions'[r].family = sessions[r].family
        BY <2>3, <2>4
      <3>2. ~Live(r)'
        BY <2>3, <2>9, <3>1 DEF Live
      <3>3. sessions'[r].family # n
        BY <1>2, <2>7, <3>1
      <3>4. ASSUME verifyInDatabase(r)' PROVE FALSE
        <4>1. "AUDIENCE" \in sessions'[r].stale
          BY <2>3, <3>1, <3>4 DEF verifyInDatabase
        <4> QED BY <2>5, <3>3, <3>4, <4>1 DEF verifyInDatabase
      <3> QED BY <3>2, <3>4
    <2>11. verifyInDatabase(n)'
      BY <1>4, <2>4 DEF verifyInDatabase
    <2>12. LiveAccepted' /\ OneLoginWhenSingle'
      BY <2>4, <2>10, <2>11 DEF LiveAccepted, OneLoginWhenSingle
    <2>13. OldIsCut'
      <3>1. ASSUME NEW r \in Rows, sessions'[r].password < floor'
            PROVE  sessions'[r].cut \/ sessions'[r].state \notin {"LIVE", "ROTATED"}
        <4>1. sessions[r].cut \/ sessions[r].state \notin {"LIVE", "ROTATED"}
          BY <2>3, <2>4, <3>1 DEF RowsInv, OldIsCut
        <4> QED BY <2>3, <2>4, <4>1
      <3>2. ~(sessions'[n].password < floor')
        BY <1>2, <1>4, <2>4
      <3> QED BY <1>2, <2>4, <3>1, <3>2 DEF OldIsCut
    <2>14. LiveDevices' \subseteq LiveDevices \cup {d}
      BY <1>4, <2>4, <2>10 DEF LiveDevices
    <2> QED BY <1>4, <2>4, <2>6, <2>8, <2>12, <2>13, <2>14 DEF RowsInv
  <1>6. CASE ~single
    <2>1. sessions' = Append(sessions, row) /\ UNCHANGED exempt
      BY <1>1, <1>3, <1>6 DEF createAppSession
    <2>2. sessions \in [Rows -> RowRecords]
      BY <1>2, LenProperties DEF RowsType, Rows
    <2>3. /\ sessions' \in Seq(RowRecords) /\ Len(sessions') = n /\ n \in Nat \ {0}
          /\ Rows' = Rows \cup {n} /\ n \notin Rows /\ Rows = 1..(n - 1)
          /\ \A r \in Rows : sessions'[r] = sessions[r]
          /\ sessions'[n] = row
      BY <1>1, <1>2, <1>4, <2>1, <2>2, Appended
    <2>4. RowsType'
      BY <1>2, <2>1, <2>3 DEF RowsType
    <2>5. \A r \in Rows : sessions[r].family \in 1..(n - 1)
      BY <1>1, <1>2, RowsAre DEF RowsInv, Families
    <2>6. Families'
      <3>1. \A r \in Rows' : sessions'[r].family \in 1..n
        BY <1>2, <1>4, <2>3, <2>5
      <3>2. ASSUME NEW r \in Rows', NEW x \in Rows', sessions'[r].family = sessions'[x].family
            PROVE  sessions'[r].device = sessions'[x].device
        <4>1. CASE r \in Rows /\ x \in Rows
          BY <2>3, <3>2, <4>1 DEF RowsInv, Families
        <4>2. CASE r = n \/ x = n
          BY <1>2, <1>4, <2>3, <2>5, <3>2, <4>2
        <4> QED BY <2>3, <4>1, <4>2
      <3> QED BY <2>3, <3>1, <3>2 DEF Families
    <2>7. \A r \in Rows : Live(r)' <=> Live(r)
      BY <2>3 DEF Live
    <2>8. \A r \in Rows : verifyInDatabase(r)' <=> verifyInDatabase(r)
      BY <2>1, <2>3 DEF verifyInDatabase
    <2>9. verifyInDatabase(n)'
      BY <1>4, <2>3 DEF verifyInDatabase
    <2>10. LiveAccepted'
      BY <2>3, <2>7, <2>8, <2>9 DEF RowsInv, LiveAccepted
    <2>11. OneLoginWhenSingle'
      BY <1>6 DEF OneLoginWhenSingle
    <2>12. OldIsCut'
      <3>1. ~(sessions'[n].password < floor')
        BY <1>2, <1>4, <2>3
      <3>2. \A r \in Rows : sessions'[r].password < floor' =>
               sessions'[r].cut \/ sessions'[r].state \notin {"LIVE", "ROTATED"}
        BY <2>3 DEF RowsInv, OldIsCut
      <3> QED BY <1>2, <2>3, <3>1, <3>2 DEF OldIsCut
    <2>13. LiveDevices' \subseteq LiveDevices \cup {d}
      BY <1>4, <2>3, <2>7 DEF LiveDevices
    <2> QED BY <1>4, <2>3, <2>4, <2>6, <2>10, <2>11, <2>12, <2>13 DEF RowsInv
  <1> QED BY <1>5, <1>6

\* A row is exchanged for a new one of its family.
LEMMA Rotated ==
    ASSUME RowsInv, NEW r \in Rows, rotateLocked(r), UNCHANGED <<exempt, single, password, floor>>
    PROVE  RowsInv' /\ LiveDevices' \subseteq LiveDevices
  <1>1. PICK n, row, after :
          /\ n = Len(sessions) + 1
          /\ row = NewRow(sessions[r].device, sessions[r].family, sessions[r].password)
          /\ after = [sessions EXCEPT ![r].state = "ROTATED"]
    OBVIOUS
  <1>2. Live(r) /\ sessions' = Append(after, row)
    BY <1>1 DEF rotateLocked
  <1>3. /\ n \in Nat /\ RowsType /\ floor <= password /\ password \in Nat /\ floor \in Nat
        /\ sessions \in [Rows -> RowRecords]
    BY <1>1, RowsAre, LenProperties DEF RowsInv, RowsType, OldIsCut, Rows
  <1>4. /\ sessions[r] \in RowRecords /\ sessions[r].family \in Nat
        /\ sessions[r].device \in AuthDevices /\ sessions[r].password \in Nat
    BY <1>3, RowsAre
  <1>5. /\ row \in RowRecords /\ row.state = "LIVE" /\ row.family = sessions[r].family
        /\ row.device = sessions[r].device
        /\ row.stale = {} /\ row.cut = FALSE /\ row.password = sessions[r].password
    BY <1>1, <1>4 DEF NewRow, RowRecords
  <1>6. /\ after \in [Rows -> RowRecords]
        /\ \A x \in Rows \ {r} : after[x] = sessions[x]
        /\ after[r] = [sessions[r] EXCEPT !.state = "ROTATED"]
    <2>1. [sessions[r] EXCEPT !.state = "ROTATED"] \in RowRecords
      BY <1>4 DEF RowRecords
    <2> QED BY <1>1, <1>3, <2>1
  <1>7. /\ after[r].state = "ROTATED" /\ after[r].family = sessions[r].family
        /\ after[r].device = sessions[r].device /\ after[r].password = sessions[r].password
        /\ after[r].stale = sessions[r].stale /\ after[r].cut = sessions[r].cut
    BY <1>4, <1>6 DEF RowRecords
  <1>8. /\ sessions' \in Seq(RowRecords) /\ Len(sessions') = n /\ n \in Nat \ {0}
        /\ Rows' = Rows \cup {n} /\ n \notin Rows /\ Rows = 1..(n - 1)
        /\ \A x \in Rows : sessions'[x] = after[x]
        /\ sessions'[n] = row
    <2>1. RowsType /\ after \in [Rows -> RowRecords] /\ row \in RowRecords
      BY <1>3, <1>5, <1>6
    <2>2. n = Len(sessions) + 1
      BY <1>1
    <2> QED BY <1>2, <2>1, <2>2, Appended
  <1>9. \A x \in Rows :
            /\ sessions'[x].family = sessions[x].family /\ sessions'[x].device = sessions[x].device
            /\ sessions'[x].password = sessions[x].password
            /\ sessions'[x].stale = sessions[x].stale /\ sessions'[x].cut = sessions[x].cut
            /\ x # r => sessions'[x] = sessions[x]
    BY <1>6, <1>7, <1>8
  <1>10. RowsType'
    BY <1>3, <1>8 DEF RowsType
  <1>11. \A x \in Rows : sessions[x].family \in 1..(n - 1)
    BY <1>1, <1>3, RowsAre DEF RowsInv, Families
  <1>12. Families'
    <2>1. \A x \in Rows' : sessions'[x].family \in 1..n
      BY <1>3, <1>5, <1>8, <1>9, <1>11
    <2>2. ASSUME NEW x \in Rows', NEW y \in Rows', sessions'[x].family = sessions'[y].family
          PROVE  sessions'[x].device = sessions'[y].device
      <3>1. \A z \in Rows' : \E w \in Rows : /\ sessions'[z].family = sessions[w].family
                                             /\ sessions'[z].device = sessions[w].device
        BY <1>5, <1>8, <1>9
      <3> QED BY <2>2, <3>1 DEF RowsInv, Families
    <2> QED BY <1>8, <2>1, <2>2 DEF Families
  <1>13. verifyInDatabase(r)
    BY <1>2 DEF RowsInv, LiveAccepted
  <1>14. \A x \in Rows : verifyInDatabase(x)' => verifyInDatabase(x)
    <2>1. ASSUME NEW x \in Rows, x # r PROVE verifyInDatabase(x)' => verifyInDatabase(x)
      BY <1>9, <2>1 DEF verifyInDatabase
    <2> QED BY <1>13, <2>1
  <1>15. verifyInDatabase(n)'
    BY <1>5, <1>8 DEF verifyInDatabase
  <1>16. \A x \in Rows : Live(x)' => Live(x) /\ x # r
    BY <1>7, <1>8, <1>9 DEF Live
  <1>17. LiveAccepted'
    <2>1. ASSUME NEW x \in Rows, Live(x)' PROVE verifyInDatabase(x)'
      <3>1. verifyInDatabase(x) /\ sessions'[x] = sessions[x]
        BY <1>9, <1>16, <2>1 DEF RowsInv, LiveAccepted
      <3> QED BY <3>1 DEF verifyInDatabase
    <2> QED BY <1>8, <1>15, <2>1 DEF LiveAccepted
  <1>18. OneLoginWhenSingle'
    <2>1. ASSUME single', NEW x \in Rows', verifyInDatabase(x)'
          PROVE  sessions'[x].family = sessions[r].family
      <3>1. CASE x \in Rows
        <4>1. single /\ verifyInDatabase(x)
          BY <1>14, <2>1, <3>1
        <4>2. sessions[x].family = sessions[r].family
          BY <1>13, <3>1, <4>1 DEF RowsInv, OneLoginWhenSingle
        <4> QED BY <1>9, <3>1, <4>2
      <3>2. CASE x = n
        BY <1>5, <1>8, <3>2
      <3> QED BY <1>8, <3>1, <3>2
    <2> QED BY <2>1 DEF OneLoginWhenSingle
  <1>19. OldIsCut'
    <2>1. ~(sessions[r].password < floor)
      <3>1. ~sessions[r].cut /\ sessions[r].state = "LIVE"
        BY <1>2, <1>13 DEF verifyInDatabase, Live
      <3> QED BY <3>1 DEF RowsInv, OldIsCut
    <2>2. ASSUME NEW x \in Rows, sessions'[x].password < floor'
          PROVE  sessions'[x].cut \/ sessions'[x].state \notin {"LIVE", "ROTATED"}
      <3>1. x # r
        BY <1>9, <2>1, <2>2
      <3> QED BY <1>9, <2>2, <3>1 DEF RowsInv, OldIsCut
    <2>3. ~(sessions'[n].password < floor')
      BY <1>5, <1>8, <2>1
    <2> QED BY <1>3, <1>8, <2>2, <2>3 DEF OldIsCut
  <1>20. LiveDevices' \subseteq LiveDevices
    <2>1. ASSUME NEW d \in LiveDevices' PROVE d \in LiveDevices
      <3>1. PICK x \in Rows' : Live(x)' /\ sessions'[x].device = d /\ d \in AuthDevices
        BY <2>1 DEF LiveDevices
      <3>2. CASE x \in Rows
        BY <1>9, <1>16, <3>1, <3>2 DEF LiveDevices
      <3>3. CASE x = n
        BY <1>2, <1>5, <1>8, <3>1, <3>3 DEF LiveDevices
      <3> QED BY <1>8, <3>1, <3>2, <3>3
    <2> QED BY <2>1
  <1> QED BY <1>10, <1>12, <1>17, <1>18, <1>19, <1>20 DEF RowsInv

-----------------------------------------------------------------------------
(* What the operation that holds the lock knows.                            *)

DeviceKinds == {"issue", "recoverIssue", "verified", "removeSessions", "removeTrust"}
AllKinds == {"allTrust", "allChallenges", "allSessions"}

LEMMA OpIs ==
    ASSUME authOp \in AuthOperations
    PROVE  /\ NoAuthOp.kind = "none" /\ NoAuthOp \in AuthOperations
           /\ authOp.kind \in DeviceKinds => authOp.device \in AuthDevices
           /\ authOp.kind \in RecoverKinds =>
                 authOp \in [kind : RecoverKinds, device : AuthDevices, row : Nat]
           /\ authOp.kind = "othersTrust" => authOp.keep \in SUBSET AuthDevices
           /\ authOp.kind = "removeChallenges" => authOp.gone \in SUBSET AuthDevices
           /\ authOp.kind \in AllKinds =>
                 authOp \in [kind : AllKinds, keep : SUBSET AuthDevices, floor : Nat]
BY DEF AuthOperations, NoAuthOp, DeviceKinds, RecoverKinds, AllKinds

\* Steps that reach no more than before.
LEMMA Quieter ==
    ASSUME SessionInv, DeviceType', RowsInv', LiveDevices' \subseteq LiveDevices,
           Trusted' \subseteq Trusted, pushBound' \subseteq pushBound, removed' \subseteq removed,
           \/ authOp' = NoAuthOp
           \/ /\ authOp' = authOp /\ password' = password
              /\ \A r \in Rows : r \in Rows' /\ sessions'[r].device = sessions[r].device
    PROVE  SessionInv'
  <1>1. Reached' \subseteq Reached
    BY DEF Reached
  <1>2. RemovedOut'
    BY <1>1 DEF SessionInv, RemovedOut
  <1>3. OpKnows'
    <2>1. CASE authOp' = NoAuthOp
      BY <2>1 DEF OpKnows, NoAuthOp, RecoverKinds
    <2>2. CASE /\ authOp' = authOp /\ password' = password
               /\ \A r \in Rows : r \in Rows' /\ sessions'[r].device = sessions[r].device
      BY <1>1, <2>2 DEF OpKnows, SessionInv
    <2> QED BY <2>1, <2>2
  <1> QED BY <1>2, <1>3 DEF SessionInv

\* Steps that leave the lock free.
LEMMA Freed ==
    ASSUME DeviceType', RowsInv', authOp' = NoAuthOp, removed' \cap Reached' = {}
    PROVE  SessionInv'
BY DEF SessionInv, OpKnows, NoAuthOp, RecoverKinds, RemovedOut

\* The rows stay as they are.
RowsStay == UNCHANGED <<sessions, exempt, single, password, floor>>

LEMMA Staying ==
    ASSUME RowsInv, RowsStay
    PROVE  RowsInv' /\ LiveDevices' = LiveDevices /\ Rows' = Rows
  <1>1. Rows' = Rows /\ LiveDevices' = LiveDevices
    BY DEF RowsStay, LiveDevices, Live, Rows
  <1>2. RowsType' /\ Families'
    BY DEF RowsStay, RowsInv, RowsType, Families, Rows
  <1>3. LiveAccepted' /\ OneLoginWhenSingle' /\ OldIsCut'
    BY DEF RowsStay, RowsInv, LiveAccepted, OneLoginWhenSingle, OldIsCut, Rows, Live, verifyInDatabase
  <1> QED BY <1>1, <1>2, <1>3 DEF RowsInv

-----------------------------------------------------------------------------
(* Steps that end no session.                                               *)

LEMMA ChallengeTypes ==
    ASSUME DeviceType, NEW d \in AuthDevices
    PROVE  /\ challenge[d] \in Challenges /\ Closed \in Challenges
           /\ \A s \in {"PENDING", "APPROVED", "closed"} : [challenge[d] EXCEPT !.status = s] \in Challenges
           /\ [challenge[d] EXCEPT !.recovery = TRUE] \in Challenges
           /\ [challenge[d] EXCEPT !.approving = TRUE] \in Challenges
           /\ [challenge[d] EXCEPT !.status = "APPROVED", !.approving = FALSE] \in Challenges
           /\ [Closed EXCEPT !.status = "PENDING", !.recovery = TRUE] \in Challenges
           /\ \A c \in Challenges : [challenge EXCEPT ![d] = c] \in [AuthDevices -> Challenges]
  <1>1. challenge[d] \in Challenges /\ Closed \in Challenges
    BY DEF DeviceType, Challenges, Closed
  <1>2. \A c \in Challenges : [challenge EXCEPT ![d] = c] \in [AuthDevices -> Challenges]
    BY DEF DeviceType
  <1>3. \A s \in {"PENDING", "APPROVED", "closed"} : [challenge[d] EXCEPT !.status = s] \in Challenges
    BY <1>1 DEF Challenges
  <1>4. /\ [challenge[d] EXCEPT !.recovery = TRUE] \in Challenges
        /\ [challenge[d] EXCEPT !.approving = TRUE] \in Challenges
        /\ [challenge[d] EXCEPT !.status = "APPROVED", !.approving = FALSE] \in Challenges
        /\ [Closed EXCEPT !.status = "PENDING", !.recovery = TRUE] \in Challenges
    BY <1>1 DEF Challenges
  <1> QED BY <1>1, <1>2, <1>3, <1>4

LEMMA CancelTyped ==
    ASSUME DeviceType, NEW d, cancelRecoveries(d) \/ invalidateChallenges
    PROVE  challenge' \in [AuthDevices -> Challenges]
  <1>1. Closed \in Challenges
    BY DEF Challenges, Closed
  <1>2. \A e \in AuthDevices : challenge[e] \in Challenges
    BY DEF DeviceType
  <1> QED BY <1>1, <1>2 DEF cancelRecoveries, invalidateChallenges

\* Only challenges, and what has been compared, change.
LEMMA Minor ==
    ASSUME SessionInv, RowsStay, UNCHANGED <<trust, stable, pushBound, removed>>,
           authOp' \in {authOp, NoAuthOp},
           challenge' \in [AuthDevices -> Challenges], knows' \in [AuthDevices -> Nat \cup {-1}]
    PROVE  SessionInv'
  <1>1. RowsInv' /\ LiveDevices' = LiveDevices /\ Rows' = Rows
    BY Staying DEF SessionInv
  <1>2. DeviceType'
    BY OpIs DEF SessionInv, DeviceType
  <1>3. Trusted' = Trusted
    BY DEF Trusted
  <1> QED BY <1>1, <1>2, <1>3, Quieter DEF RowsStay

LEMMA Login == ASSUME SessionInv, NEW d \in AuthDevices, login(d) PROVE SessionInv'
  <1>1. /\ RowsStay /\ UNCHANGED <<trust, stable, pushBound, removed, authOp, challenge>>
        /\ knows' = [knows EXCEPT ![d] = password]
    BY DEF login, RowsStay
  <1>2. /\ challenge' \in [AuthDevices -> Challenges] /\ knows' \in [AuthDevices -> Nat \cup {-1}]
    BY <1>1 DEF SessionInv, DeviceType, RowsInv, RowsType
  <1> QED BY <1>1, <1>2, Minor

LEMMA ChallengeSteps ==
    ASSUME SessionInv, NEW d \in AuthDevices,
           \/ requestRecovery(d) \/ approve(d) \/ reopenIfCodeExpired(d)
           \/ \E e \in AuthDevices : assertTrustedApprover(e, d) \/ reject(e, d)
    PROVE  SessionInv'
  <1>1. RowsStay /\ UNCHANGED <<trust, stable, pushBound, removed, authOp, knows>>
    BY DEF requestRecovery, approve, reopenIfCodeExpired, assertTrustedApprover, reject, RowsStay
  <1>2. \E c \in Challenges : challenge' = [challenge EXCEPT ![d] = c]
    <2>1. DeviceType
      BY DEF SessionInv
    <2>2. CASE requestRecovery(d)
      BY <2>1, <2>2, ChallengeTypes DEF requestRecovery
    <2>3. CASE approve(d)
      BY <2>1, <2>3, ChallengeTypes DEF approve
    <2>4. CASE reopenIfCodeExpired(d)
      BY <2>1, <2>4, ChallengeTypes DEF reopenIfCodeExpired
    <2>5. CASE \E e \in AuthDevices : assertTrustedApprover(e, d)
      BY <2>1, <2>5, ChallengeTypes DEF assertTrustedApprover
    <2>6. CASE \E e \in AuthDevices : reject(e, d)
      BY <2>1, <2>6, ChallengeTypes DEF reject
    <2> QED BY <2>2, <2>3, <2>4, <2>5, <2>6
  <1>3. challenge' \in [AuthDevices -> Challenges] /\ knows' \in [AuthDevices -> Nat \cup {-1}]
    BY <1>1, <1>2, ChallengeTypes DEF SessionInv, DeviceType
  <1> QED BY <1>1, <1>3, Minor

LEMMA Fails == ASSUME SessionInv, AuthOpFails PROVE SessionInv'
  <1>1. /\ RowsStay /\ UNCHANGED <<trust, stable, pushBound, removed, knows>> /\ authOp' = NoAuthOp
    BY DEF AuthOpFails, RowsStay
  <1>2. challenge' \in [AuthDevices -> Challenges]
    <2>1. CASE UNCHANGED challenge
      BY <2>1 DEF SessionInv, DeviceType
    <2>2. CASE ~UNCHANGED challenge
      <3>1. /\ authOp.kind \in {"recoverIssue"} \cup RecoverKinds
            /\ challenge' = [challenge EXCEPT ![authOp.device] =
                                [Closed EXCEPT !.status = "PENDING", !.recovery = TRUE]]
        BY <2>2 DEF AuthOpFails, RecoverKinds
      <3>2. authOp.device \in AuthDevices
        BY <3>1, OpIs DEF SessionInv, DeviceType, DeviceKinds
      <3> QED BY <3>1, <3>2, ChallengeTypes DEF SessionInv
    <2> QED BY <2>1, <2>2
  <1>3. knows' \in [AuthDevices -> Nat \cup {-1}]
    BY <1>1 DEF SessionInv, DeviceType
  <1> QED BY <1>1, <1>2, <1>3, Minor

LEMMA Consumes ==
    ASSUME SessionInv, NEW d \in AuthDevices, consumeWithCode(d) \/ consumeAfterSecurityCode(d)
    PROVE  SessionInv'
  <1>1. /\ RowsStay /\ UNCHANGED <<trust, stable, pushBound, removed, knows>>
        /\ authOp' = [kind |-> "verified", device |-> d]
        /\ challenge' = [challenge EXCEPT ![d] = Closed]
    BY DEF consumeWithCode, consumeAfterSecurityCode, RowsStay
  <1>2. RowsInv' /\ LiveDevices' = LiveDevices
    BY <1>1, Staying DEF SessionInv
  <1>3. DeviceType'
    <2>1. challenge' \in [AuthDevices -> Challenges]
      BY <1>1, ChallengeTypes DEF SessionInv
    <2>2. authOp' \in AuthOperations
      BY <1>1 DEF AuthOperations
    <2> QED BY <1>1, <2>1, <2>2 DEF SessionInv, DeviceType
  <1>4. Reached' = Reached /\ RemovedOut'
    BY <1>1, <1>2 DEF Reached, Trusted, RemovedOut, SessionInv
  <1>5. OpKnows'
    BY <1>1 DEF OpKnows, RecoverKinds
  <1> QED BY <1>2, <1>3, <1>4, <1>5 DEF SessionInv

\* A device is let in.
LEMMA EvaluateLogin == ASSUME SessionInv, NEW d \in AuthDevices, evaluateLogin(d) PROVE SessionInv'
  <1>1. /\ RowsStay /\ UNCHANGED <<stable, pushBound>> /\ authOp = NoAuthOp
        /\ knows' = [knows EXCEPT ![d] = -1]
    BY DEF evaluateLogin, RowsStay, LockFree
  <1>2. RowsInv' /\ LiveDevices' = LiveDevices
    BY <1>1, Staying DEF SessionInv
  <1>3. knows' \in [AuthDevices -> Nat \cup {-1}]
    BY <1>1 DEF SessionInv, DeviceType
  <1>4. CASE /\ trust' = [trust EXCEPT ![d] = "trusted"]
             /\ UNCHANGED challenge \/ cancelRecoveries(d)
             /\ LetIn(d) /\ authOp' = [kind |-> "issue", device |-> d]
    <2>1. DeviceType'
      <3>1. challenge' \in [AuthDevices -> Challenges]
        BY <1>4, CancelTyped DEF SessionInv, DeviceType
      <3>2. authOp' \in AuthOperations
        BY <1>4 DEF AuthOperations
      <3>3. trust' \in [AuthDevices -> {"unknown", "trusted", "revoked"}]
        BY <1>4 DEF SessionInv, DeviceType
      <3>4. removed' \in SUBSET AuthDevices
        BY <1>4 DEF SessionInv, DeviceType, LetIn
      <3> QED BY <1>1, <1>3, <3>1, <3>2, <3>3, <3>4 DEF SessionInv, DeviceType
    <2>2. Trusted' \subseteq Trusted \cup {d}
      BY <1>4 DEF Trusted, SessionInv, DeviceType
    <2>3. RemovedOut'
      BY <1>1, <1>2, <1>4, <2>2 DEF RemovedOut, Reached, LetIn, SessionInv
    <2>4. OpKnows'
      <3>1. authOp'.kind = "issue" /\ authOp'.device = d /\ d \notin removed'
        BY <1>4 DEF LetIn
      <3> QED BY <3>1 DEF OpKnows, RecoverKinds
    <2> QED BY <1>2, <2>1, <2>3, <2>4 DEF SessionInv
  <1>5. CASE claimMaturedRecovery(d)
    <2>1. /\ challenge' = [challenge EXCEPT ![d] = Closed] /\ removed' = removed \ {d}
          /\ authOp' = [kind |-> "recoverIssue", device |-> d] /\ UNCHANGED trust
      BY <1>5 DEF claimMaturedRecovery, LetIn
    <2>2. DeviceType'
      <3>1. challenge' \in [AuthDevices -> Challenges]
        BY <2>1, ChallengeTypes DEF SessionInv
      <3>2. authOp' \in AuthOperations
        BY <2>1 DEF AuthOperations
      <3> QED BY <1>1, <1>3, <2>1, <3>1, <3>2 DEF SessionInv, DeviceType
    <2>3. RemovedOut'
      BY <1>1, <1>2, <2>1 DEF RemovedOut, Reached, Trusted, SessionInv
    <2>4. OpKnows'
      <3>1. authOp'.kind = "recoverIssue" /\ authOp'.device = d /\ d \notin removed'
        BY <2>1
      <3> QED BY <3>1 DEF OpKnows, RecoverKinds
    <2> QED BY <1>2, <2>2, <2>3, <2>4 DEF SessionInv
  <1>6. CASE createChallenge(d)
    <2>1. /\ challenge' = [challenge EXCEPT ![d].status = IF @ = "closed" THEN "PENDING" ELSE @]
          /\ UNCHANGED <<trust, removed, authOp>>
      BY <1>6 DEF createChallenge
    <2>2. challenge' \in [AuthDevices -> Challenges]
      <3>1. challenge[d].status \in {"PENDING", "APPROVED", "closed"}
        BY DEF SessionInv, DeviceType, Challenges
      <3>2. challenge' = [challenge EXCEPT ![d] = [challenge[d] EXCEPT !.status =
                            IF challenge[d].status = "closed" THEN "PENDING" ELSE challenge[d].status]]
        BY <2>1 DEF SessionInv, DeviceType, Challenges
      <3> QED BY <3>1, <3>2, ChallengeTypes DEF SessionInv
    <2> QED BY <1>1, <1>3, <2>1, <2>2, Minor
  <1> QED BY <1>4, <1>5, <1>6 DEF evaluateLogin

LEMMA IssueTokens == ASSUME SessionInv, issueTokens PROVE SessionInv'
  <1>1. PICK d : d = authOp.device
    OBVIOUS
  <1>2. /\ authOp.kind \in {"issue", "recoverIssue"} /\ createAppSession(d)
        /\ UNCHANGED <<single, password, trust, stable, challenge, pushBound, knows, removed, floor>>
        /\ \/ authOp' = NoAuthOp
           \/ authOp' = [kind |-> "recoverSessions", device |-> d, row |-> Len(sessions')]
    BY <1>1 DEF issueTokens
  <1>3. d \in AuthDevices /\ d \notin removed
    BY <1>1, <1>2, OpIs DEF SessionInv, DeviceType, DeviceKinds, OpKnows
  <1>4. /\ RowsInv' /\ LiveDevices' \subseteq LiveDevices \cup {d}
        /\ Len(sessions') \in Rows' /\ sessions'[Len(sessions')].device = d
    BY <1>2, <1>3, Issued DEF SessionInv
  <1>5. Len(sessions') \in Nat
    BY <1>4, LenProperties DEF RowsInv, RowsType
  <1>6. DeviceType'
    <2>1. authOp' \in AuthOperations
      BY <1>2, <1>3, <1>5 DEF AuthOperations, RecoverKinds
    <2> QED BY <1>2, <2>1 DEF SessionInv, DeviceType
  <1>7. RemovedOut'
    BY <1>2, <1>3, <1>4 DEF RemovedOut, Reached, Trusted, SessionInv
  <1>8. OpKnows'
    <2>1. CASE authOp' = NoAuthOp
      BY <2>1 DEF OpKnows, NoAuthOp, RecoverKinds
    <2>2. CASE authOp' = [kind |-> "recoverSessions", device |-> d, row |-> Len(sessions')]
      <3>1. authOp'.kind = "recoverSessions" /\ authOp'.device = d /\ authOp'.row = Len(sessions')
        BY <2>2
      <3> QED BY <1>2, <1>3, <1>4, <3>1 DEF OpKnows, RecoverKinds
    <2> QED BY <1>2, <2>1, <2>2
  <1> QED BY <1>4, <1>6, <1>7, <1>8 DEF SessionInv

LEMMA CompleteVerified == ASSUME SessionInv, completeVerifiedLogin PROVE SessionInv'
  <1>1. PICK d : d = authOp.device
    OBVIOUS
  <1>2. /\ authOp.kind = "verified" /\ trust' = [trust EXCEPT ![d] = "trusted"]
        /\ removed' = removed \ {d} /\ authOp' = [authOp EXCEPT !.kind = "issue"]
        /\ RowsStay /\ UNCHANGED <<stable, challenge, pushBound, knows>>
    BY <1>1 DEF completeVerifiedLogin, LetIn, RowsStay
  <1>3. d \in AuthDevices /\ authOp = [kind |-> "verified", device |-> d]
    BY <1>1, <1>2 DEF SessionInv, DeviceType, AuthOperations, NoAuthOp, RecoverKinds
  <1>4. authOp' = [kind |-> "issue", device |-> d]
    BY <1>2, <1>3
  <1>5. RowsInv' /\ LiveDevices' = LiveDevices
    BY <1>2, Staying DEF SessionInv
  <1>6. DeviceType'
    <2>1. authOp' \in AuthOperations
      BY <1>3, <1>4 DEF AuthOperations
    <2> QED BY <1>2, <2>1 DEF SessionInv, DeviceType
  <1>7. Trusted' \subseteq Trusted \cup {d}
    BY <1>2 DEF Trusted, SessionInv, DeviceType
  <1>8. RemovedOut'
    BY <1>2, <1>5, <1>7 DEF RemovedOut, Reached, SessionInv
  <1>9. OpKnows'
    <2>1. authOp'.kind = "issue" /\ authOp'.device = d /\ d \notin removed'
      BY <1>2, <1>4
    <2> QED BY <2>1 DEF OpKnows, RecoverKinds
  <1> QED BY <1>5, <1>6, <1>8, <1>9 DEF SessionInv

\* The operation goes on with another kind.
LEMMA RecoverGoesOn ==
    ASSUME authOp \in AuthOperations, authOp.kind \in RecoverKinds, NEW kind \in RecoverKinds,
           authOp' = [authOp EXCEPT !.kind = kind]
    PROVE  /\ authOp' \in AuthOperations /\ authOp'.kind = kind
           /\ authOp'.device = authOp.device /\ authOp'.row = authOp.row
           /\ authOp.device \in AuthDevices
  <1>1. authOp \in [kind : RecoverKinds, device : AuthDevices, row : Nat]
    BY OpIs
  <1>2. authOp' \in [kind : RecoverKinds, device : AuthDevices, row : Nat]
    BY <1>1
  <1> QED BY <1>1, <1>2 DEF AuthOperations

LEMMA RevokesDevices ==
    ASSUME DeviceType, NEW keep, revokeOtherDevices(keep)
    PROVE  /\ trust' \in [AuthDevices -> {"unknown", "trusted", "revoked"}]
           /\ pushBound' \in SUBSET AuthDevices
           /\ Trusted' = Trusted \cap keep /\ pushBound' = pushBound \cap keep
  <1>1. trust' \in [AuthDevices -> {"unknown", "trusted", "revoked"}]
    BY DEF DeviceType, revokeOtherDevices
  <1>2. Trusted' = Trusted \cap keep
    <2>1. \A d \in AuthDevices : trust'[d] = "trusted" <=> trust[d] = "trusted" /\ d \in keep
      BY DEF revokeOtherDevices
    <2> QED BY <2>1 DEF Trusted
  <1> QED BY <1>1, <1>2 DEF DeviceType, revokeOtherDevices

\* A recovery, one transaction after the other.
LEMMA Recovers ==
    ASSUME SessionInv, recoverRevokeSessions \/ recoverRevokeDevices \/ recoverInvalidate \/ recoverTrust
    PROVE  SessionInv'
  <1>1. PICK d : d = authOp.device
    OBVIOUS
  <1>2. authOp \in AuthOperations /\ DeviceType
    BY DEF SessionInv, DeviceType
  <1>3. CASE recoverRevokeSessions
    <2>1. /\ authOp.kind = "recoverSessions" /\ revokeOtherSessions(authOp.row)
          /\ authOp' = [authOp EXCEPT !.kind = "recoverDevices"]
          /\ UNCHANGED <<single, password, trust, stable, challenge, pushBound, knows, removed, floor>>
      BY <1>3 DEF recoverRevokeSessions
    <2>2. /\ authOp' \in AuthOperations /\ authOp'.kind = "recoverDevices"
          /\ authOp'.device = d /\ d \in AuthDevices
      BY <1>1, <1>2, <2>1, RecoverGoesOn DEF RecoverKinds
    <2>3. d \notin removed /\ authOp.row \in Rows /\ sessions[authOp.row].device = d
      BY <1>1, <2>1 DEF SessionInv, OpKnows, RecoverKinds
    <2>4. PICK r \in Rows : r = authOp.row
      BY <2>3
    <2>5. RowsInv' /\ LiveDevices' \subseteq LiveDevices \cap {d}
      <3>1. /\ revokeOtherSessions(r) /\ single' \in BOOLEAN /\ UNCHANGED <<password, floor>>
            /\ sessions[r].device = d
        BY <2>1, <2>3, <2>4 DEF SessionInv, RowsInv, RowsType
      <3> QED BY <3>1, OthersEnd DEF SessionInv
    <2>6. DeviceType'
      BY <2>1, <2>2 DEF SessionInv, DeviceType
    <2>7. RemovedOut'
      BY <2>1, <2>5 DEF RemovedOut, Reached, Trusted, SessionInv
    <2>8. OpKnows'
      BY <2>1, <2>2, <2>3, <2>5 DEF OpKnows, RecoverKinds
    <2> QED BY <2>5, <2>6, <2>7, <2>8 DEF SessionInv
  <1>4. CASE recoverRevokeDevices
    <2>1. /\ authOp.kind = "recoverDevices" /\ revokeOtherDevices({d})
          /\ authOp' = [authOp EXCEPT !.kind = "recoverChallenges"]
          /\ RowsStay /\ UNCHANGED <<stable, challenge, knows, removed>>
      BY <1>1, <1>4 DEF recoverRevokeDevices, RowsStay
    <2>2. /\ authOp' \in AuthOperations /\ authOp'.kind = "recoverChallenges"
          /\ authOp'.device = d /\ d \in AuthDevices
      BY <1>1, <1>2, <2>1, RecoverGoesOn DEF RecoverKinds
    <2>3. d \notin removed /\ LiveDevices \subseteq {d}
      BY <1>1, <2>1 DEF SessionInv, OpKnows, RecoverKinds
    <2>4. RowsInv' /\ LiveDevices' = LiveDevices
      BY <2>1, Staying DEF SessionInv
    <2>5. /\ trust' \in [AuthDevices -> {"unknown", "trusted", "revoked"}]
          /\ pushBound' \in SUBSET AuthDevices
          /\ Trusted' = Trusted \cap {d} /\ pushBound' = pushBound \cap {d}
      BY <1>2, <2>1, RevokesDevices
    <2>6. DeviceType'
      BY <2>1, <2>2, <2>5 DEF SessionInv, DeviceType
    <2>7. Reached' \subseteq Reached \cap {d}
      BY <2>3, <2>4, <2>5 DEF Reached
    <2>8. RemovedOut'
      BY <2>1, <2>7 DEF RemovedOut, SessionInv
    <2>9. OpKnows'
      BY <2>1, <2>2, <2>3, <2>4, <2>7 DEF OpKnows, RecoverKinds
    <2> QED BY <2>4, <2>6, <2>8, <2>9 DEF SessionInv
  <1>5. CASE recoverInvalidate
    <2>1. /\ authOp.kind = "recoverChallenges" /\ invalidateChallenges
          /\ authOp' = [authOp EXCEPT !.kind = "recoverTrust"]
          /\ RowsStay /\ UNCHANGED <<trust, stable, pushBound, knows, removed>>
      BY <1>5 DEF recoverInvalidate, RowsStay
    <2>2. /\ authOp' \in AuthOperations /\ authOp'.kind = "recoverTrust"
          /\ authOp'.device = d /\ d \in AuthDevices
      BY <1>1, <1>2, <2>1, RecoverGoesOn DEF RecoverKinds
    <2>3. d \notin removed /\ LiveDevices \subseteq {d} /\ Reached \subseteq {d}
      BY <1>1, <2>1 DEF SessionInv, OpKnows, RecoverKinds
    <2>4. RowsInv' /\ LiveDevices' = LiveDevices
      BY <2>1, Staying DEF SessionInv
    <2>5. challenge' \in [AuthDevices -> Challenges]
      BY <1>2, <2>1, CancelTyped
    <2>6. DeviceType'
      BY <2>1, <2>2, <2>5 DEF SessionInv, DeviceType
    <2>7. Reached' = Reached
      BY <2>1, <2>4 DEF Reached, Trusted
    <2>8. RemovedOut'
      BY <2>1, <2>7 DEF RemovedOut, SessionInv
    <2>9. OpKnows'
      BY <2>1, <2>2, <2>3, <2>4, <2>7 DEF OpKnows, RecoverKinds
    <2> QED BY <2>4, <2>6, <2>8, <2>9 DEF SessionInv
  <1>6. CASE recoverTrust
    <2>1. /\ authOp.kind = "recoverTrust" /\ trust' = [trust EXCEPT ![d] = "trusted"]
          /\ removed' = removed \cup (AuthDevices \ {d}) /\ authOp' = NoAuthOp
          /\ RowsStay /\ UNCHANGED <<stable, challenge, pushBound, knows>>
      BY <1>1, <1>6 DEF recoverTrust, RowsStay
    <2>2. d \notin removed /\ Reached \subseteq {d}
      BY <1>1, <2>1 DEF SessionInv, OpKnows, RecoverKinds
    <2>3. RowsInv' /\ LiveDevices' = LiveDevices
      BY <2>1, Staying DEF SessionInv
    <2>4. DeviceType'
      BY <1>2, <2>1, OpIs DEF DeviceType
    <2>5. Trusted' \subseteq Trusted \cup {d}
      BY <1>2, <2>1 DEF Trusted, DeviceType
    <2>6. removed' \cap Reached' = {}
      BY <2>1, <2>2, <2>3, <2>5 DEF Reached
    <2> QED BY <2>1, <2>3, <2>4, <2>6, Freed
  <1> QED BY <1>3, <1>4, <1>5, <1>6

-----------------------------------------------------------------------------
(* Refresh, logout and the single device switch.                            *)

LEMMA Refresh ==
    ASSUME SessionInv, NEW r \in Rows, NEW s \in AuthDevices \cup {NoFamily}, refreshLocked(r, s)
    PROVE  SessionInv'
  <1>1. /\ authOp = NoAuthOp /\ authOp' = NoAuthOp
        /\ UNCHANGED <<exempt, single, password, pushBound, knows, removed, floor>>
    BY DEF refreshLocked, LockFree
  <1>2. RowsType
    BY DEF SessionInv, RowsInv
  <1>3. CASE rotateLocked(r) /\ trustOnRefresh(sessions[r].device, s)
    <2>1. PICK d : d = sessions[r].device
      OBVIOUS
    <2>2. d \in AuthDevices /\ d \in LiveDevices
      BY <1>2, <1>3, <2>1, RowsAre DEF rotateLocked, LiveDevices
    <2>3. RowsInv' /\ LiveDevices' \subseteq LiveDevices
      BY <1>1, <1>3, Rotated DEF SessionInv
    <2>4. /\ trust' \in {trust, [trust EXCEPT ![d] = "trusted"]}
          /\ stable' \in {stable, [stable EXCEPT ![d] = s]}
          /\ UNCHANGED challenge \/ cancelRecoveries(d)
      BY <1>3, <2>1 DEF trustOnRefresh
    <2>5. DeviceType'
      <3>1. challenge' \in [AuthDevices -> Challenges]
        BY <2>4, CancelTyped DEF SessionInv, DeviceType
      <3>2. trust' \in [AuthDevices -> {"unknown", "trusted", "revoked"}]
        BY <2>4 DEF SessionInv, DeviceType
      <3>3. stable' \in [AuthDevices -> AuthDevices \cup {NoFamily}]
        BY <2>4 DEF SessionInv, DeviceType
      <3> QED BY <1>1, <3>1, <3>2, <3>3 DEF SessionInv, DeviceType
    <2>6. Trusted' \subseteq Trusted \cup {d}
      BY <2>4 DEF Trusted, SessionInv, DeviceType
    <2>7. Reached' \subseteq Reached
      BY <1>1, <2>2, <2>3, <2>6 DEF Reached
    <2>8. removed' \cap Reached' = {}
      BY <1>1, <2>7 DEF SessionInv, RemovedOut
    <2> QED BY <1>1, <2>3, <2>5, <2>8, Freed
  <1>4. CASE TokenFamilyReuse(r) /\ UNCHANGED <<trust, stable, challenge>>
    <2>1. sessions' = Revoked("FAMILY", FamilyOf(r), NoFamily)
      BY <1>4 DEF TokenFamilyReuse
    <2>2. RowsInv' /\ LiveDevices' \subseteq LiveDevices
      BY <1>1, <2>1, FamilyEnds DEF SessionInv
    <2>3. DeviceType'
      BY <1>1, <1>4 DEF SessionInv, DeviceType
    <2>4. removed' \cap Reached' = {}
      BY <1>1, <1>4, <2>2 DEF SessionInv, RemovedOut, Reached, Trusted
    <2> QED BY <1>1, <2>2, <2>3, <2>4, Freed
  <1> QED BY <1>3, <1>4 DEF refreshLocked

LEMMA Revoke == ASSUME SessionInv, NEW r \in Rows, revoke(r) PROVE SessionInv'
  <1>1. /\ sessions' = Revoked("FAMILY", FamilyOf(r), NoFamily)
        /\ UNCHANGED <<exempt, single, password, trust, stable, challenge, pushBound, authOp,
                       knows, removed, floor>>
    BY DEF revoke
  <1>2. RowsInv' /\ Fades /\ Rows' = Rows /\ LiveDevices' \subseteq LiveDevices
    BY <1>1, FamilyEnds DEF SessionInv
  <1>3. DeviceType' /\ Trusted' = Trusted
    BY <1>1 DEF SessionInv, DeviceType, Trusted
  <1>4. \A x \in Rows : x \in Rows' /\ sessions'[x].device = sessions[x].device
    BY <1>2 DEF Fades
  <1> QED BY <1>1, <1>2, <1>3, <1>4, Quieter

LEMMA SetSingle ==
    ASSUME SessionInv, NEW r \in Rows, NEW enabled \in BOOLEAN, setSingleDeviceLogin(r, enabled)
    PROVE  SessionInv'
  <1>1. /\ single' = enabled
        /\ IF enabled THEN revokeOtherSessions(r) ELSE UNCHANGED <<sessions, exempt>>
        /\ UNCHANGED <<password, trust, stable, challenge, pushBound, authOp, knows, removed, floor>>
    BY DEF setSingleDeviceLogin
  <1>2. single' \in BOOLEAN
    BY <1>1
  <1>3. DeviceType' /\ Trusted' = Trusted
    BY <1>1 DEF SessionInv, DeviceType, Trusted
  <1>4. CASE enabled
    <2>1. RowsInv' /\ Fades /\ Rows' = Rows /\ LiveDevices' \subseteq LiveDevices
      BY <1>1, <1>2, <1>4, OthersEnd DEF SessionInv
    <2>2. \A x \in Rows : x \in Rows' /\ sessions'[x].device = sessions[x].device
      BY <2>1 DEF Fades
    <2> QED BY <1>1, <1>3, <2>1, <2>2, Quieter
  <1>5. CASE ~enabled
    <2>1. UNCHANGED <<sessions, exempt>> /\ ~single'
      BY <1>1, <1>5
    <2>2. Rows' = Rows /\ LiveDevices' = LiveDevices
      BY <2>1 DEF Rows, LiveDevices, Live
    <2>3. RowsType'
      BY <1>1, <1>2, <2>1 DEF SessionInv, RowsInv, RowsType
    <2>4. Families' /\ OldIsCut' /\ LiveAccepted'
      BY <1>1, <2>1, <2>2 DEF SessionInv, RowsInv, Families, OldIsCut, LiveAccepted, Live,
         verifyInDatabase
    <2>5. OneLoginWhenSingle'
      BY <2>1 DEF OneLoginWhenSingle
    <2>6. RowsInv'
      BY <2>3, <2>4, <2>5 DEF RowsInv
    <2> QED BY <1>1, <1>3, <2>1, <2>2, <2>6, Quieter
  <1> QED BY <1>4, <1>5

LEMMA BindPush == ASSUME SessionInv, NEW r \in Rows, bindPushToken(r) PROVE SessionInv'
  <1>1. PICK d : d = sessions[r].device
    OBVIOUS
  <1>2. /\ RowsStay /\ UNCHANGED <<trust, stable, challenge, authOp, knows, removed>>
        /\ authOp = NoAuthOp /\ trust[d] = "trusted" /\ pushBound' = pushBound \cup {d}
    BY <1>1 DEF bindPushToken, LockFree, RowsStay
  <1>3. d \in AuthDevices
    BY <1>1, RowsAre DEF SessionInv, RowsInv
  <1>4. RowsInv' /\ LiveDevices' = LiveDevices
    BY <1>2, Staying DEF SessionInv
  <1>5. DeviceType'
    BY <1>2, <1>3 DEF SessionInv, DeviceType
  <1>6. Trusted' = Trusted /\ d \in Trusted
    BY <1>2, <1>3 DEF Trusted
  <1>7. removed' \cap Reached' = {}
    BY <1>2, <1>4, <1>6 DEF SessionInv, RemovedOut, Reached
  <1> QED BY <1>2, <1>4, <1>5, <1>7, Freed

-----------------------------------------------------------------------------
(* Removing devices.                                                        *)

LEMMA LogoutSession ==
    ASSUME SessionInv, NEW r \in Rows, NEW x \in Rows, logoutSession(r, x)
    PROVE  SessionInv'
  <1>1. /\ sessions' = Revoked("FAMILY", FamilyOf(x), NoFamily)
        /\ authOp' \in {NoAuthOp, [kind |-> "removeSessions", device |-> sessions[x].device]}
        /\ UNCHANGED <<exempt, single, password, trust, stable, challenge, pushBound, knows,
                       removed, floor>>
    BY DEF logoutSession
  <1>2. RowsInv' /\ LiveDevices' \subseteq LiveDevices
    BY <1>1, FamilyEnds DEF SessionInv
  <1>3. sessions[x].device \in AuthDevices
    BY RowsAre DEF SessionInv, RowsInv
  <1>4. DeviceType'
    <2>1. authOp' \in AuthOperations
      BY <1>1, <1>3 DEF AuthOperations
    <2> QED BY <1>1, <2>1 DEF SessionInv, DeviceType
  <1>5. RemovedOut'
    BY <1>1, <1>2 DEF SessionInv, RemovedOut, Reached, Trusted
  <1>6. OpKnows'
    BY <1>1 DEF OpKnows, NoAuthOp, RecoverKinds
  <1> QED BY <1>2, <1>4, <1>5, <1>6 DEF SessionInv

LEMMA RevokeDevice ==
    ASSUME SessionInv, revokeDeviceSessions \/ revokeDevice
    PROVE  SessionInv'
  <1>1. PICK d : d = authOp.device
    OBVIOUS
  <1>2. authOp \in AuthOperations /\ DeviceType
    BY DEF SessionInv, DeviceType
  <1>3. CASE revokeDeviceSessions
    <2>1. PICK rows : rows = {y \in Rows : sessions[y].device = d}
      OBVIOUS
    <2>2. /\ authOp.kind = "removeSessions" /\ sessions' = Revoked("DEVICE", rows, NoFamily)
          /\ authOp' = [authOp EXCEPT !.kind = "removeTrust"]
          /\ UNCHANGED <<exempt, single, password, trust, stable, challenge, pushBound,
                         knows, removed, floor>>
      BY <1>1, <1>3, <2>1 DEF revokeDeviceSessions
    <2>3. d \in AuthDevices /\ authOp = [kind |-> "removeSessions", device |-> d]
      BY <1>1, <1>2, <2>2 DEF AuthOperations, NoAuthOp, RecoverKinds
    <2>4. authOp' = [kind |-> "removeTrust", device |-> d]
      BY <2>2, <2>3
    <2>5. /\ RowsInv' /\ Fades /\ Rows' = Rows /\ LiveDevices' \subseteq LiveDevices
          /\ \A y \in Rows : y \in rows => ~Live(y)'
      BY <2>2, FamilyEnds DEF SessionInv
    <2>6. d \notin LiveDevices'
      BY <2>1, <2>5 DEF LiveDevices, Fades
    <2>7. DeviceType'
      <3>1. authOp' \in AuthOperations
        BY <2>3, <2>4 DEF AuthOperations
      <3> QED BY <1>2, <2>2, <3>1 DEF DeviceType
    <2>8. RemovedOut'
      BY <2>2, <2>5 DEF SessionInv, RemovedOut, Reached, Trusted
    <2>9. OpKnows'
      <3>1. authOp'.kind = "removeTrust" /\ authOp'.device = d
        BY <2>4
      <3> QED BY <2>6, <3>1 DEF OpKnows, RecoverKinds
    <2> QED BY <2>5, <2>7, <2>8, <2>9 DEF SessionInv
  <1>4. CASE revokeDevice
    <2>1. /\ authOp.kind = "removeTrust" /\ revokeOtherDevices(AuthDevices \ {d})
          /\ authOp' = [kind |-> "removeChallenges", gone |-> {d}]
          /\ RowsStay /\ UNCHANGED <<stable, challenge, knows, removed>>
      BY <1>1, <1>4 DEF revokeDevice, RowsStay
    <2>2. d \in AuthDevices /\ d \notin LiveDevices
      BY <1>1, <1>2, <2>1, OpIs DEF SessionInv, OpKnows, DeviceKinds
    <2>3. RowsInv' /\ LiveDevices' = LiveDevices
      BY <2>1, Staying DEF SessionInv
    <2>4. /\ trust' \in [AuthDevices -> {"unknown", "trusted", "revoked"}]
          /\ pushBound' \in SUBSET AuthDevices
          /\ Trusted' = Trusted \ {d} /\ pushBound' = pushBound \ {d}
      <3>1. /\ trust' \in [AuthDevices -> {"unknown", "trusted", "revoked"}]
            /\ pushBound' \in SUBSET AuthDevices
            /\ Trusted' = Trusted \cap (AuthDevices \ {d})
            /\ pushBound' = pushBound \cap (AuthDevices \ {d})
        BY <1>2, <2>1, RevokesDevices
      <3> QED BY <1>2, <3>1 DEF Trusted, DeviceType
    <2>5. DeviceType'
      <3>1. authOp' \in AuthOperations
        BY <2>1, <2>2 DEF AuthOperations
      <3> QED BY <1>2, <2>1, <2>4, <3>1 DEF DeviceType
    <2>6. Reached' \subseteq Reached \ {d}
      BY <2>2, <2>3, <2>4 DEF Reached
    <2>7. RemovedOut'
      BY <2>1, <2>6 DEF SessionInv, RemovedOut
    <2>8. OpKnows'
      <3>1. authOp'.kind = "removeChallenges" /\ authOp'.gone = {d}
        BY <2>1
      <3>2. authOp'.gone \cap Reached' = {}
        BY <2>6, <3>1
      <3> QED BY <3>1, <3>2 DEF OpKnows, RecoverKinds
    <2> QED BY <2>3, <2>5, <2>7, <2>8 DEF SessionInv
  <1> QED BY <1>3, <1>4

LEMMA LogoutOthers ==
    ASSUME SessionInv, NEW r \in Rows, logoutOtherSessions(r)
    PROVE  SessionInv'
  <1>1. PICK keep : keep = {sessions[r].device}
    OBVIOUS
  <1>2. /\ revokeOtherSessions(r) /\ authOp' = [kind |-> "othersTrust", keep |-> keep]
        /\ UNCHANGED <<single, password, trust, stable, challenge, pushBound, knows, removed, floor>>
    BY <1>1 DEF logoutOtherSessions
  <1>3. RowsInv' /\ LiveDevices' \subseteq LiveDevices \cap keep
    <2>1. single' \in BOOLEAN
      BY <1>2 DEF SessionInv, RowsInv, RowsType
    <2> QED BY <1>1, <1>2, <2>1, OthersEnd DEF SessionInv
  <1>4. keep \in SUBSET AuthDevices
    BY <1>1, RowsAre DEF SessionInv, RowsInv
  <1>5. DeviceType'
    <2>1. authOp' \in AuthOperations
      BY <1>2, <1>4 DEF AuthOperations
    <2> QED BY <1>2, <2>1 DEF SessionInv, DeviceType
  <1>6. RemovedOut'
    BY <1>2, <1>3 DEF SessionInv, RemovedOut, Reached, Trusted
  <1>7. OpKnows'
    <2>1. authOp'.kind = "othersTrust" /\ authOp'.keep = keep
      BY <1>2
    <2> QED BY <1>3, <2>1 DEF OpKnows, RecoverKinds
  <1> QED BY <1>3, <1>5, <1>6, <1>7 DEF SessionInv

LEMMA OthersTrust == ASSUME SessionInv, othersTrust PROVE SessionInv'
  <1>1. PICK keep : keep = authOp.keep
    OBVIOUS
  <1>2. /\ authOp.kind = "othersTrust" /\ revokeOtherDevices(keep)
        /\ authOp' = [kind |-> "removeChallenges", gone |-> AuthDevices \ keep]
        /\ RowsStay /\ UNCHANGED <<stable, challenge, knows, removed>>
    BY <1>1 DEF othersTrust, RowsStay
  <1>3. LiveDevices \subseteq keep
    BY <1>1, <1>2 DEF SessionInv, OpKnows
  <1>4. RowsInv' /\ LiveDevices' = LiveDevices
    BY <1>2, Staying DEF SessionInv
  <1>5. /\ trust' \in [AuthDevices -> {"unknown", "trusted", "revoked"}]
        /\ pushBound' \in SUBSET AuthDevices
        /\ Trusted' = Trusted \cap keep /\ pushBound' = pushBound \cap keep
    BY <1>2, RevokesDevices DEF SessionInv
  <1>6. DeviceType'
    <2>1. authOp' \in AuthOperations
      BY <1>2 DEF AuthOperations
    <2> QED BY <1>2, <1>5, <2>1 DEF SessionInv, DeviceType
  <1>7. Reached' \subseteq Reached \cap keep
    BY <1>3, <1>4, <1>5 DEF Reached
  <1>8. RemovedOut'
    BY <1>2, <1>7 DEF SessionInv, RemovedOut
  <1>9. OpKnows'
    <2>1. authOp'.kind = "removeChallenges" /\ authOp'.gone = AuthDevices \ keep
      BY <1>2
    <2>2. authOp'.gone \cap Reached' = {}
      BY <1>7, <2>1
    <2> QED BY <2>1, <2>2 DEF OpKnows, RecoverKinds
  <1> QED BY <1>4, <1>6, <1>8, <1>9 DEF SessionInv

LEMMA RemoveChallenges == ASSUME SessionInv, removeChallenges PROVE SessionInv'
  <1>1. PICK gone : gone = authOp.gone
    OBVIOUS
  <1>2. /\ authOp.kind = "removeChallenges" /\ invalidateChallenges
        /\ removed' = removed \cup gone /\ authOp' = NoAuthOp
        /\ RowsStay /\ UNCHANGED <<trust, stable, pushBound, knows>>
    BY <1>1 DEF removeChallenges, RowsStay
  <1>3. gone \in SUBSET AuthDevices /\ gone \cap Reached = {}
    BY <1>1, <1>2, OpIs DEF SessionInv, DeviceType, OpKnows
  <1>4. RowsInv' /\ LiveDevices' = LiveDevices
    BY <1>2, Staying DEF SessionInv
  <1>5. challenge' \in [AuthDevices -> Challenges]
    BY <1>2, CancelTyped DEF SessionInv
  <1>6. DeviceType'
    BY <1>2, <1>3, <1>5, OpIs DEF SessionInv, DeviceType
  <1>7. Reached' = Reached
    BY <1>2, <1>4 DEF Reached, Trusted
  <1>8. removed' \cap Reached' = {}
    BY <1>2, <1>3, <1>7 DEF SessionInv, RemovedOut
  <1> QED BY <1>2, <1>4, <1>6, <1>8, Freed

\* A logout of everything, or a change of password, begins ...
LEMMA AllBegins ==
    ASSUME SessionInv, NEW r \in Rows, logoutAll(r) \/ changePassword(r)
    PROVE  SessionInv'
  <1>1. PICK keep, last : keep = {sessions[r].device} /\ last = authOp'.floor
    OBVIOUS
  <1>2. password \in Nat /\ floor \in Nat /\ floor <= password
    BY DEF SessionInv, RowsInv, RowsType, OldIsCut
  <1>3. /\ UNCHANGED <<sessions, exempt, single, trust, stable, challenge, pushBound, knows,
                       removed, floor>>
        /\ authOp' = [kind |-> "allTrust", keep |-> keep, floor |-> last]
        /\ password' \in Nat /\ password <= password' /\ last \in Nat /\ last <= password'
    <2>1. CASE logoutAll(r)
      <3>1. /\ authOp' = [kind |-> "allTrust", keep |-> keep, floor |-> floor]
            /\ UNCHANGED <<sessions, exempt, single, password, trust, stable, challenge, pushBound,
                           knows, removed, floor>>
        BY <1>1, <2>1 DEF logoutAll
      <3>2. last = floor
        BY <1>1, <3>1
      <3> QED BY <1>2, <3>1, <3>2
    <2>2. CASE changePassword(r)
      <3>1. /\ authOp' = [kind |-> "allTrust", keep |-> keep, floor |-> password + 1]
            /\ password' = password + 1
            /\ UNCHANGED <<sessions, exempt, single, trust, stable, challenge, pushBound,
                           knows, removed, floor>>
        BY <1>1, <2>2 DEF changePassword
      <3>2. last = password + 1
        BY <1>1, <3>1
      <3> QED BY <1>2, <3>1, <3>2
    <2> QED BY <2>1, <2>2
  <1>4. keep \in SUBSET AuthDevices
    BY <1>1, RowsAre DEF SessionInv, RowsInv
  <1>5. Rows' = Rows /\ LiveDevices' = LiveDevices
    BY <1>3 DEF Rows, LiveDevices, Live
  <1>6. RowsInv'
    <2>1. RowsType'
      BY <1>3 DEF SessionInv, RowsInv, RowsType
    <2>2. Families' /\ LiveAccepted' /\ OneLoginWhenSingle'
      BY <1>3, <1>5 DEF SessionInv, RowsInv, Families, LiveAccepted, OneLoginWhenSingle, Live,
         verifyInDatabase
    <2>3. floor' <= password'
      BY <1>2, <1>3
    <2>4. OldIsCut'
      BY <1>3, <1>5, <2>3 DEF SessionInv, RowsInv, OldIsCut
    <2> QED BY <2>1, <2>2, <2>4 DEF RowsInv
  <1>7. DeviceType'
    <2>1. authOp' \in AuthOperations
      BY <1>3, <1>4 DEF AuthOperations
    <2> QED BY <1>3, <2>1 DEF SessionInv, DeviceType
  <1>8. RemovedOut'
    BY <1>3, <1>5 DEF SessionInv, RemovedOut, Reached, Trusted
  <1>9. OpKnows'
    <2>1. authOp'.kind = "allTrust" /\ authOp'.floor = last
      BY <1>3
    <2> QED BY <1>3, <2>1 DEF OpKnows, RecoverKinds
  <1> QED BY <1>6, <1>7, <1>8, <1>9 DEF SessionInv

\* ... and goes on.
LEMMA AllGoesOn == ASSUME SessionInv, allTrust \/ allChallenges PROVE SessionInv'
  <1>1. PICK keep : keep = authOp.keep
    OBVIOUS
  <1>2. authOp \in AuthOperations /\ DeviceType
    BY DEF SessionInv, DeviceType
  <1>3. ASSUME NEW kind \in AllKinds, authOp.kind \in AllKinds,
               authOp' = [authOp EXCEPT !.kind = kind], UNCHANGED password
        PROVE  /\ authOp' \in AuthOperations /\ authOp'.kind = kind /\ authOp'.keep = keep
               /\ authOp'.floor <= password'
    <2>1. authOp \in [kind : AllKinds, keep : SUBSET AuthDevices, floor : Nat]
      BY <1>2, <1>3, OpIs
    <2>2. authOp' \in [kind : AllKinds, keep : SUBSET AuthDevices, floor : Nat]
      BY <1>3, <2>1
    <2>3. authOp' \in AuthOperations
      BY <2>2 DEF AuthOperations, AllKinds
    <2>4. authOp.floor <= password
      BY <1>3 DEF SessionInv, OpKnows, AllKinds
    <2> QED BY <1>1, <1>3, <2>1, <2>3, <2>4
  <1>4. CASE allTrust
    <2>1. /\ authOp.kind = "allTrust" /\ revokeOtherDevices(keep)
          /\ authOp' = [authOp EXCEPT !.kind = "allChallenges"]
          /\ RowsStay /\ UNCHANGED <<stable, challenge, knows, removed>>
      BY <1>1, <1>4 DEF allTrust, RowsStay
    <2>2. /\ authOp' \in AuthOperations /\ authOp'.kind = "allChallenges" /\ authOp'.keep = keep
          /\ authOp'.floor <= password'
      BY <1>3, <2>1 DEF AllKinds, RowsStay
    <2>3. RowsInv' /\ LiveDevices' = LiveDevices
      BY <2>1, Staying DEF SessionInv
    <2>4. /\ trust' \in [AuthDevices -> {"unknown", "trusted", "revoked"}]
          /\ pushBound' \in SUBSET AuthDevices
          /\ Trusted' = Trusted \cap keep /\ pushBound' = pushBound \cap keep
      BY <1>2, <2>1, RevokesDevices
    <2>5. DeviceType'
      BY <1>2, <2>1, <2>2, <2>4 DEF DeviceType
    <2>6. RemovedOut'
      BY <2>1, <2>3, <2>4 DEF SessionInv, RemovedOut, Reached
    <2>7. OpKnows'
      BY <2>2, <2>4 DEF OpKnows, RecoverKinds
    <2> QED BY <2>3, <2>5, <2>6, <2>7 DEF SessionInv
  <1>5. CASE allChallenges
    <2>1. /\ authOp.kind = "allChallenges" /\ invalidateChallenges
          /\ authOp' = [authOp EXCEPT !.kind = "allSessions"]
          /\ RowsStay /\ UNCHANGED <<trust, stable, pushBound, knows, removed>>
      BY <1>5 DEF allChallenges, RowsStay
    <2>2. /\ authOp' \in AuthOperations /\ authOp'.kind = "allSessions" /\ authOp'.keep = keep
          /\ authOp'.floor <= password'
      BY <1>3, <2>1 DEF AllKinds, RowsStay
    <2>3. Trusted \cup pushBound \subseteq keep
      BY <1>1, <2>1 DEF SessionInv, OpKnows
    <2>4. RowsInv' /\ LiveDevices' = LiveDevices
      BY <2>1, Staying DEF SessionInv
    <2>5. challenge' \in [AuthDevices -> Challenges]
      BY <1>2, <2>1, CancelTyped
    <2>6. DeviceType'
      BY <1>2, <2>1, <2>2, <2>5 DEF DeviceType
    <2>7. Trusted' = Trusted /\ pushBound' = pushBound
      BY <2>1 DEF Trusted
    <2>8. RemovedOut'
      BY <2>1, <2>4, <2>7 DEF SessionInv, RemovedOut, Reached
    <2>9. OpKnows'
      BY <2>2, <2>3, <2>7 DEF OpKnows, RecoverKinds
    <2> QED BY <2>4, <2>6, <2>8, <2>9 DEF SessionInv
  <1> QED BY <1>4, <1>5

LEMMA AllSessions == ASSUME SessionInv, allSessions PROVE SessionInv'
  <1>1. PICK keep : keep = authOp.keep
    OBVIOUS
  <1>2. /\ authOp.kind = "allSessions" /\ revokeAll
        /\ removed' = removed \cup (AuthDevices \ keep) /\ floor' = authOp.floor
        /\ authOp' = NoAuthOp
        /\ UNCHANGED <<exempt, single, password, trust, stable, challenge, pushBound, knows>>
    BY <1>1 DEF allSessions
  <1>3. Trusted \cup pushBound \subseteq keep
    BY <1>1, <1>2 DEF SessionInv, OpKnows
  <1>4. floor' \in Nat /\ floor' <= password' /\ password' \in Nat
    <2>1. authOp \in [kind : AllKinds, keep : SUBSET AuthDevices, floor : Nat]
      BY <1>2, OpIs DEF SessionInv, DeviceType, AllKinds
    <2>2. authOp.floor \in Nat
      BY <2>1
    <2>3. authOp.floor <= password /\ password \in Nat
      BY <1>2 DEF SessionInv, OpKnows, RowsInv, RowsType
    <2> QED BY <1>2, <2>2, <2>3
  <1>5. RowsInv' /\ LiveDevices' = {}
    <2>1. \A r \in Rows : sessions[r] \in RowRecords
      BY RowsAre DEF SessionInv, RowsInv
    <2>2. ASSUME NEW r \in Rows
          PROVE  /\ sessions'[r] \in RowRecords
                 /\ sessions'[r].family = sessions[r].family
                 /\ sessions'[r].device = sessions[r].device
                 /\ sessions'[r].state # "LIVE"
                 /\ sessions'[r].cut \/ sessions'[r].state # "ROTATED"
      <3>1. CASE Live(r)
        <4>1. sessions'[r] = [sessions[r] EXCEPT !.state = "ENDED", !.stale = {}]
          BY <1>2, <3>1 DEF revokeAll, Ended
        <4> QED BY <2>1, <4>1 DEF RowRecords
      <3>2. CASE ~Live(r)
        <4>1. sessions'[r] = [sessions[r] EXCEPT !.cut = TRUE]
          BY <1>2, <3>2 DEF revokeAll
        <4>2. /\ sessions'[r] \in RowRecords /\ sessions'[r].cut = TRUE
              /\ sessions'[r].family = sessions[r].family
              /\ sessions'[r].device = sessions[r].device
              /\ sessions'[r].state = sessions[r].state
          BY <2>1, <4>1 DEF RowRecords
        <4> QED BY <3>2, <4>2 DEF Live
      <3> QED BY <3>1, <3>2
    <2>3. sessions' \in [Rows -> RowRecords]
      BY <1>2, <2>2 DEF revokeAll
    <2> QED BY <1>2, <1>4, <2>2, <2>3, AllEnd DEF SessionInv
  <1>6. DeviceType'
    BY <1>2, OpIs DEF SessionInv, DeviceType
  <1>7. removed' \cap Reached' = {}
    BY <1>2, <1>3, <1>5 DEF SessionInv, RemovedOut, Reached, Trusted
  <1> QED BY <1>2, <1>5, <1>6, <1>7, Freed

LEMMA ResetPassword == ASSUME SessionInv, resetPassword PROVE SessionInv'
  <1>1. /\ password' = password + 1 /\ floor' = password + 1
        /\ sessions' = [r \in Rows |-> [sessions[r] EXCEPT !.cut = TRUE,
                                          !.state = IF Live(r) THEN "PASSWORD_RESET" ELSE @]]
        /\ authOp' = [kind |-> "othersTrust", keep |-> {}]
        /\ UNCHANGED <<exempt, single, trust, stable, challenge, pushBound, knows, removed>>
    BY DEF resetPassword
  <1>2. password' \in Nat /\ floor' \in Nat /\ floor' <= password'
    <2>1. password' = password + 1 /\ floor' = password + 1
      BY <1>1
    <2>2. password \in Nat
      BY DEF SessionInv, RowsInv, RowsType
    <2>3. password' \in Nat /\ floor' = password'
      BY <2>1, <2>2
    <2> QED BY <2>3
  <1>3. RowsInv' /\ LiveDevices' = {}
    <2>1. \A r \in Rows : sessions[r] \in RowRecords
      BY RowsAre DEF SessionInv, RowsInv
    <2>2. ASSUME NEW r \in Rows
          PROVE  /\ sessions'[r] \in RowRecords
                 /\ sessions'[r].family = sessions[r].family
                 /\ sessions'[r].device = sessions[r].device
                 /\ sessions'[r].state # "LIVE"
                 /\ sessions'[r].cut = TRUE
      <3>1. CASE Live(r)
        <4>1. sessions'[r] = [sessions[r] EXCEPT !.cut = TRUE, !.state = "PASSWORD_RESET"]
          BY <1>1, <3>1
        <4> QED BY <2>1, <4>1 DEF RowRecords
      <3>2. CASE ~Live(r)
        <4>1. sessions'[r] = [sessions[r] EXCEPT !.cut = TRUE, !.state = sessions[r].state]
          BY <1>1, <2>1, <3>2 DEF RowRecords
        <4>2. /\ sessions'[r] \in RowRecords /\ sessions'[r].cut = TRUE
              /\ sessions'[r].family = sessions[r].family
              /\ sessions'[r].device = sessions[r].device
              /\ sessions'[r].state = sessions[r].state
          BY <2>1, <4>1 DEF RowRecords
        <4> QED BY <3>2, <4>2 DEF Live
      <3> QED BY <3>1, <3>2
    <2>3. sessions' \in [Rows -> RowRecords]
      BY <1>1, <2>2
    <2>4. \A r \in Rows : sessions'[r].cut
      BY <2>2
    <2> QED BY <1>1, <1>2, <2>2, <2>3, <2>4, AllEnd DEF SessionInv
  <1>4. DeviceType'
    <2>1. authOp' \in AuthOperations
      BY <1>1 DEF AuthOperations
    <2> QED BY <1>1, <2>1 DEF SessionInv, DeviceType
  <1>5. RemovedOut'
    BY <1>1, <1>3 DEF SessionInv, RemovedOut, Reached, Trusted
  <1>6. OpKnows'
    BY <1>1, <1>3 DEF OpKnows, RecoverKinds
  <1> QED BY <1>3, <1>4, <1>5, <1>6 DEF SessionInv

-----------------------------------------------------------------------------
(* The whole.                                                               *)

LEMMA SessionStart == ASSUME SessionInit PROVE SessionInv
  <1>1. /\ sessions = <<>> /\ exempt = [s \in Scopes |-> NoFamily] /\ single = FALSE
        /\ password = 0 /\ floor = 0
        /\ trust = [d \in AuthDevices |-> "unknown"] /\ stable = [d \in AuthDevices |-> NoFamily]
        /\ challenge = [d \in AuthDevices |-> Closed]
        /\ pushBound = {} /\ removed = {} /\ authOp = NoAuthOp
        /\ knows = [d \in AuthDevices |-> -1]
    BY DEF SessionInit
  <1>2. sessions \in Seq(RowRecords) /\ Rows = {}
    BY <1>1, EmptySeq DEF Rows
  <1>3. RowsInv
    <2>1. RowsType
      BY <1>1, <1>2 DEF RowsType
    <2>2. Families /\ LiveAccepted /\ OneLoginWhenSingle
      BY <1>2 DEF Families, LiveAccepted, OneLoginWhenSingle
    <2>3. OldIsCut
      BY <1>1, <1>2 DEF OldIsCut
    <2> QED BY <2>1, <2>2, <2>3 DEF RowsInv
  <1>4. DeviceType
    <2>1. Closed \in Challenges
      BY DEF Closed, Challenges
    <2>2. authOp \in AuthOperations
      BY <1>1 DEF AuthOperations
    <2> QED BY <1>1, <2>1, <2>2 DEF DeviceType
  <1>5. OpKnows
    BY <1>1 DEF OpKnows, NoAuthOp, RecoverKinds
  <1>6. RemovedOut
    BY <1>1 DEF RemovedOut
  <1> QED BY <1>3, <1>4, <1>5, <1>6 DEF SessionInv

LEMMA SessionStep == ASSUME SessionInv, [SessionNext]_sessionVars PROVE SessionInv'
  <1>1. CASE AuthEvent
    <2>1. CASE AuthOpFails \/ resetPassword
      BY <2>1, Fails, ResetPassword
    <2>2. CASE \E d, e \in AuthDevices : reject(e, d)
      BY <2>2, ChallengeSteps
    <2>3. CASE \E r \in Rows :
                  \/ revoke(r) \/ logoutOtherSessions(r) \/ logoutAll(r) \/ changePassword(r)
                  \/ \E enabled \in BOOLEAN : setSingleDeviceLogin(r, enabled)
                  \/ \E x \in Rows : logoutSession(r, x)
      BY <2>3, Revoke, LogoutOthers, AllBegins, SetSingle, LogoutSession
    <2> QED BY <1>1, <2>1, <2>2, <2>3 DEF AuthEvent
  <1>2. CASE Continue
    BY <1>2, IssueTokens, CompleteVerified, Recovers, RevokeDevice, OthersTrust, RemoveChallenges,
       AllGoesOn, AllSessions DEF Continue
  <1>3. CASE \E d \in AuthDevices :
                \/ login(d) \/ evaluateLogin(d) \/ consumeAfterSecurityCode(d) \/ consumeWithCode(d)
                \/ requestRecovery(d) \/ approve(d) \/ reopenIfCodeExpired(d)
                \/ \E e \in AuthDevices : assertTrustedApprover(e, d)
    BY <1>3, Login, EvaluateLogin, Consumes, ChallengeSteps
  <1>4. CASE \E r \in Rows :
                \/ \E s \in AuthDevices \cup {NoFamily} : refreshLocked(r, s)
                \/ bindPushToken(r)
    BY <1>4, Refresh, BindPush
  <1>5. CASE UNCHANGED sessionVars
    <2>1. RowsStay /\ UNCHANGED <<trust, stable, pushBound, removed, authOp, challenge, knows>>
      BY <1>5 DEF sessionVars, RowsStay
    <2>2. challenge' \in [AuthDevices -> Challenges] /\ knows' \in [AuthDevices -> Nat \cup {-1}]
      BY <2>1 DEF SessionInv, DeviceType
    <2> QED BY <2>1, <2>2, Minor
  <1> QED BY <1>1, <1>2, <1>3, <1>4, <1>5 DEF SessionNext

(* Types and the inductive invariant: a family is one login on one device,   *)
(* a row that can be refreshed is accepted, and what an operation of several *)
(* transactions has removed so far stays removed while it holds the lock,    *)
(* whatever comes in between.                                                *)
THEOREM SessionInvariant == SessionSpec => []SessionInv
  <1> QED BY SessionStart, SessionStep, PTL DEF SessionSpec

(* While single device login is on, the access tokens that pass              *)
(* SessionVerifier belong to one login.                                      *)
THEOREM SingleLogin == SessionSpec => []OneLoginWhenSingle
  <1>1. SessionInv => OneLoginWhenSingle
    BY DEF SessionInv, RowsInv
  <1> QED BY <1>1, SessionInvariant, PTL

(* A device removed in device management has no session that can be          *)
(* refreshed, no push token and no trust until it is let in again; the       *)
(* invariant has it also while another operation is under way.               *)
THEOREM RemovedStayOut == SessionSpec => []RemovedStaysOut
  <1>1. SessionInv => RemovedStaysOut
    <2>1. ASSUME SessionInv, NEW d \in removed
          PROVE  /\ trust[d] # "trusted" /\ d \notin pushBound
                 /\ \A r \in Rows : sessions[r].device = d => ~Live(r)
      BY <2>1 DEF SessionInv, DeviceType, RemovedOut, Reached, LiveDevices, Trusted
    <2> QED BY <2>1 DEF RemovedStaysOut
  <1> QED BY <1>1, SessionInvariant, PTL

(* Once a change of password is complete nothing that began with an older    *)
(* one is accepted by SessionVerifier.                                       *)
THEOREM PasswordEnds == SessionSpec => []PasswordEndsSessions
  <1>1. SessionInv => PasswordEndsSessions
    <2>1. ASSUME SessionInv, NEW r \in Rows, verifyInDatabase(r)
          PROVE  sessions[r].password >= floor
      <3>1. ~(sessions[r].password < floor)
        BY <2>1 DEF SessionInv, RowsInv, OldIsCut, verifyInDatabase
      <3>2. sessions[r].password \in Nat /\ floor \in Nat
        BY <2>1, RowsAre DEF SessionInv, RowsInv, RowsType
      <3> QED BY <3>1, <3>2
    <2> QED BY <2>1 DEF PasswordEndsSessions
  <1> QED BY <1>1, SessionInvariant, PTL
=============================================================================
