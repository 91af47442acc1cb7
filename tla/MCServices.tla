------------------------------ MODULE MCServices ------------------------------
(***************************************************************************)
(* Safety of the push outbox, of the sessions of an account, of admission  *)
(* to a circle, of friend requests and of account identifiers.  They share *)
(* no rows, so a behaviour exercises one of them, chosen at the start; the *)
(* others stay in an initial state.                                        *)
(***************************************************************************)
EXTENDS PushOutbox, Sessions, CircleAdmission, Friendship, FancyNumber, TLC

VARIABLE service

serviceVars == <<service, pushVars, sessionVars, circleVars, friendVars, fancyVars>>

CONSTANTS u1, n1

\* The first user has been there before the market opened.
MCFirstName == u1 :> n1

\* Operations on sessions that are looked at together.
Profiles == {{"securityCode", "single", "logoutOthers", "changePassword",
              "resetPassword", "logoutAll"},
             {"logoutSession", "push", "approval"},
             {"logoutSession", "logoutOthers", "recovery", "reinstall"}}

\* A circle is looked at with one row and its delivery, and with all rows
\* ("roads") but without delivery and with one leaving, edit or the like.
CircleBound ==
    IF service = "circle" THEN Cardinality(Invitations') <= 1
    ELSE UNCHANGED delivering /\ circleEvents' <= 1

ServiceInit ==
    /\ service \in {"push", "sessions", "circle", "roads", "friends", "names"}
    /\ PushInit /\ SessionInit /\ CircleInit /\ FriendInit /\ FancyInit
    /\ service = "sessions" \/ authOps = CHOOSE p \in AuthProfiles : TRUE
    /\ service = "names" \/ \A n \in Names : stock[n] = "NONE"
    /\ \/ service \in {"circle", "roads"}
       \/ /\ circle.required = CHOOSE n \in RequiredVotes : TRUE
          /\ circle.maxMembers = CHOOSE n \in CircleCapacities : TRUE

ServiceNext ==
    /\ UNCHANGED service
    /\ \/ /\ service = "push" /\ PushNext
          /\ UNCHANGED <<sessionVars, circleVars, friendVars, fancyVars>>
       \/ /\ service = "sessions" /\ SessionNext
          /\ UNCHANGED <<pushVars, circleVars, friendVars, fancyVars>>
       \/ /\ service \in {"circle", "roads"} /\ CircleNext /\ CircleBound
          /\ UNCHANGED <<pushVars, sessionVars, friendVars, fancyVars>>
       \/ /\ service = "friends" /\ FriendNext
          /\ UNCHANGED <<pushVars, sessionVars, circleVars, fancyVars>>
       \/ /\ service = "names" /\ FancyNext
          /\ UNCHANGED <<pushVars, sessionVars, circleVars, friendVars>>

\* The two workers of a service, the sides of a friendship, the devices of an
\* account and the keys of orders may be exchanged, here all at once.
Turned(Pair, exchange) ==
    CHOOSE p \in Permutations(Pair) : \A v \in Pair : p[v] # v <=> exchange
Symmetry == {Turned(PushWorkers, x) @@ Turned(Deliverers, x)
             @@ Turned(ReplayWorkers, x) @@ Turned(Pals, x)
             @@ Turned(AuthDevices, x) @@ Turned(OrderKeys, x) : x \in BOOLEAN}

ServiceSpec == ServiceInit /\ [][ServiceNext]_serviceVars
=============================================================================
