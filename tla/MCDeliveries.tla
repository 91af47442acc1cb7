----------------------------- MODULE MCDeliveries -----------------------------
(***************************************************************************)
(* Liveness of everything the server promises to deliver later: transfer   *)
(* cards of gifts, pushes, seats in a circle's chat and copied requests.   *)
(* The four share no rows, so a behaviour exercises one of them, chosen at *)
(* the start; the others stay in their initial state, in which none of     *)
(* their fair actions is enabled.                                          *)
(***************************************************************************)
EXTENDS MCCoinLedger, PushOutbox, CircleSeats, Friendship

VARIABLE service

deliveryVars == <<service, vars, pushVars, seatVars, friendVars>>

DeliveryInit ==
    /\ service \in {"cards", "push", "seats", "replay"}
    /\ Init /\ PushInit /\ SeatInit /\ FriendInit

DeliveryNext ==
    /\ UNCHANGED service
    /\ \/ service = "cards" /\ Next /\ UNCHANGED <<pushVars, seatVars, friendVars>>
       \/ service = "push" /\ PushNext /\ UNCHANGED <<vars, seatVars, friendVars>>
       \/ service = "seats" /\ SeatNext /\ UNCHANGED <<vars, pushVars, friendVars>>
       \/ service = "replay" /\ FriendNext /\ UNCHANGED <<vars, pushVars, seatVars>>

DeliverySpec ==
    /\ DeliveryInit /\ [][DeliveryNext]_deliveryVars
    /\ CronFairness /\ PushFairness /\ SeatFairness /\ FriendFairness
=============================================================================
