----------------------------- MODULE MCCoinLedger -----------------------------
(* Model checking of CoinLedger.                                            *)
EXTENDS CoinLedger, TLC

CONSTANTS a, b, c, o1, o2

\* What everybody starts with: three coins exceed the daily limit of gifts.
Three == [u \in Users |-> 3]
Two == [u \in Users |-> 2]

\* o1 and o2 recharge the wallet that also buys and is rewarded.
Recharges == [o \in Orders |-> a]

\* a has invited b and c.
Invited == {[inviter |-> a, invitee |-> b], [inviter |-> a, invitee |-> c]}
NobodyInvited == {}

Cards == {[price |-> 1, seats |-> 1], [price |-> 2, seats |-> 1]}

Symmetry == Permutations(Keys) \cup Permutations(Workers) \cup Permutations(Payments)
=============================================================================
