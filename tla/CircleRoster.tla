---------------------------- MODULE CircleRoster -----------------------------
(***************************************************************************)
(* What admission promises about the members of a circle, whichever of the *)
(* roads - votes, an administrator, an invitation, a code - led there:     *)
(* members come one at a time, while the circle is open, into a free place *)
(* and never against a ban; a ban is for people outside; the keeper stays; *)
(* and the count moves with every coming and going.                        *)
(***************************************************************************)
EXTENDS Naturals, FiniteSets

CONSTANTS
  People,    \* users
  Keeper     \* the owner of the circle

VARIABLES
  inside,    \* the members
  count,     \* how many the circle believes it has
  limit,     \* how many it may have
  banned,    \* people who may not come in
  open       \* it has not been dissolved

rosterVars == <<inside, count, limit, banned, open>>

RosterInit ==
  /\ Keeper \in inside /\ inside \subseteq People
  /\ count = Cardinality(inside) /\ count <= limit
  /\ banned = {} /\ open = TRUE

Come(u) ==
  /\ open /\ u \notin inside \union banned /\ count < limit
  /\ inside' = inside \union {u} /\ count' = count + 1
  /\ UNCHANGED <<limit, banned, open>>

Go(u) ==
  /\ u \in inside \ {Keeper}
  /\ inside' = inside \ {u} /\ count' = count - 1
  /\ UNCHANGED <<limit, banned, open>>

Ban(u) ==
  /\ u \notin inside
  /\ banned' = banned \union {u}
  /\ UNCHANGED <<inside, count, limit, open>>

Dissolve == open /\ open' = FALSE /\ UNCHANGED <<inside, count, limit, banned>>

RosterNext == Dissolve \/ \E u \in People : Come(u) \/ Go(u) \/ Ban(u)

RosterSpec == RosterInit /\ [][RosterNext]_rosterVars
=============================================================================
