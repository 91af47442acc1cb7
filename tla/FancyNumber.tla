----------------------------- MODULE FancyNumber -----------------------------
(***************************************************************************)
(* Account identifiers and the fancy numbers sold for a time: the registry *)
(* all accounts, invite codes and numbers share, the stock, the leases and *)
(* their orders.                                                           *)
(*                                                                         *)
(* Every transaction is SERIALIZABLE and runs again after a conflict (the  *)
(* registration is not, but meets the others at the advisory locks its     *)
(* trigger takes), so each is one step here.  What is not one step is a    *)
(* request: it notes the time, looks for an earlier order or a lease that  *)
(* has run out, and only then runs its transaction.  The triggers on User  *)
(* and AccountIdentifier are part of the steps that fire them.             *)
(***************************************************************************)
EXTENDS Integers, FiniteSets, FiniteSetsExt

CONSTANTS
    Owners,         \* users
    Names,          \* identifiers
    FirstName,      \* names, and invite codes, from before the market opened
    Legacy,         \* those of them who may have had a fancy number then
    OpeningPoints,  \* points of every user
    OrderKeys,      \* idempotency keys
    Months,         \* how long one may buy
    FancyWorkers,   \* requests that overlap
    FancyOps,       \* the operations that occur
    MaxClock,       \* months looked at
    Unit,           \* FANCY_NUMBER_UNIT_PRICE
    NoName          \* no user, no name, no lease

VARIABLES
    account,        \* User.accountId
    registry,       \* AccountIdentifier: the claims on a name, or NoName
    stock,          \* FancyNumber.status
    lease,          \* the open lease of a user
    super,          \* users with the highest membership, which does not end
    points,         \* wallets
    orders,         \* FancyNumberOrder
    clock,          \* months that have passed
    request,        \* what a worker is doing
    home            \* the name a user goes back to

fancyVars == <<account, registry, stock, lease, super, points, orders, clock, request, home>>

ASSUME FancyAssumption ==
    /\ DOMAIN FirstName \subseteq Owners /\ Legacy \subseteq DOMAIN FirstName
    /\ \A u \in DOMAIN FirstName : FirstName[u] \in Names
    /\ \A u, v \in DOMAIN FirstName : FirstName[u] = FirstName[v] => u = v
    /\ NoName \notin Owners \cup Names \cup OrderKeys
    /\ Months \subseteq Nat \ {0} /\ Unit \in Nat \ {0} /\ OpeningPoints \in Nat
ASSUME NoNameAssumption ==  \* no claims and no lease are NoName
    /\ NoName \notin [current : Owners \cup {NoName}, reserved : Owners \cup {NoName},
                      invite : Owners \cup {NoName}]
    /\ NoName \notin [number : Names, restore : Names \cup {NoName}, id : OrderKeys \cup {NoName},
                      from : Nat, until : Nat, permanent : BOOLEAN]

Unclaimed == [current |-> NoName, reserved |-> NoName, invite |-> NoName]
NoRequest == [kind |-> "idle"]
OpenLease(u) == lease[u] # NoName
Due(u, now) == OpenLease(u) /\ ~lease[u].permanent /\ lease[u].until <= now

-----------------------------------------------------------------------------
(* The triggers on User, for a user whose name changes from old to v: a    *)
(* claim that the transaction has not assigned before is moved, and the    *)
(* old row is deleted when nothing refers to it any more.                  *)

Occupied(reg, u, v) ==
    /\ reg[v] # NoName /\ reg[v].current # u
    /\ \/ reg[v].current # NoName \/ reg[v].reserved # NoName
       \/ reg[v].invite \notin {NoName, u}
       \/ stock[v] # "NONE"

Prepared(reg, u, old, v) ==
    IF reg[v] # NoName /\ reg[v].current = u THEN reg
    ELSE [n \in Names |->
            CASE n = v -> [(IF reg[v] = NoName THEN Unclaimed ELSE reg[v]) EXCEPT !.current = u]
              [] n = old -> [reg[old] EXCEPT !.current = NoName]
              [] OTHER -> reg[n]]

Cleaned(reg, old) ==
    IF reg[old] = Unclaimed /\ stock[old] = "NONE" THEN [reg EXCEPT ![old] = NoName] ELSE reg

\* UPDATE "User" SET "accountId" = v.
Rename(u, v, reg) ==
    /\ ~Occupied(reg, u, v)
    /\ account' = [account EXCEPT ![u] = v]
    /\ registry' = Cleaned(Prepared(reg, u, account[u], v), account[u])

-----------------------------------------------------------------------------
(* Leases.                                                                  *)

\* Fault: what is still claimed is for sale again.
releaseFancyNumberInventory_Always(n) == "AVAILABLE"

\* What becomes of a number given back: somebody may keep it as an invite code.
releaseFancyNumberInventory(n) ==
    IF registry[n].reserved = NoName /\ registry[n].invite = NoName
    THEN "AVAILABLE" ELSE "DISABLED"

\* The number goes back to the stock; the user gets his own back, which has
\* been reserved for him.
restoreExpiredLeaseInTransaction(u) ==
    LET number == lease[u].number
        own == lease[u].restore
    IN
    /\ own # NoName /\ account[u] = number /\ stock[number] = "LEASED"
    /\ registry[number].current = u
    /\ registry[own].current = NoName /\ registry[own].reserved = u
    /\ Rename(u, own, [registry EXCEPT ![number].current = NoName,
                                      ![own].current = u, ![own].reserved = NoName])
    /\ stock' = [stock EXCEPT ![number] = releaseFancyNumberInventory(number)]
    /\ lease' = [lease EXCEPT ![u] = NoName]

\* From the cron, from a look at one's number, and before renaming.
expireLease(u) ==
    /\ Due(u, clock)
    /\ restoreExpiredLeaseInTransaction(u)
    /\ UNCHANGED <<super, points, orders, clock, request, home>>

\* The highest membership makes an open lease permanent, unless it has run
\* out: then it ends here.
convertActiveLeaseToPermanent(u) ==
    IF ~OpenLease(u) \/ lease[u].permanent THEN UNCHANGED <<account, registry, stock, lease>>
    ELSE IF Due(u, clock) THEN restoreExpiredLeaseInTransaction(u)
    ELSE /\ lease' = [lease EXCEPT ![u].permanent = TRUE]
         /\ stock' = [stock EXCEPT ![lease[u].number] = "PERMANENT"]
         /\ UNCHANGED <<account, registry>>

grantMembership(u) ==
    /\ account[u] # NoName /\ u \notin super
    /\ super' = super \cup {u}
    /\ convertActiveLeaseToPermanent(u)
    /\ UNCHANGED <<points, orders, clock, request, home>>

-----------------------------------------------------------------------------
(* Requests.                                                                *)

purchase(w, u, n, m, k) ==
    /\ request[w] = NoRequest /\ account[u] # NoName
    /\ request' = [request EXCEPT ![w] = [kind |-> "purchase", phase |-> "expire", user |-> u,
                                         target |-> n, months |-> m, key |-> k, now |-> clock]]
    /\ UNCHANGED <<account, registry, stock, lease, super, points, orders, clock, home>>

switchPermanent(w, u, n, k) ==
    /\ request[w] = NoRequest /\ account[u] # NoName
    /\ request' = [request EXCEPT ![w] = [kind |-> "switch", phase |-> "write", user |-> u,
                                         target |-> n, months |-> 0, key |-> k, now |-> clock]]
    /\ UNCHANGED <<account, registry, stock, lease, super, points, orders, clock, home>>

\* An order under this key is looked for before anything else.
renew(w, u, m, k) ==
    /\ request[w] = NoRequest /\ account[u] # NoName /\ k \notin DOMAIN orders
    /\ request' = [request EXCEPT ![w] = [kind |-> "renew", phase |-> "expire", user |-> u,
                                         target |-> NoName, months |-> m, key |-> k, now |-> clock]]
    /\ UNCHANGED <<account, registry, stock, lease, super, points, orders, clock, home>>

\* A lease that had run out when the request came in ends first; a renewal
\* then goes no further.
expireOverdueLeaseForUser(w) ==
    LET j == request[w] IN
    /\ j # NoRequest /\ j.phase = "expire"
    /\ IF Due(j.user, j.now)
       THEN /\ restoreExpiredLeaseInTransaction(j.user)
            /\ request' = [request EXCEPT ![w] = IF j.kind = "renew" THEN NoRequest
                                                ELSE [j EXCEPT !.phase = "write"]]
       ELSE /\ request' = [request EXCEPT ![w].phase = "write"]
            /\ UNCHANGED <<account, registry, stock, lease>>
    /\ UNCHANGED <<super, points, orders, clock, home>>

\* In the stock and free, or not in the stock and not in the registry: then
\* it is added to both.
resolvePurchasableTarget(n) ==
    \/ stock[n] = "AVAILABLE" /\ registry[n] = Unclaimed
    \/ stock[n] = "NONE" /\ registry[n] = NoName

Ordered(j, m, cost, id) ==
    /\ j.key \notin DOMAIN orders
    /\ points[j.user] >= cost
    /\ points' = [points EXCEPT ![j.user] = @ - cost]
    /\ orders' = [k \in DOMAIN orders \cup {j.key} |->
                     IF k = j.key THEN [user |-> j.user, lease |-> id, months |-> m, cost |-> cost]
                     ELSE orders[k]]
    /\ UNCHANGED <<super, clock>>

purchaseTarget(w) ==
    LET j == request[w]
        u == j.user
        own == account[u]
        permanent == u \in super
        m == IF permanent THEN 0 ELSE j.months
    IN
    /\ j.kind = "purchase" /\ j.phase = "write"
    /\ ~OpenLease(u)
    /\ resolvePurchasableTarget(j.target)
    /\ registry[own].current = u /\ registry[own].reserved = NoName
    /\ Rename(u, j.target, [registry EXCEPT ![own].current = NoName, ![own].reserved = u,
                                           ![j.target] = [Unclaimed EXCEPT !.current = u]])
    /\ stock' = [stock EXCEPT ![j.target] = IF permanent THEN "PERMANENT" ELSE "LEASED"]
    /\ lease' = [lease EXCEPT ![u] = [number |-> j.target, restore |-> own, id |-> j.key,
                                     from |-> j.now, until |-> j.now + m, permanent |-> permanent]]
    /\ Ordered(j, m, m * Unit, j.key)
    /\ home' = [home EXCEPT ![u] = own]
    /\ request' = [request EXCEPT ![w] = NoRequest]

switchPermanentTarget(w) ==
    LET j == request[w]
        u == j.user
        old == lease[u].number
    IN
    /\ j.kind = "switch" /\ j.phase = "write"
    /\ OpenLease(u) /\ lease[u].permanent /\ account[u] = old /\ stock[old] = "PERMANENT"
    /\ resolvePurchasableTarget(j.target)
    /\ registry[old].current = u
    /\ Rename(u, j.target, [registry EXCEPT ![old].current = NoName,
                                           ![j.target] = [Unclaimed EXCEPT !.current = u]])
    /\ stock' = [stock EXCEPT ![j.target] = "PERMANENT", ![old] = releaseFancyNumberInventory(old)]
    /\ lease' = [lease EXCEPT ![u].number = j.target]
    /\ Ordered(j, 0, Unit, lease[u].id)
    /\ request' = [request EXCEPT ![w] = NoRequest]
    /\ UNCHANGED home

renewLease(w) ==
    LET j == request[w]
        u == j.user
    IN
    /\ j.kind = "renew" /\ j.phase = "write"
    /\ OpenLease(u) /\ ~lease[u].permanent /\ lease[u].until > j.now
    /\ lease' = [lease EXCEPT ![u].until = @ + j.months]
    /\ Ordered(j, j.months, j.months * Unit, lease[u].id)
    /\ request' = [request EXCEPT ![w] = NoRequest]
    /\ UNCHANGED <<account, registry, stock, home>>

\* A replay and a refusal change nothing, nor does a transaction that met too
\* many conflicts, nor a process that died.
RequestEnds(w) ==
    /\ request[w] # NoRequest
    /\ request' = [request EXCEPT ![w] = NoRequest]
    /\ UNCHANGED <<account, registry, stock, lease, super, points, orders, clock, home>>

-----------------------------------------------------------------------------
(* Accounts and the stock.                                                  *)

\* A lease that has run out is ended before: expireLease.
changeAccountId(u, v) ==
    /\ account[u] \notin {NoName, v} /\ ~OpenLease(u)
    /\ registry[v] # NoName =>
         /\ registry[v].current = NoName /\ registry[v].reserved = NoName
         /\ registry[v].invite \in {NoName, u} /\ stock[v] = "NONE"
    /\ Rename(u, v, registry)
    /\ home' = [home EXCEPT ![u] = v]
    /\ UNCHANGED <<stock, lease, super, points, orders, clock, request>>

\* Fault: names kept for those who have a lease are given away.
register_IgnoresReserved(u, v, code) ==
    /\ account[u] = NoName
    /\ \A n \in {v, code} : registry[n] # NoName => registry[n].current = NoName
    /\ account' = [account EXCEPT ![u] = v]
    /\ registry' = [n \in Names |->
          IF n \notin {v, code} THEN registry[n]
          ELSE [current |-> IF n = v THEN u ELSE NoName, reserved |-> NoName,
                invite |-> IF n = code THEN u ELSE NoName]]
    /\ home' = [home EXCEPT ![u] = v]
    /\ UNCHANGED <<stock, lease, super, points, orders, clock, request>>

\* Registration with an identifier and an invite code, and its triggers.
register(u, v, code) ==
    /\ account[u] = NoName
    /\ \A n \in {v, code} : registry[n] \in {NoName, Unclaimed} /\ stock[n] = "NONE"
    /\ account' = [account EXCEPT ![u] = v]
    /\ registry' = [n \in Names |->
          IF n \notin {v, code} THEN registry[n]
          ELSE [current |-> IF n = v THEN u ELSE NoName, reserved |-> NoName,
                invite |-> IF n = code THEN u ELSE NoName]]
    /\ home' = [home EXCEPT ![u] = v]
    /\ UNCHANGED <<stock, lease, super, points, orders, clock, request>>

adminBatchCreate(v) ==
    /\ registry[v] = NoName
    /\ registry' = [registry EXCEPT ![v] = Unclaimed]
    /\ stock' = [stock EXCEPT ![v] = "AVAILABLE"]
    /\ UNCHANGED <<account, lease, super, points, orders, clock, request, home>>

adminSetAvailability(v, enabled) ==
    /\ stock[v] \in {"AVAILABLE", "DISABLED"}
    /\ enabled => registry[v] = Unclaimed
    /\ stock' = [stock EXCEPT ![v] = IF enabled THEN "AVAILABLE" ELSE "DISABLED"]
    /\ UNCHANGED <<account, registry, lease, super, points, orders, clock, request, home>>

Tick ==
    /\ clock < MaxClock /\ clock' = clock + 1
    /\ UNCHANGED <<account, registry, stock, lease, super, points, orders, request, home>>

-----------------------------------------------------------------------------

FancyInit == \E old \in SUBSET Legacy :
    LET First == DOMAIN FirstName IN
    /\ account = [u \in Owners |-> IF u \in First THEN FirstName[u] ELSE NoName]
    /\ registry = [n \in Names |->
          IF \E u \in First : FirstName[u] = n
          THEN LET u == CHOOSE x \in First : FirstName[x] = n
               IN [current |-> u, reserved |-> NoName, invite |-> u]
          ELSE NoName]
    /\ stock = [n \in Names |-> IF \E u \in old : FirstName[u] = n THEN "PERMANENT" ELSE "NONE"]
    /\ lease = [u \in Owners |->
          IF u \in old THEN [number |-> FirstName[u], restore |-> NoName, id |-> NoName,
                               from |-> 0, until |-> 0, permanent |-> TRUE]
          ELSE NoName]
    /\ super = {} /\ clock = 0
    /\ points = [u \in Owners |-> OpeningPoints]
    /\ orders = [k \in {} |-> NoName]
    /\ request = [w \in FancyWorkers |-> NoRequest]
    /\ home = [u \in Owners |-> IF u \in First \ old THEN FirstName[u] ELSE NoName]

FancyNext ==
    \/ Tick
    \/ \E w \in FancyWorkers :
          \/ expireOverdueLeaseForUser(w) \/ purchaseTarget(w) \/ renewLease(w)
          \/ switchPermanentTarget(w) \/ RequestEnds(w)
          \/ \E u \in Owners, k \in OrderKeys :
                \/ \E n \in Names : switchPermanent(w, u, n, k) \/ \E m \in Months : purchase(w, u, n, m, k)
                \/ \E m \in Months : renew(w, u, m, k)
    \/ \E u \in Owners :
          \/ expireLease(u)
          \/ "grant" \in FancyOps /\ grantMembership(u)
          \/ "rename" \in FancyOps /\ \E v \in Names : changeAccountId(u, v)
          \/ \E v, code \in Names : register(u, v, code)
    \/ \E v \in Names :
          \/ "stock" \in FancyOps /\ adminBatchCreate(v)
          \/ "stock" \in FancyOps /\ \E enabled \in BOOLEAN : adminSetAvailability(v, enabled)

FancySpec == FancyInit /\ [][FancyNext]_fancyVars

-----------------------------------------------------------------------------
(* Properties.                                                              *)

\* Who holds a name.
Holder(n) ==
    IF registry[n] \in {NoName, Unclaimed} THEN NoName
    ELSE IF registry[n].current # NoName THEN registry[n].current
    ELSE IF registry[n].reserved # NoName THEN registry[n].reserved
    ELSE registry[n].invite

\* User, registry, stock and leases tell the same: everybody answers to the
\* one row that names him as its current user, which is his number while he
\* has a lease; his own name is kept for him exactly as long; and nothing
\* that is for sale is claimed.
NamesAgree ==
    /\ \A u \in Owners : \A n \in Names :
          /\ registry[n] # NoName /\ registry[n].current = u <=> account[u] = n
          /\ registry[n] # NoName /\ registry[n].reserved = u
                <=> OpenLease(u) /\ lease[u].restore = n
    /\ \A u \in Owners : OpenLease(u) =>
          /\ lease[u].number = account[u]
          /\ stock[account[u]] = IF lease[u].permanent THEN "PERMANENT" ELSE "LEASED"
          /\ lease[u].restore = home[u]
    /\ \A u \in Owners : ~OpenLease(u) => account[u] = home[u]
    /\ \A n \in Names :
          /\ stock[n] = "AVAILABLE" => registry[n] = Unclaimed
          /\ stock[n] = "DISABLED" => registry[n].current = NoName /\ registry[n].reserved = NoName

\* The registry keeps the promises of NameTitles.
Titles == INSTANCE NameTitles WITH People <- Owners, name <- account,
                                   held <- [n \in Names |-> Holder(n)]
KeepsTitles == Titles!TitlesSpec

\* No month that was paid for is lost and none is had for nothing.
PaidFor ==
    \A u \in Owners :
        LET mine == {k \in DOMAIN orders : orders[k].user = u}
            these == {k \in mine : orders[k].lease = lease[u].id}
        IN
        /\ points[u] + SumFunctionOnSet([k \in DOMAIN orders |-> orders[k].cost], mine)
              = OpeningPoints
        /\ OpenLease(u) /\ ~lease[u].permanent =>
              lease[u].until = lease[u].from
                  + SumFunctionOnSet([k \in DOMAIN orders |-> orders[k].months], these)

\* The books of the market agree: claims, stock, leases, wallets and orders,
\* whatever order purchases, renewals, expiry, memberships, renamings and the
\* administration come in.
MarketAgrees == NamesAgree /\ PaidFor
=============================================================================
