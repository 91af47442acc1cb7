-------------------------- MODULE FancyNumberProofs --------------------------
(* Proofs about FancyNumber, for any number of users, names, orders and     *)
(* requests: users, registry, stock and leases tell the same, and whatever  *)
(* changes the registry keeps the promises of NameTitles; then that points  *)
(* are in wallets or in orders, and leases last as long as was paid for.    *)
(*                                                                          *)
(* The argument: all claims on a name are one person's (OneClaim).  A step  *)
(* that moves names therefore touches only names of one user and free ones, *)
(* and that is all that NameTitles asks; the guards of the transactions,    *)
(* which read the rows they write, say which names those are.               *)
EXTENDS FancyNumber, Sums, FiniteSetTheorems, TLAPS

-----------------------------------------------------------------------------
(* The inductive invariant.                                                 *)

Claims == [current : Owners \cup {NoName}, reserved : Owners \cup {NoName},
           invite : Owners \cup {NoName}]
Leases == [number : Names, restore : Names \cup {NoName}, id : OrderKeys \cup {NoName},
           from : Nat, until : Nat, permanent : BOOLEAN]
Requests == [kind : {"purchase", "switch", "renew"}, phase : {"expire", "write"}, user : Owners,
             target : Names \cup {NoName}, months : Nat, key : OrderKeys, now : Nat]

FancyType ==
    /\ account \in [Owners -> Names \cup {NoName}]
    /\ registry \in [Names -> Claims \cup {NoName}]
    /\ stock \in [Names -> {"NONE", "AVAILABLE", "DISABLED", "LEASED", "PERMANENT"}]
    /\ lease \in [Owners -> Leases \cup {NoName}]
    /\ super \in SUBSET Owners
    /\ points \in [Owners -> Nat]
    /\ clock \in Nat
    /\ request \in [FancyWorkers -> Requests \cup {NoRequest}]
    /\ home \in [Owners -> Names \cup {NoName}]

\* All claims on a name are one person's, who does not keep a name for later
\* that he uses now; what is in the stock is in the registry.
OneClaim ==
    \A n \in Names :
        /\ registry[n] # NoName =>
              /\ registry[n].current = NoName \/ registry[n].reserved = NoName
              /\ registry[n].invite # NoName =>
                    /\ registry[n].current \in {NoName, registry[n].invite}
                    /\ registry[n].reserved \in {NoName, registry[n].invite}
        /\ stock[n] # "NONE" => registry[n] # NoName

\* Whoever has sent a request has joined, and knows what he wants to have.
Joined ==
    \A w \in FancyWorkers : request[w] # NoRequest =>
        /\ account[request[w].user] # NoName
        /\ request[w].kind \in {"purchase", "switch"} => request[w].target \in Names

FancyInv == FancyType /\ NamesAgree /\ OneClaim /\ Joined

-----------------------------------------------------------------------------
(* Who holds a name.                                                        *)

Of(row) == IF row = NoName THEN NoName
           ELSE IF row.current # NoName THEN row.current
           ELSE IF row.reserved # NoName THEN row.reserved
           ELSE row.invite

\* Nobody but u has a claim.
OnlyOf(row, u) == row # NoName =>
    row.current \in {NoName, u} /\ row.reserved \in {NoName, u} /\ row.invite \in {NoName, u}

LEMMA Records ==
    /\ NoName \notin Owners /\ NoName \notin Names
    /\ NoName \notin Claims /\ NoName \notin Leases
    /\ Unclaimed \in Claims /\ Unclaimed # NoName
    /\ Unclaimed.current = NoName /\ Unclaimed.reserved = NoName /\ Unclaimed.invite = NoName
  <1>1. Unclaimed \in Claims
    BY DEF Unclaimed, Claims
  <1>2. NoName \notin Claims
    BY NoNameAssumption DEF Claims
  <1>3. NoName \notin Leases
    BY NoNameAssumption DEF Leases
  <1>4. NoName \notin Owners /\ NoName \notin Names
    BY FancyAssumption
  <1>5. Unclaimed.current = NoName /\ Unclaimed.reserved = NoName /\ Unclaimed.invite = NoName
    BY DEF Unclaimed
  <1> QED BY <1>1, <1>2, <1>3, <1>4, <1>5

\* Holder looks at one row.
LEMMA HolderOf ==
    ASSUME NEW row \in Claims \cup {NoName}
    PROVE  /\ Of(row) \in Owners \cup {NoName}
           /\ Of(row) = IF row \in {NoName, Unclaimed} THEN NoName
                        ELSE IF row.current # NoName THEN row.current
                        ELSE IF row.reserved # NoName THEN row.reserved
                        ELSE row.invite
           /\ \A u \in Owners : /\ OnlyOf(row, u) => Of(row) \in {NoName, u}
                                /\ row # NoName /\ row.current = u => Of(row) = u
BY Records DEF Of, OnlyOf, Claims

LEMMA Holders ==
    /\ FancyType => \A n \in Names : Holder(n) = Of(registry[n])
    /\ FancyType' => \A n \in Names : Holder(n)' = Of(registry'[n])
  <1>1. ASSUME FancyType PROVE \A n \in Names : Holder(n) = Of(registry[n])
    <2>1. \A n \in Names : registry[n] \in Claims \cup {NoName}
      BY <1>1 DEF FancyType
    <2> QED BY <2>1, HolderOf DEF Holder
  <1>2. ASSUME FancyType' PROVE \A n \in Names : Holder(n)' = Of(registry'[n])
    <2>1. \A n \in Names : registry'[n] \in Claims \cup {NoName}
      BY <1>2 DEF FancyType
    <2> QED BY <2>1, HolderOf DEF Holder
  <1> QED BY <1>1, <1>2

\* The names of a user are his alone.
LEMMA OnlyHolder ==
    ASSUME FancyInv, NEW u \in Owners, NEW n \in Names,
           registry[n] # NoName, u \in {registry[n].current, registry[n].reserved}
    PROVE  OnlyOf(registry[n], u)
  <1>1. registry[n] \in Claims
    BY DEF FancyInv, FancyType
  <1>2. /\ registry[n].current = NoName \/ registry[n].reserved = NoName
        /\ registry[n].invite # NoName =>
              /\ registry[n].current \in {NoName, registry[n].invite}
              /\ registry[n].reserved \in {NoName, registry[n].invite}
    BY DEF FancyInv, OneClaim
  <1> QED BY <1>1, <1>2, Records DEF OnlyOf

-----------------------------------------------------------------------------
(* Steps that move names, and steps that do not.                            *)

Kept == FancyInv' /\ [Titles!TitlesNext]_(Titles!titleVars)

\* A request goes on with the same user and target.
Continues(w) ==
    /\ request[w] # NoRequest
    /\ request'[w].user = request[w].user /\ request'[w].kind = request[w].kind
    /\ request'[w].target = request[w].target

\* User u takes the free name v as his own; all names in T are his or free,
\* before and after, and the other names stay.
MovesNames(u, v, T) ==
    /\ account' = [account EXCEPT ![u] = v] /\ account[u] \in T \cup {NoName}
    /\ \A n \in Names \ T : registry'[n] = registry[n] /\ stock'[n] = stock[n]
    /\ \A n \in T : OnlyOf(registry[n], u) /\ OnlyOf(registry'[n], u)
    /\ \A n \in T :
          /\ registry'[n] # NoName =>
                registry'[n].current = NoName \/ registry'[n].reserved = NoName
          /\ stock'[n] # "NONE" => registry'[n] # NoName
          /\ stock'[n] = "AVAILABLE" => registry'[n] = Unclaimed
          /\ stock'[n] = "DISABLED" =>
                registry'[n].current = NoName /\ registry'[n].reserved = NoName
    /\ v \in T /\ registry'[v] # NoName /\ registry'[v].current = u
    /\ \A n \in T \ {v} : registry'[n] # NoName => registry'[n].current = NoName
    /\ \A x \in Owners \ {u} : lease'[x] = lease[x] /\ home'[x] = home[x]
    /\ \A n \in Names : registry'[n] # NoName /\ registry'[n].reserved = u
                          <=> lease'[u] # NoName /\ lease'[u].restore = n
    /\ lease'[u] # NoName =>
          /\ lease'[u].number = v /\ lease'[u].restore = home'[u]
          /\ stock'[v] = IF lease'[u].permanent THEN "PERMANENT" ELSE "LEASED"
    /\ lease'[u] = NoName => home'[u] = v
    /\ \A w \in FancyWorkers : request'[w] \in {request[w], NoRequest} \/ Continues(w)

LEMMA NamesMove ==
    ASSUME FancyInv, FancyType', NEW u \in Owners, NEW v \in Names, NEW T \in SUBSET Names,
           MovesNames(u, v, T)
    PROVE  Kept
  <1>0. /\ account' = [account EXCEPT ![u] = v] /\ account[u] \in T \cup {NoName}
        /\ \A n \in Names \ T : registry'[n] = registry[n] /\ stock'[n] = stock[n]
        /\ \A n \in T : OnlyOf(registry[n], u) /\ OnlyOf(registry'[n], u)
        /\ v \in T /\ registry'[v] # NoName /\ registry'[v].current = u
        /\ \A n \in T \ {v} : registry'[n] # NoName => registry'[n].current = NoName
        /\ \A x \in Owners \ {u} : lease'[x] = lease[x] /\ home'[x] = home[x]
    BY DEF MovesNames
  <1>1. /\ account \in [Owners -> Names \cup {NoName}]
        /\ \A n \in Names : registry[n] \in Claims \cup {NoName}
        /\ \A n \in Names : registry'[n] \in Claims \cup {NoName}
    BY DEF FancyInv, FancyType
  <1>2. account'[u] = v /\ \A x \in Owners \ {u} : account'[x] = account[x]
    BY <1>0, <1>1
  <1>3. \A x \in Owners, n \in Names : registry[n] # NoName /\ registry[n].current = x
                                         <=> account[x] = n
    BY <1>0 DEF FancyInv, NamesAgree
  <1>4. \A x \in Owners, n \in Names : registry[n] # NoName /\ registry[n].reserved = x
                                         <=> lease[x] # NoName /\ lease[x].restore = n
    BY <1>0 DEF FancyInv, NamesAgree, OpenLease
  <1>5. ASSUME NEW x \in Owners, NEW n \in Names
        PROVE  registry'[n] # NoName /\ registry'[n].current = x <=> account'[x] = n
    <2>1. CASE x = u
      <3>1. n \in T \ {v} => ~(registry'[n] # NoName /\ registry'[n].current = u)
        BY <1>0, Records
      <3>2. n \notin T => ~(registry[n] # NoName /\ registry[n].current = u)
        BY <1>0, <1>3, Records
      <3> QED BY <1>0, <1>2, <2>1, <3>1, <3>2
    <2>2. CASE x # u
      <3>1. n \in T => ~(registry[n] # NoName /\ registry[n].current = x)
        BY <1>0, <2>2, Records DEF OnlyOf
      <3>2. n \in T => ~(registry'[n] # NoName /\ registry'[n].current = x)
        BY <1>0, <2>2, Records DEF OnlyOf
      <3> QED BY <1>0, <1>2, <1>3, <2>2, <3>1, <3>2
    <2> QED BY <1>0, <2>1, <2>2
  <1>6. ASSUME NEW x \in Owners, NEW n \in Names
        PROVE  registry'[n] # NoName /\ registry'[n].reserved = x
                 <=> lease'[x] # NoName /\ lease'[x].restore = n
    <2>1. CASE x = u
      BY <1>0, <2>1 DEF MovesNames
    <2>2. CASE x # u
      <3>1. n \in T => ~(registry[n] # NoName /\ registry[n].reserved = x)
        BY <1>0, <2>2, Records DEF OnlyOf
      <3>2. n \in T => ~(registry'[n] # NoName /\ registry'[n].reserved = x)
        BY <1>0, <2>2, Records DEF OnlyOf
      <3> QED BY <1>0, <1>4, <2>2, <3>1, <3>2
    <2> QED BY <1>0, <2>1, <2>2
  <1>7. ASSUME NEW x \in Owners
        PROVE  /\ lease'[x] # NoName =>
                     /\ lease'[x].number = account'[x] /\ lease'[x].restore = home'[x]
                     /\ stock'[account'[x]] =
                           IF lease'[x].permanent THEN "PERMANENT" ELSE "LEASED"
               /\ lease'[x] = NoName => account'[x] = home'[x]
    <2>1. CASE x = u
      BY <1>0, <1>2, <2>1 DEF MovesNames
    <2>2. CASE x # u
      <3>1. lease[x] # NoName => account[x] \in Names \ T
        <4>1. ASSUME lease[x] # NoName PROVE account[x] \in Names
          <5>1. lease[x].number = account[x] /\ lease[x] \in Leases
            BY <1>0, <4>1 DEF FancyInv, NamesAgree, OpenLease, FancyType
          <5> QED BY <1>0, <5>1 DEF Leases
        <4>2. ASSUME account[x] \in T PROVE FALSE
          BY <1>0, <1>3, <2>2, <4>2, Records DEF OnlyOf
        <4> QED BY <1>0, <4>1, <4>2
      <3>2. /\ lease[x] # NoName =>
                  /\ lease[x].number = account[x] /\ lease[x].restore = home[x]
                  /\ stock[account[x]] = IF lease[x].permanent THEN "PERMANENT" ELSE "LEASED"
            /\ lease[x] = NoName => account[x] = home[x]
        BY <1>0 DEF FancyInv, NamesAgree, OpenLease
      <3> QED BY <1>0, <1>2, <2>2, <3>1, <3>2
    <2> QED BY <1>0, <2>1, <2>2
  <1>8. ASSUME NEW n \in Names
        PROVE  /\ stock'[n] = "AVAILABLE" => registry'[n] = Unclaimed
               /\ stock'[n] = "DISABLED" =>
                     registry'[n].current = NoName /\ registry'[n].reserved = NoName
    <2>1. CASE n \in T
      BY <1>0, <2>1 DEF MovesNames
    <2>2. CASE n \notin T
      BY <1>0, <2>2 DEF FancyInv, NamesAgree
    <2> QED BY <1>0, <2>1, <2>2
  <1>9. NamesAgree'
    BY <1>0, <1>5, <1>6, <1>7, <1>8 DEF NamesAgree, OpenLease
  <1>10. OneClaim'
    <2>1. ASSUME NEW n \in Names
          PROVE  /\ registry'[n] # NoName =>
                       /\ registry'[n].current = NoName \/ registry'[n].reserved = NoName
                       /\ registry'[n].invite # NoName =>
                             /\ registry'[n].current \in {NoName, registry'[n].invite}
                             /\ registry'[n].reserved \in {NoName, registry'[n].invite}
                 /\ stock'[n] # "NONE" => registry'[n] # NoName
      <3>1. CASE n \in T
        BY <1>0, <3>1 DEF OnlyOf, MovesNames
      <3>2. CASE n \notin T
        BY <1>0, <3>2 DEF FancyInv, OneClaim
      <3> QED BY <1>0, <3>1, <3>2
    <2> QED BY <1>0, <2>1 DEF OneClaim
  <1>11. Joined'
    <2>1. ASSUME NEW w \in FancyWorkers, request[w] # NoRequest
          PROVE  request[w].user \in Owners
      BY <1>0, <2>1 DEF FancyInv, FancyType, Requests
    <2>2. \A x \in Owners : account[x] # NoName => account'[x] # NoName
      BY <1>0, <1>2, Records
    <2> QED BY <1>0, <2>1, <2>2 DEF FancyInv, Joined, MovesNames, Continues
  <1>12. Titles!TitlesNext
    <2> DEFINE held == [n \in Names |-> Holder(n)]
    <2>1. \A n \in Names : Holder(n) = Of(registry[n]) /\ Holder(n)' = Of(registry'[n])
      BY <1>0, Holders DEF FancyInv
    <2>2. /\ \A n \in Names \ T : Of(registry'[n]) = Of(registry[n])
          /\ \A n \in T : Of(registry[n]) \in {NoName, u} /\ Of(registry'[n]) \in {NoName, u}
          /\ Of(registry'[v]) = u
      BY <1>0, <1>1, HolderOf
    <2>3. [n \in Names |-> Holder(n)'] \in [Names -> Owners \cup {NoName}]
      BY <1>0, <1>1, <2>1, HolderOf
    <2>4. /\ \A n \in Names : Holder(n)' # Holder(n) => {Holder(n), Holder(n)'} = {u, NoName}
          /\ Holder(v)' = u
      BY <1>0, <2>1, <2>2
    <2>5. Titles!Exchange(u)
      BY <1>0, <2>4 DEF Titles!Exchange
    <2> QED BY <1>0, <2>3, <2>5 DEF Titles!TitlesNext
  <1> QED BY <1>0, <1>9, <1>10, <1>11, <1>12 DEF Kept, FancyInv

\* The names stay with those who hold them.
LEMMA NamesStay ==
    ASSUME FancyInv, FancyType', NamesAgree', OneClaim', Joined', UNCHANGED account,
           \A n \in Names : Of(registry'[n]) = Of(registry[n])
    PROVE  Kept
  <1>1. \A n \in Names : Holder(n) = Of(registry[n]) /\ Holder(n)' = Of(registry'[n])
    BY Holders DEF FancyInv
  <1>2. UNCHANGED Titles!titleVars
    BY <1>1 DEF Titles!titleVars
  <1> QED BY <1>2 DEF Kept, FancyInv

\* Nothing changes but wallets, orders, memberships, time and requests.
Rest ==
    /\ super \in SUBSET Owners /\ points \in [Owners -> Nat] /\ clock \in Nat
    /\ request \in [FancyWorkers -> Requests \cup {NoRequest}]

LEMMA NothingMoves ==
    ASSUME FancyInv, Rest', UNCHANGED <<account, registry, stock, lease, home>>,
           \A w \in FancyWorkers :
              \/ request'[w] \in {request[w], NoRequest}
              \/ /\ account[request'[w].user] # NoName
                 /\ request'[w].kind \in {"purchase", "switch"} => request'[w].target \in Names
    PROVE  Kept
  <1>1. FancyType'
    BY DEF FancyInv, FancyType, Rest
  <1>2. NamesAgree'
    BY DEF FancyInv, NamesAgree, OpenLease
  <1>3. OneClaim'
    BY DEF FancyInv, OneClaim
  <1>4. Joined'
    BY DEF FancyInv, Joined
  <1> QED BY <1>1, <1>2, <1>3, <1>4, NamesStay

-----------------------------------------------------------------------------
(* The transactions.                                                        *)

LEMMA ClaimSet ==
    ASSUME NEW row \in Claims, NEW x \in Owners \cup {NoName}, NEW y \in Owners \cup {NoName}
    PROVE  /\ [row EXCEPT !.current = x] \in Claims
           /\ [row EXCEPT !.current = x].current = x
           /\ [row EXCEPT !.current = x].reserved = row.reserved
           /\ [row EXCEPT !.current = x].invite = row.invite
           /\ [row EXCEPT !.current = x, !.reserved = y] \in Claims
           /\ [row EXCEPT !.current = x, !.reserved = y].current = x
           /\ [row EXCEPT !.current = x, !.reserved = y].reserved = y
           /\ [row EXCEPT !.current = x, !.reserved = y].invite = row.invite
BY DEF Claims

\* What the market knows of a user.
LEMMA Known ==
    ASSUME FancyInv, NEW u \in Owners
    PROVE  /\ \A n \in Names : registry[n] \in Claims \cup {NoName}
           /\ \A n \in Names : registry[n] # NoName /\ registry[n].current = u <=> account[u] = n
           /\ \A n \in Names : registry[n] # NoName /\ registry[n].reserved = u
                                 <=> lease[u] # NoName /\ lease[u].restore = n
           /\ lease[u] = NoName => account[u] = home[u]
           /\ lease[u] # NoName =>
                 /\ lease[u] \in Leases /\ lease[u].number = account[u] /\ account[u] \in Names
                 /\ lease[u].restore = home[u]
                 /\ stock[account[u]] = IF lease[u].permanent THEN "PERMANENT" ELSE "LEASED"
           /\ account[u] \in Names \cup {NoName} /\ home[u] \in Names \cup {NoName}
  <1>1. lease[u] \in Leases \cup {NoName}
    BY DEF FancyInv, FancyType
  <1>2. lease[u] # NoName => account[u] \in Names
    BY <1>1 DEF FancyInv, NamesAgree, OpenLease, Leases
  <1> QED BY <1>1, <1>2 DEF FancyInv, FancyType, NamesAgree, OpenLease

LEMMA Restore ==
    ASSUME FancyInv, NEW u \in Owners, OpenLease(u), restoreExpiredLeaseInTransaction(u),
           Rest', UNCHANGED home,
           \A w \in FancyWorkers : request'[w] \in {request[w], NoRequest} \/ Continues(w)
    PROVE  Kept
  <1> DEFINE number == lease[u].number
             own == lease[u].restore
             reg == [registry EXCEPT ![number].current = NoName,
                                     ![own].current = u, ![own].reserved = NoName]
  <1>1. /\ own # NoName /\ account[u] = number /\ stock[number] = "LEASED"
        /\ registry[number].current = u
        /\ registry[own].current = NoName /\ registry[own].reserved = u
        /\ Rename(u, own, reg)
        /\ stock' = [stock EXCEPT ![number] = releaseFancyNumberInventory(number)]
        /\ lease' = [lease EXCEPT ![u] = NoName]
    BY DEF restoreExpiredLeaseInTransaction
  <1>2. /\ lease[u] \in Leases /\ number \in Names /\ own \in Names /\ number # own
        /\ own = home[u] /\ registry[number] \in Claims /\ registry[own] \in Claims
        /\ registry \in [Names -> Claims \cup {NoName}]
    <2>1. lease[u] \in Leases /\ number \in Names /\ own = home[u]
      BY <1>1, Known DEF OpenLease
    <2>2. own \in Names
      BY <1>1, <2>1 DEF Leases
    <2>3. registry[number] # NoName /\ registry[own] # NoName
      BY <1>1, <2>1, <2>2, Known DEF OpenLease
    <2>4. registry \in [Names -> Claims \cup {NoName}]
      BY DEF FancyInv, FancyType
    <2> QED BY <1>1, <2>1, <2>2, <2>3, <2>4, Records
  <1> HIDE DEF number, own
  <1>3. /\ reg[number] = [registry[number] EXCEPT !.current = NoName]
        /\ reg[own] = [registry[own] EXCEPT !.current = u, !.reserved = NoName]
        /\ \A n \in Names \ {number, own} : reg[n] = registry[n]
        /\ reg = [n \in Names |-> reg[n]]
    BY <1>2
  <1> HIDE DEF reg
  <1>4. /\ reg[number] \in Claims /\ reg[number].current = NoName
        /\ reg[number].reserved = registry[number].reserved
        /\ reg[number].invite = registry[number].invite
        /\ reg[own] \in Claims /\ reg[own].current = u /\ reg[own].reserved = NoName
        /\ reg[own].invite = registry[own].invite
    <2>1. /\ registry[number] \in Claims /\ registry[own] \in Claims
          /\ NoName \in Owners \cup {NoName} /\ u \in Owners \cup {NoName}
      BY <1>2
    <2>2. /\ reg[number] = [registry[number] EXCEPT !.current = NoName]
          /\ reg[own] = [registry[own] EXCEPT !.current = u, !.reserved = NoName]
      BY <1>3
    <2>3. /\ reg[number] \in Claims /\ reg[number].current = NoName
          /\ reg[number].reserved = registry[number].reserved
          /\ reg[number].invite = registry[number].invite
      BY <2>1, <2>2 DEF Claims
    <2>4. /\ reg[own] \in Claims /\ reg[own].current = u /\ reg[own].reserved = NoName
          /\ reg[own].invite = registry[own].invite
      BY <2>1, <2>2 DEF Claims
    <2> QED BY <2>3, <2>4
  <1>5. account' = [account EXCEPT ![u] = own] /\ registry' = reg
    <2>1. Prepared(reg, u, number, own) = reg
      BY <1>4, Records DEF Prepared
    <2>2. Cleaned(reg, number) = reg
      BY <1>1 DEF Cleaned
    <2> QED BY <1>1, <2>1, <2>2 DEF Rename
  <1>6. OnlyOf(registry[number], u) /\ OnlyOf(registry[own], u)
    BY <1>1, <1>2, OnlyHolder, Records
  <1>7. registry[number].reserved = NoName
    BY <1>1, <1>2, Records DEF FancyInv, OneClaim
  <1>8. /\ stock' \in [Names -> {"NONE", "AVAILABLE", "DISABLED", "LEASED", "PERMANENT"}]
        /\ stock'[number] \in {"AVAILABLE", "DISABLED"}
        /\ stock'[number] = "AVAILABLE" => registry[number].invite = NoName
        /\ \A n \in Names \ {number} : stock'[n] = stock[n]
    BY <1>1, <1>2 DEF FancyInv, FancyType, releaseFancyNumberInventory
  <1>9. stock'[number] = "AVAILABLE" => reg[number] = Unclaimed
    BY <1>4, <1>7, <1>8 DEF Claims, Unclaimed
  <1>10. stock[own] \notin {"AVAILABLE", "DISABLED"}
    BY <1>1, <1>2, Records DEF FancyInv, NamesAgree
  <1>11. registry' \in [Names -> Claims \cup {NoName}]
    BY <1>2, <1>3, <1>4, <1>5
  <1>12. FancyType'
    BY <1>1, <1>2, <1>5, <1>8, <1>11 DEF FancyInv, FancyType, Rest
  <1>13. lease'[u] = NoName /\ \A x \in Owners \ {u} : lease'[x] = lease[x]
    BY <1>1 DEF FancyInv, FancyType
  <1>14. \A n \in Names : ~(registry'[n] # NoName /\ registry'[n].reserved = u)
    <2>1. \A n \in Names \ {number, own} : ~(registry[n] # NoName /\ registry[n].reserved = u)
      BY Known DEF own
    <2>2. registry'[number].reserved # u /\ registry'[own].reserved # u
      BY <1>4, <1>5, <1>7, Records
    <2>3. \A n \in Names \ {number, own} : registry'[n] = registry[n]
      BY <1>3, <1>5
    <2> QED BY <2>1, <2>2, <2>3
  <1>15. OnlyOf(reg[number], u) /\ OnlyOf(reg[own], u)
    BY <1>4, <1>6, <1>7, <1>2, Records DEF OnlyOf
  <1>16. reg[number] # NoName /\ reg[own] # NoName
    BY <1>4, Records
  <1> DEFINE T == {number, own}
  <1>17. \A n \in T :
            /\ registry'[n] # NoName =>
                  registry'[n].current = NoName \/ registry'[n].reserved = NoName
            /\ stock'[n] # "NONE" => registry'[n] # NoName
            /\ stock'[n] = "AVAILABLE" => registry'[n] = Unclaimed
            /\ stock'[n] = "DISABLED" =>
                  registry'[n].current = NoName /\ registry'[n].reserved = NoName
    BY <1>2, <1>4, <1>5, <1>7, <1>8, <1>9, <1>10, <1>16
  <1>18. \A n \in Names \ T : registry'[n] = registry[n] /\ stock'[n] = stock[n]
    BY <1>3, <1>5, <1>8
  <1>19. \A n \in T : OnlyOf(registry[n], u) /\ OnlyOf(registry'[n], u)
    BY <1>5, <1>6, <1>15
  <1>20. T \in SUBSET Names /\ own \in T /\ account[u] \in T \cup {NoName}
    BY <1>1, <1>2
  <1>21. \A n \in T \ {own} : registry'[n] # NoName => registry'[n].current = NoName
    BY <1>4, <1>5
  <1>22. home'[u] = own /\ registry'[own] # NoName /\ registry'[own].current = u
    BY <1>2, <1>4, <1>5, <1>16
  <1>23. \A x \in Owners \ {u} : lease'[x] = lease[x] /\ home'[x] = home[x]
    BY <1>13
  <1>24. account' = [account EXCEPT ![u] = own]
    BY <1>5
  <1> HIDE DEF T
  <1>25. lease'[u] = NoName
    BY <1>13
  <1>26. own \in Names
    BY <1>2
  <1>27. \A n \in Names : registry'[n] # NoName /\ registry'[n].reserved = u
                            <=> lease'[u] # NoName /\ lease'[u].restore = n
    BY <1>14, <1>25
  <1>28. /\ lease'[u] # NoName =>
               /\ lease'[u].number = own /\ lease'[u].restore = home'[u]
               /\ stock'[own] = IF lease'[u].permanent THEN "PERMANENT" ELSE "LEASED"
         /\ lease'[u] = NoName => home'[u] = own
    BY <1>22, <1>25
  <1>29. MovesNames(u, own, T)
    BY <1>17, <1>18, <1>19, <1>20, <1>21, <1>22, <1>23, <1>24, <1>27, <1>28 DEF MovesNames
  <1> QED BY <1>12, <1>20, <1>26, <1>29, NamesMove

LEMMA TargetFree ==
    ASSUME FancyInv, NEW n \in Names, resolvePurchasableTarget(n)
    PROVE  /\ registry[n] \in {NoName, Unclaimed}
           /\ \A u \in Owners : OnlyOf(registry[n], u) /\ account[u] # n
  <1>1. registry[n] \in {NoName, Unclaimed}
    BY DEF resolvePurchasableTarget
  <1>2. ASSUME NEW u \in Owners PROVE account[u] # n
    BY <1>1, Known, Records
  <1> QED BY <1>1, <1>2, Records DEF OnlyOf

\* User u takes a free number instead of his name old, which he keeps for later
\* (z = u) or gives away.
LEMMA Take ==
    ASSUME FancyInv, NEW u \in Owners, NEW old \in Names, NEW target \in Names,
           NEW z \in {NoName, u}, NEW reg \in [Names -> Claims \cup {NoName}],
           account[u] = old, resolvePurchasableTarget(target),
           reg[old] \in Claims, reg[old].current = NoName, reg[old].reserved = z,
           reg[old].invite = registry[old].invite,
           reg[target] = [Unclaimed EXCEPT !.current = u],
           \A n \in Names \ {old, target} : reg[n] = registry[n],
           z = u \/ stock[old] # "NONE",
           Rename(u, target, reg)
    PROVE  /\ old # target /\ account' = [account EXCEPT ![u] = target] /\ registry' = reg
           /\ registry'[target] # NoName /\ registry'[target].current = u
           /\ registry'[target].reserved = NoName
           /\ registry'[old] # NoName
           /\ OnlyOf(registry[old], u) /\ OnlyOf(registry'[old], u)
           /\ OnlyOf(registry[target], u) /\ OnlyOf(registry'[target], u)
           /\ stock[old] \notin {"AVAILABLE", "DISABLED"}
  <1>1. old # target
    BY TargetFree
  <1>2. registry[old] # NoName /\ registry[old].current = u /\ registry[old] \in Claims
    BY Known
  <1>3. OnlyOf(registry[old], u) /\ OnlyOf(registry[target], u)
    BY <1>2, OnlyHolder, TargetFree
  <1>4. /\ reg[target] \in Claims /\ reg[target].current = u /\ reg[target].reserved = NoName
        /\ reg[target].invite = NoName
    BY DEF Unclaimed, Claims
  <1>5. Prepared(reg, u, old, target) = reg
    BY <1>4, Records DEF Prepared
  <1>6. Cleaned(reg, old) = reg
    BY Records DEF Cleaned
  <1>7. account' = [account EXCEPT ![u] = target] /\ registry' = reg
    BY <1>5, <1>6 DEF Rename
  <1>8. OnlyOf(reg[old], u)
    BY <1>2, <1>3 DEF OnlyOf
  <1>9. OnlyOf(reg[target], u)
    BY <1>4 DEF OnlyOf
  <1>10. stock[old] \notin {"AVAILABLE", "DISABLED"}
    BY <1>2, Records DEF FancyInv, NamesAgree
  <1> QED BY <1>1, <1>3, <1>4, <1>7, <1>8, <1>9, <1>10, Records

LEMMA OrderedTyped ==
    ASSUME FancyInv, NEW j \in Requests, NEW m \in Nat, NEW cost \in Nat, NEW id,
           Ordered(j, m, cost, id), NEW w \in FancyWorkers,
           request' = [request EXCEPT ![w] = NoRequest]
    PROVE  Rest' /\ \A x \in FancyWorkers : request'[x] \in {request[x], NoRequest}
  <1>1. /\ points' = [points EXCEPT ![j.user] = @ - cost] /\ points[j.user] >= cost
        /\ UNCHANGED <<super, clock>>
    BY DEF Ordered
  <1>2. j.user \in Owners /\ points \in [Owners -> Nat]
    BY DEF Requests, FancyInv, FancyType
  <1>3. points[j.user] - cost \in Nat
    BY <1>1, <1>2
  <1>4. points' \in [Owners -> Nat]
    BY <1>1, <1>2, <1>3
  <1> QED BY <1>1, <1>4 DEF Rest, FancyInv, FancyType

LEMMA PurchaseTarget ==
    ASSUME FancyInv, NEW w \in FancyWorkers, purchaseTarget(w) PROVE Kept
  <1>0. PICK j, u, own, target :
              j = request[w] /\ u = j.user /\ own = account[u] /\ target = j.target
    OBVIOUS
  <1> DEFINE
             permanent == u \in super
             m == IF permanent THEN 0 ELSE j.months
             status == IF permanent THEN "PERMANENT" ELSE "LEASED"
             reg == [registry EXCEPT ![own].current = NoName, ![own].reserved = u,
                                     ![target] = [Unclaimed EXCEPT !.current = u]]
             row == [number |-> target, restore |-> own, id |-> j.key,
                     from |-> j.now, until |-> j.now + m, permanent |-> permanent]
  <1>1. /\ j.kind = "purchase" /\ ~OpenLease(u)
        /\ resolvePurchasableTarget(target) /\ Rename(u, target, reg)
        /\ stock' = [stock EXCEPT ![target] = status]
        /\ lease' = [lease EXCEPT ![u] = row]
        /\ Ordered(j, m, m * Unit, j.key)
        /\ home' = [home EXCEPT ![u] = own]
        /\ request' = [request EXCEPT ![w] = NoRequest]
    BY <1>0 DEF purchaseTarget
  <1>2. /\ j \in Requests /\ u \in Owners /\ target \in Names /\ own \in Names
    <2>1. j # NoRequest /\ j \in Requests
      BY <1>0, <1>1 DEF FancyInv, FancyType, NoRequest
    <2>2. u \in Owners
      BY <1>0, <2>1 DEF Requests
    <2> QED BY <1>0, <1>1, <2>1, <2>2 DEF FancyInv, FancyType, Joined
  <1>3. m \in Nat /\ m * Unit \in Nat
    BY <1>2, FancyAssumption DEF Requests
  <1>4. row \in Leases
    <2>1. j.key \in OrderKeys /\ j.now \in Nat /\ j.now + m \in Nat
      BY <1>2, <1>3 DEF Requests
    <2>2. permanent \in BOOLEAN
      OBVIOUS
    <2> HIDE DEF permanent, m
    <2> QED BY <1>2, <2>1, <2>2 DEF Leases
  <1>5. row.number = target /\ row.restore = own /\ row.permanent = permanent
    OBVIOUS
  <1>6. Rest' /\ \A x \in FancyWorkers : request'[x] \in {request[x], NoRequest}
    <2> HIDE DEF m
    <2> QED BY <1>1, <1>2, <1>3, OrderedTyped
  <1>7. status \in {"PERMANENT", "LEASED"}
        /\ status = IF row.permanent THEN "PERMANENT" ELSE "LEASED"
    BY <1>5
  <1>8. registry \in [Names -> Claims \cup {NoName}] /\ account \in [Owners -> Names \cup {NoName}]
    BY DEF FancyInv, FancyType
  <1> HIDE DEF row, m, status, permanent
  <1>9. own # target /\ account[u] = own /\ registry[own] \in Claims
    <2> QED BY <1>0, <1>1, <1>2, TargetFree, Known
  <1>10. /\ reg \in [Names -> Claims \cup {NoName}]
         /\ reg[own] \in Claims /\ reg[own].current = NoName /\ reg[own].reserved = u
         /\ reg[own].invite = registry[own].invite
         /\ reg[target] = [Unclaimed EXCEPT !.current = u]
         /\ \A n \in Names \ {own, target} : reg[n] = registry[n]
    <2>1. [Unclaimed EXCEPT !.current = u] \in Claims
      BY <1>2 DEF Unclaimed, Claims
    <2>2. /\ [registry[own] EXCEPT !.current = NoName, !.reserved = u] \in Claims
          /\ [registry[own] EXCEPT !.current = NoName, !.reserved = u].current = NoName
          /\ [registry[own] EXCEPT !.current = NoName, !.reserved = u].reserved = u
          /\ [registry[own] EXCEPT !.current = NoName, !.reserved = u].invite
                = registry[own].invite
      BY <1>2, <1>9 DEF Claims
    <2>3. /\ reg[own] = [registry[own] EXCEPT !.current = NoName, !.reserved = u]
          /\ reg[target] = [Unclaimed EXCEPT !.current = u]
          /\ \A n \in Names \ {own, target} : reg[n] = registry[n]
      BY <1>2, <1>8, <1>9
    <2>4. reg = [n \in Names |-> reg[n]]
      BY <1>8
    <2> HIDE DEF reg
    <2>5. \A n \in Names : reg[n] \in Claims \cup {NoName}
      BY <1>8, <2>1, <2>2, <2>3
    <2> QED BY <2>1, <2>2, <2>3, <2>4, <2>5
  <1> HIDE DEF reg
  <1>11. /\ account' = [account EXCEPT ![u] = target] /\ registry' = reg
         /\ registry'[target] # NoName /\ registry'[target].current = u
         /\ registry'[target].reserved = NoName /\ registry'[own] # NoName
         /\ OnlyOf(registry[own], u) /\ OnlyOf(registry'[own], u)
         /\ OnlyOf(registry[target], u) /\ OnlyOf(registry'[target], u)
         /\ stock[own] \notin {"AVAILABLE", "DISABLED"}
    BY <1>1, <1>2, <1>9, <1>10, Take
  <1>12. /\ lease'[u] = row /\ home'[u] = own /\ stock'[target] = status
         /\ \A x \in Owners \ {u} : lease'[x] = lease[x] /\ home'[x] = home[x]
         /\ \A n \in Names \ {target} : stock'[n] = stock[n]
    BY <1>1, <1>2 DEF FancyInv, FancyType
  <1>13. FancyType'
    <2>1. /\ account' \in [Owners -> Names \cup {NoName}]
          /\ registry' \in [Names -> Claims \cup {NoName}]
      BY <1>2, <1>8, <1>10, <1>11
    <2>2. /\ stock' \in [Names -> {"NONE", "AVAILABLE", "DISABLED", "LEASED", "PERMANENT"}]
          /\ lease' \in [Owners -> Leases \cup {NoName}]
          /\ home' \in [Owners -> Names \cup {NoName}]
      BY <1>1, <1>2, <1>4, <1>7 DEF FancyInv, FancyType
    <2> QED BY <1>6, <2>1, <2>2 DEF Rest, FancyType
  <1> DEFINE T == {own, target}
  <1>14. \A n \in T :
            /\ registry'[n] # NoName =>
                  registry'[n].current = NoName \/ registry'[n].reserved = NoName
            /\ stock'[n] # "NONE" => registry'[n] # NoName
            /\ stock'[n] = "AVAILABLE" => registry'[n] = Unclaimed
            /\ stock'[n] = "DISABLED" =>
                  registry'[n].current = NoName /\ registry'[n].reserved = NoName
    BY <1>2, <1>7, <1>9, <1>10, <1>11, <1>12
  <1>15. \A n \in Names \ T : registry'[n] = registry[n] /\ stock'[n] = stock[n]
    BY <1>10, <1>11, <1>12
  <1>16. \A n \in T : OnlyOf(registry[n], u) /\ OnlyOf(registry'[n], u)
    BY <1>11
  <1>17. T \in SUBSET Names /\ target \in T /\ account[u] \in T \cup {NoName}
    BY <1>2, <1>9
  <1>18. \A n \in T \ {target} : registry'[n] # NoName => registry'[n].current = NoName
    BY <1>10, <1>11
  <1>19. \A n \in Names : registry'[n] # NoName /\ registry'[n].reserved = u
                            <=> lease'[u] # NoName /\ lease'[u].restore = n
    <2>1. lease'[u] # NoName /\ lease'[u].restore = own
      BY <1>4, <1>5, <1>12, Records
    <2>2. ASSUME NEW n \in Names \ {own, target}
          PROVE  ~(registry'[n] # NoName /\ registry'[n].reserved = u)
      BY <1>1, <1>2, <1>15, Known DEF OpenLease
    <2> QED BY <1>2, <1>10, <1>11, <2>1, <2>2, Records
  <1>20. /\ lease'[u] # NoName =>
               /\ lease'[u].number = target /\ lease'[u].restore = home'[u]
               /\ stock'[target] = IF lease'[u].permanent THEN "PERMANENT" ELSE "LEASED"
         /\ lease'[u] = NoName => home'[u] = target
    BY <1>4, <1>5, <1>7, <1>12, Records
  <1>21. /\ account' = [account EXCEPT ![u] = target]
         /\ registry'[target] # NoName /\ registry'[target].current = u
    BY <1>11
  <1>22. \A x \in Owners \ {u} : lease'[x] = lease[x] /\ home'[x] = home[x]
    BY <1>12
  <1>23. u \in Owners /\ target \in Names
    BY <1>2
  <1>24. \A x \in FancyWorkers : request'[x] \in {request[x], NoRequest}
    BY <1>6
  <1> HIDE DEF T
  <1>25. MovesNames(u, target, T)
    BY <1>14, <1>15, <1>16, <1>17, <1>18, <1>19, <1>20, <1>21, <1>22, <1>24 DEF MovesNames
  <1> QED BY <1>13, <1>17, <1>23, <1>25, NamesMove

LEMMA SwitchPermanentTarget ==
    ASSUME FancyInv, NEW w \in FancyWorkers, switchPermanentTarget(w) PROVE Kept
  <1>0. PICK j, u, old, target :
              j = request[w] /\ u = j.user /\ old = lease[u].number /\ target = j.target
    OBVIOUS
  <1> DEFINE reg == [registry EXCEPT ![old].current = NoName,
                                     ![target] = [Unclaimed EXCEPT !.current = u]]
  <1>1. /\ j.kind = "switch" /\ OpenLease(u) /\ lease[u].permanent /\ account[u] = old
        /\ stock[old] = "PERMANENT"
        /\ resolvePurchasableTarget(target) /\ Rename(u, target, reg)
        /\ stock' = [stock EXCEPT ![target] = "PERMANENT", ![old] = releaseFancyNumberInventory(old)]
        /\ lease' = [lease EXCEPT ![u].number = target]
        /\ Ordered(j, 0, Unit, lease[u].id)
        /\ UNCHANGED home
        /\ request' = [request EXCEPT ![w] = NoRequest]
    BY <1>0 DEF switchPermanentTarget
  <1>2. /\ j \in Requests /\ u \in Owners /\ target \in Names /\ old \in Names
        /\ lease[u] \in Leases /\ lease[u] # NoName
    <2>1. j # NoRequest /\ j \in Requests
      BY <1>0, <1>1 DEF FancyInv, FancyType, NoRequest
    <2>2. u \in Owners
      BY <1>0, <2>1 DEF Requests
    <2>3. target \in Names
      BY <1>0, <1>1, <2>1 DEF FancyInv, Joined
    <2>4. lease[u] \in Leases /\ lease[u] # NoName
      BY <1>1, <2>2 DEF FancyInv, FancyType, OpenLease
    <2> QED BY <1>0, <2>1, <2>2, <2>3, <2>4 DEF Leases
  <1>3. Rest' /\ \A x \in FancyWorkers : request'[x] \in {request[x], NoRequest}
    BY <1>1, <1>2, OrderedTyped, FancyAssumption
  <1>4. registry \in [Names -> Claims \cup {NoName}] /\ account \in [Owners -> Names \cup {NoName}]
    BY DEF FancyInv, FancyType
  <1>5. /\ old # target /\ registry[old] \in Claims /\ registry[old].current = u
        /\ registry[old].reserved = NoName
    <2>1. registry[old] # NoName /\ registry[old].current = u
      BY <1>1, <1>2, Known
    <2> QED BY <1>1, <1>2, <1>4, <2>1, TargetFree, Records DEF FancyInv, OneClaim
  <1>6. /\ reg \in [Names -> Claims \cup {NoName}]
        /\ reg[old] \in Claims /\ reg[old].current = NoName /\ reg[old].reserved = NoName
        /\ reg[old].invite = registry[old].invite
        /\ reg[target] = [Unclaimed EXCEPT !.current = u]
        /\ \A n \in Names \ {old, target} : reg[n] = registry[n]
    <2>1. [Unclaimed EXCEPT !.current = u] \in Claims
      BY <1>2 DEF Unclaimed, Claims
    <2>2. /\ [registry[old] EXCEPT !.current = NoName] \in Claims
          /\ [registry[old] EXCEPT !.current = NoName].current = NoName
          /\ [registry[old] EXCEPT !.current = NoName].reserved = NoName
          /\ [registry[old] EXCEPT !.current = NoName].invite = registry[old].invite
      BY <1>2, <1>5 DEF Claims
    <2>3. /\ reg[old] = [registry[old] EXCEPT !.current = NoName]
          /\ reg[target] = [Unclaimed EXCEPT !.current = u]
          /\ \A n \in Names \ {old, target} : reg[n] = registry[n]
      BY <1>2, <1>4, <1>5
    <2>4. reg = [n \in Names |-> reg[n]]
      BY <1>4
    <2> HIDE DEF reg
    <2>5. \A n \in Names : reg[n] \in Claims \cup {NoName}
      BY <1>4, <2>1, <2>2, <2>3
    <2> QED BY <2>1, <2>2, <2>3, <2>4, <2>5
  <1> HIDE DEF reg
  <1>7. /\ account' = [account EXCEPT ![u] = target] /\ registry' = reg
        /\ registry'[target] # NoName /\ registry'[target].current = u
        /\ registry'[target].reserved = NoName /\ registry'[old] # NoName
        /\ OnlyOf(registry[old], u) /\ OnlyOf(registry'[old], u)
        /\ OnlyOf(registry[target], u) /\ OnlyOf(registry'[target], u)
    BY <1>1, <1>2, <1>6, Take
  <1>8. /\ stock'[target] = "PERMANENT"
        /\ stock'[old] \in {"AVAILABLE", "DISABLED"}
        /\ stock'[old] = "AVAILABLE" => registry[old].invite = NoName
        /\ \A n \in Names \ {old, target} : stock'[n] = stock[n]
        /\ stock' \in [Names -> {"NONE", "AVAILABLE", "DISABLED", "LEASED", "PERMANENT"}]
    BY <1>1, <1>2, <1>5 DEF FancyInv, FancyType, releaseFancyNumberInventory
  <1>9. stock'[old] = "AVAILABLE" => reg[old] = Unclaimed
    BY <1>6, <1>8 DEF Claims, Unclaimed
  <1>10. /\ lease'[u] \in Leases /\ lease'[u].number = target /\ lease'[u].permanent
         /\ lease'[u].restore = lease[u].restore
         /\ \A x \in Owners \ {u} : lease'[x] = lease[x] /\ home'[x] = home[x]
         /\ lease' \in [Owners -> Leases \cup {NoName}]
    <2>1. /\ [lease[u] EXCEPT !.number = target] \in Leases
          /\ [lease[u] EXCEPT !.number = target].number = target
          /\ [lease[u] EXCEPT !.number = target].permanent = lease[u].permanent
          /\ [lease[u] EXCEPT !.number = target].restore = lease[u].restore
      BY <1>2 DEF Leases
    <2>2. lease' = [lease EXCEPT ![u] = [lease[u] EXCEPT !.number = target]]
      BY <1>1
    <2>3. lease \in [Owners -> Leases \cup {NoName}]
      BY DEF FancyInv, FancyType
    <2>4. lease'[u] = [lease[u] EXCEPT !.number = target]
      BY <1>2, <2>2, <2>3
    <2>5. \A x \in Owners \ {u} : lease'[x] = lease[x] /\ home'[x] = home[x]
      BY <1>1, <2>2, <2>3
    <2>6. lease' \in [Owners -> Leases \cup {NoName}]
      BY <1>2, <2>1, <2>2, <2>3
    <2> QED BY <1>1, <2>1, <2>4, <2>5, <2>6
  <1>11. FancyType'
    <2>1. /\ account' \in [Owners -> Names \cup {NoName}]
          /\ registry' \in [Names -> Claims \cup {NoName}]
      BY <1>2, <1>4, <1>6, <1>7
    <2> QED BY <1>1, <1>3, <1>8, <1>10, <2>1 DEF Rest, FancyInv, FancyType
  <1> DEFINE T == {old, target}
  <1>12. \A n \in T :
            /\ registry'[n] # NoName =>
                  registry'[n].current = NoName \/ registry'[n].reserved = NoName
            /\ stock'[n] # "NONE" => registry'[n] # NoName
            /\ stock'[n] = "AVAILABLE" => registry'[n] = Unclaimed
            /\ stock'[n] = "DISABLED" =>
                  registry'[n].current = NoName /\ registry'[n].reserved = NoName
    BY <1>6, <1>7, <1>8, <1>9
  <1>13. /\ \A n \in Names \ T : registry'[n] = registry[n] /\ stock'[n] = stock[n]
         /\ \A n \in T : OnlyOf(registry[n], u) /\ OnlyOf(registry'[n], u)
         /\ \A n \in T \ {target} : registry'[n] # NoName => registry'[n].current = NoName
    BY <1>6, <1>7, <1>8
  <1>14. T \in SUBSET Names /\ target \in T /\ account[u] \in T \cup {NoName}
    BY <1>1, <1>2
  <1>15. lease'[u] # NoName /\ home'[u] = home[u] /\ lease[u].restore = home[u]
    BY <1>1, <1>2, <1>10, Known, Records
  <1>16. \A n \in Names : registry'[n] # NoName /\ registry'[n].reserved = u
                            <=> lease'[u] # NoName /\ lease'[u].restore = n
    <2>1. ASSUME NEW n \in Names, n \in T
          PROVE  ~(registry'[n] # NoName /\ registry'[n].reserved = u) /\ lease[u].restore # n
      <3>1. ~(registry'[n] # NoName /\ registry'[n].reserved = u)
        BY <1>2, <1>6, <1>7, <2>1, Records
      <3>2. ~(registry[n] # NoName /\ registry[n].reserved = u)
        BY <1>1, <1>2, <1>5, <2>1, TargetFree, Records
      <3> QED BY <1>2, <3>1, <3>2, Known
    <2>2. ASSUME NEW n \in Names, n \notin T
          PROVE  registry'[n] # NoName /\ registry'[n].reserved = u <=> lease[u].restore = n
      BY <1>2, <1>13, <2>2, Known
    <2> QED BY <1>10, <1>15, <2>1, <2>2
  <1> HIDE DEF T
  <1>17. MovesNames(u, target, T)
    BY <1>3, <1>7, <1>8, <1>10, <1>12, <1>13, <1>14, <1>15, <1>16 DEF MovesNames
  <1> QED BY <1>2, <1>11, <1>14, <1>17, NamesMove

-----------------------------------------------------------------------------
(* Accounts.                                                                *)

LEMMA ChangeAccountId ==
    ASSUME FancyInv, NEW u \in Owners, NEW v \in Names, changeAccountId(u, v) PROVE Kept
  <1>0. PICK old : old = account[u]
    OBVIOUS
  <1> DEFINE base == IF registry[v] = NoName THEN Unclaimed ELSE registry[v]
             given == [base EXCEPT !.current = u]
             left == [registry[old] EXCEPT !.current = NoName]
  <1>1. /\ old \notin {NoName, v} /\ ~OpenLease(u)
        /\ registry[v] # NoName =>
             /\ registry[v].current = NoName /\ registry[v].reserved = NoName
             /\ registry[v].invite \in {NoName, u} /\ stock[v] = "NONE"
        /\ account' = [account EXCEPT ![u] = v]
        /\ registry' = Cleaned(Prepared(registry, u, old, v), old)
        /\ home' = [home EXCEPT ![u] = v]
        /\ UNCHANGED <<stock, lease, super, points, orders, clock, request>>
    BY <1>0 DEF changeAccountId, Rename
  <1>2. registry \in [Names -> Claims \cup {NoName}] /\ account \in [Owners -> Names \cup {NoName}]
    BY DEF FancyInv, FancyType
  <1>3. old \in Names /\ lease[u] = NoName
    BY <1>0, <1>1, <1>2 DEF OpenLease
  <1>4. /\ registry[old] \in Claims /\ registry[old].current = u
        /\ registry[old].reserved = NoName /\ stock[old] \notin {"AVAILABLE", "DISABLED"}
    <2>1. registry[old] # NoName /\ registry[old].current = u
      BY <1>0, <1>3, Known
    <2> QED BY <1>2, <1>3, <2>1, Records DEF FancyInv, OneClaim, NamesAgree
  <1>5. /\ base \in Claims /\ base.current = NoName /\ base.reserved = NoName
        /\ base.invite \in {NoName, u}
    BY <1>1, <1>2, Records
  <1> HIDE DEF base
  <1>6. /\ given \in Claims /\ given.current = u /\ given.reserved = NoName
        /\ given.invite \in {NoName, u}
    BY <1>5 DEF Claims
  <1>7. /\ left \in Claims /\ left.current = NoName /\ left.reserved = NoName
        /\ left.invite = registry[old].invite
    BY <1>4 DEF Claims
  <1>8. Prepared(registry, u, old, v)
           = [n \in Names |-> CASE n = v -> given [] n = old -> left [] OTHER -> registry[n]]
    BY <1>1, Records DEF Prepared, base
  <1>9. OnlyOf(registry[old], u) /\ OnlyOf(registry[v], u)
    <2>1. OnlyOf(registry[old], u)
      BY <1>3, <1>4, OnlyHolder, Records
    <2> QED BY <1>1, <2>1 DEF OnlyOf
  <1> HIDE DEF given, left
  <1>10. /\ registry' \in [Names -> Claims \cup {NoName}]
         /\ registry'[v] = given
         /\ registry'[old] \in {left, NoName} /\ (stock[old] # "NONE" => registry'[old] = left)
         /\ \A n \in Names \ {v, old} : registry'[n] = registry[n]
    <2> DEFINE P == [n \in Names |-> CASE n = v -> given [] n = old -> left
                                       [] OTHER -> registry[n]]
    <2>1. /\ P \in [Names -> Claims \cup {NoName}] /\ P[v] = given /\ P[old] = left
          /\ \A n \in Names \ {v, old} : P[n] = registry[n]
      BY <1>1, <1>2, <1>3, <1>6, <1>7
    <2>2. registry' = Cleaned(P, old)
      BY <1>1, <1>8
    <2> HIDE DEF P
    <2>3. registry' = P \/ (registry' = [P EXCEPT ![old] = NoName] /\ stock[old] = "NONE")
      BY <2>2 DEF Cleaned
    <2> QED BY <1>1, <1>3, <2>1, <2>3
  <1>11. FancyType'
    BY <1>1, <1>10 DEF FancyInv, FancyType
  <1>12. stock[v] = "NONE"
    BY <1>1 DEF FancyInv, OneClaim
  <1> DEFINE T == {v, old}
  <1>13. \A n \in T : OnlyOf(registry[n], u) /\ OnlyOf(registry'[n], u)
    BY <1>6, <1>7, <1>9, <1>10, <1>4, Records DEF OnlyOf
  <1>14. /\ given # NoName /\ left # NoName
    BY <1>6, <1>7, Records
  <1>15. \A n \in T :
            /\ registry'[n] # NoName =>
                  registry'[n].current = NoName \/ registry'[n].reserved = NoName
            /\ stock'[n] # "NONE" => registry'[n] # NoName
            /\ stock'[n] = "AVAILABLE" => registry'[n] = Unclaimed
            /\ stock'[n] = "DISABLED" =>
                  registry'[n].current = NoName /\ registry'[n].reserved = NoName
    BY <1>1, <1>4, <1>6, <1>7, <1>10, <1>12, <1>14
  <1>16. /\ \A n \in Names \ T : registry'[n] = registry[n] /\ stock'[n] = stock[n]
         /\ \A n \in T \ {v} : registry'[n] # NoName => registry'[n].current = NoName
    BY <1>1, <1>7, <1>10
  <1>17. T \in SUBSET Names /\ v \in T /\ account[u] \in T \cup {NoName}
    BY <1>0, <1>3
  <1>18. registry'[v] # NoName /\ registry'[v].current = u
    BY <1>6, <1>10, <1>14
  <1>19. /\ lease'[u] = NoName /\ home'[u] = v
         /\ \A x \in Owners \ {u} : lease'[x] = lease[x] /\ home'[x] = home[x]
    BY <1>1, <1>3 DEF FancyInv, FancyType
  <1>20. \A n \in Names : ~(registry'[n] # NoName /\ registry'[n].reserved = u)
    <2>1. ASSUME NEW n \in Names, n \in T
          PROVE  ~(registry'[n] # NoName /\ registry'[n].reserved = u)
      BY <1>6, <1>7, <1>10, <2>1, Records
    <2>2. ASSUME NEW n \in Names, n \notin T
          PROVE  ~(registry'[n] # NoName /\ registry'[n].reserved = u)
      BY <1>3, <1>16, <2>2, Known
    <2> QED BY <2>1, <2>2
  <1>21. \A w \in FancyWorkers : request'[w] \in {request[w], NoRequest}
    BY <1>1
  <1>22. account' = [account EXCEPT ![u] = v]
    BY <1>1
  <1> HIDE DEF T
  <1>23. MovesNames(u, v, T)
    BY <1>13, <1>15, <1>16, <1>17, <1>18, <1>19, <1>20, <1>21, <1>22 DEF MovesNames
  <1> QED BY <1>11, <1>17, <1>23, NamesMove

LEMMA Register ==
    ASSUME FancyInv, NEW u \in Owners, NEW v \in Names, NEW code \in Names, register(u, v, code)
    PROVE  Kept
  <1> DEFINE T == {v, code}
             given(n) == [current |-> IF n = v THEN u ELSE NoName, reserved |-> NoName,
                          invite |-> IF n = code THEN u ELSE NoName]
  <1>1. /\ account[u] = NoName
        /\ \A n \in T : registry[n] \in {NoName, Unclaimed} /\ stock[n] = "NONE"
        /\ account' = [account EXCEPT ![u] = v]
        /\ registry' = [n \in Names |-> IF n \notin T THEN registry[n] ELSE given(n)]
        /\ home' = [home EXCEPT ![u] = v]
        /\ UNCHANGED <<stock, lease, super, points, orders, clock, request>>
    BY DEF register
  <1>2. ASSUME NEW n \in Names
        PROVE  /\ given(n) \in Claims /\ given(n) # NoName
               /\ given(n).current = (IF n = v THEN u ELSE NoName) /\ given(n).reserved = NoName
               /\ given(n).invite \in {NoName, u}
    <2>1. given(n) \in Claims
      BY DEF Claims
    <2> QED BY <2>1, Records
  <1> HIDE DEF given
  <1>3. /\ registry' \in [Names -> Claims \cup {NoName}]
        /\ \A n \in Names \ T : registry'[n] = registry[n] /\ stock'[n] = stock[n]
        /\ \A n \in T : registry'[n] = given(n)
    BY <1>1, <1>2 DEF FancyInv, FancyType
  <1>4. FancyType'
    BY <1>1, <1>3 DEF FancyInv, FancyType
  <1>5. \A n \in T : OnlyOf(registry[n], u) /\ OnlyOf(registry'[n], u)
    <2>1. \A n \in T : OnlyOf(registry[n], u)
      BY <1>1, Records DEF OnlyOf
    <2>2. \A n \in T : OnlyOf(registry'[n], u)
      BY <1>2, <1>3 DEF OnlyOf
    <2> QED BY <2>1, <2>2
  <1>6. \A n \in T :
            /\ registry'[n] # NoName =>
                  registry'[n].current = NoName \/ registry'[n].reserved = NoName
            /\ stock'[n] # "NONE" => registry'[n] # NoName
            /\ stock'[n] = "AVAILABLE" => registry'[n] = Unclaimed
            /\ stock'[n] = "DISABLED" =>
                  registry'[n].current = NoName /\ registry'[n].reserved = NoName
    BY <1>1, <1>2, <1>3
  <1>7. /\ T \in SUBSET Names /\ v \in T /\ account[u] \in T \cup {NoName}
        /\ registry'[v] # NoName /\ registry'[v].current = u
        /\ \A n \in T \ {v} : registry'[n] # NoName => registry'[n].current = NoName
    BY <1>1, <1>2, <1>3
  <1>8. lease[u] = NoName
    BY <1>1, Known, Records
  <1>9. /\ lease'[u] = NoName /\ home'[u] = v
        /\ \A x \in Owners \ {u} : lease'[x] = lease[x] /\ home'[x] = home[x]
    BY <1>1, <1>8 DEF FancyInv, FancyType
  <1>10. \A n \in Names : ~(registry'[n] # NoName /\ registry'[n].reserved = u)
    <2>1. ASSUME NEW n \in Names, n \in T
          PROVE  ~(registry'[n] # NoName /\ registry'[n].reserved = u)
      BY <1>2, <1>3, <2>1, Records
    <2>2. ASSUME NEW n \in Names, n \notin T
          PROVE  ~(registry'[n] # NoName /\ registry'[n].reserved = u)
      BY <1>3, <1>8, <2>2, Known
    <2> QED BY <2>1, <2>2
  <1>11. \A w \in FancyWorkers : request'[w] \in {request[w], NoRequest}
    BY <1>1
  <1>12. account' = [account EXCEPT ![u] = v]
    BY <1>1
  <1> HIDE DEF T
  <1>13. MovesNames(u, v, T)
    BY <1>3, <1>5, <1>6, <1>7, <1>9, <1>10, <1>11, <1>12 DEF MovesNames
  <1> QED BY <1>4, <1>7, <1>13, NamesMove

-----------------------------------------------------------------------------
(* Leases, memberships and the stock.                                       *)

LEMMA RestStays == ASSUME FancyInv, UNCHANGED <<super, points, clock, request>> PROVE Rest'
BY DEF FancyInv, FancyType, Rest

LEMMA ExpireLease ==
    ASSUME FancyInv, NEW u \in Owners, expireLease(u) PROVE Kept
  <1>1. OpenLease(u) /\ restoreExpiredLeaseInTransaction(u)
    BY DEF expireLease, Due
  <1>2. UNCHANGED <<super, points, clock, request, home>>
    BY DEF expireLease
  <1>3. Rest'
    BY <1>2, RestStays
  <1> QED BY <1>1, <1>2, <1>3, Restore

\* The lease of u becomes another one for the same number.
LEMMA LeaseChanges ==
    ASSUME FancyInv, Rest', NEW u \in Owners, OpenLease(u), NEW l \in Leases,
           lease' = [lease EXCEPT ![u] = l],
           l.number = lease[u].number, l.restore = lease[u].restore,
           NEW status, status = IF l.permanent THEN "PERMANENT" ELSE "LEASED",
           stock' = [stock EXCEPT ![lease[u].number] = status],
           UNCHANGED <<account, registry, home>>,
           \A w \in FancyWorkers : request'[w] \in {request[w], NoRequest}
    PROVE  Kept
  <1>1. PICK n : n = lease[u].number
    OBVIOUS
  <1>2. /\ n = account[u] /\ n \in Names /\ registry[n] # NoName /\ registry[n].current = u
        /\ lease[u] # NoName /\ lease[u].restore = home[u]
    BY <1>1, Known DEF OpenLease
  <1>3. /\ lease'[u] = l /\ l # NoName /\ \A x \in Owners \ {u} : lease'[x] = lease[x]
        /\ stock'[n] = status /\ \A m \in Names \ {n} : stock'[m] = stock[m]
    BY <1>1, <1>2, Records DEF FancyInv, FancyType
  <1>4. status \in {"PERMANENT", "LEASED"}
    OBVIOUS
  <1>5. FancyType'
    <2>1. stock' \in [Names -> {"NONE", "AVAILABLE", "DISABLED", "LEASED", "PERMANENT"}]
      BY <1>4 DEF FancyInv, FancyType
    <2>2. lease' \in [Owners -> Leases \cup {NoName}]
      BY DEF FancyInv, FancyType
    <2> QED BY <2>1, <2>2 DEF FancyInv, FancyType, Rest
  <1>6. NamesAgree'
    <2>1. ASSUME NEW x \in Owners, NEW m \in Names
          PROVE  /\ registry'[m] # NoName /\ registry'[m].current = x <=> account'[x] = m
                 /\ registry'[m] # NoName /\ registry'[m].reserved = x
                       <=> OpenLease(x)' /\ lease'[x].restore = m
      BY <1>2, <1>3, Known DEF OpenLease
    <2>2. ASSUME NEW x \in Owners
          PROVE  /\ OpenLease(x)' =>
                       /\ lease'[x].number = account'[x]
                       /\ stock'[account'[x]] =
                             IF lease'[x].permanent THEN "PERMANENT" ELSE "LEASED"
                       /\ lease'[x].restore = home'[x]
                 /\ ~OpenLease(x)' => account'[x] = home'[x]
      <3>1. CASE x = u
        BY <1>1, <1>2, <1>3, <3>1 DEF OpenLease
      <3>2. CASE x # u
        <4>1. account[x] # n
          BY <1>2, <3>2, Known
        <4> QED BY <1>3, <3>2, <4>1, Known DEF OpenLease
      <3> QED BY <3>1, <3>2
    <2>3. ASSUME NEW m \in Names
          PROVE  /\ stock'[m] = "AVAILABLE" => registry'[m] = Unclaimed
                 /\ stock'[m] = "DISABLED" =>
                       registry'[m].current = NoName /\ registry'[m].reserved = NoName
      BY <1>3, <1>4 DEF FancyInv, NamesAgree
    <2> QED BY <2>1, <2>2, <2>3 DEF NamesAgree
  <1>7. OneClaim'
    BY <1>2, <1>3 DEF FancyInv, OneClaim
  <1>8. Joined'
    BY DEF FancyInv, Joined
  <1> QED BY <1>5, <1>6, <1>7, <1>8, NamesStay

LEMMA GrantMembership ==
    ASSUME FancyInv, NEW u \in Owners, grantMembership(u) PROVE Kept
  <1>1. /\ super' = super \cup {u} /\ convertActiveLeaseToPermanent(u)
        /\ UNCHANGED <<points, orders, clock, request, home>>
    BY DEF grantMembership
  <1>2. Rest'
    BY <1>1 DEF FancyInv, FancyType, Rest
  <1>3. CASE ~OpenLease(u) \/ lease[u].permanent
    <2>1. UNCHANGED <<account, registry, stock, lease>>
      BY <1>1, <1>3 DEF convertActiveLeaseToPermanent
    <2> QED BY <1>1, <1>2, <2>1, NothingMoves
  <1>4. CASE OpenLease(u) /\ ~lease[u].permanent /\ Due(u, clock)
    <2>1. restoreExpiredLeaseInTransaction(u)
      BY <1>1, <1>4 DEF convertActiveLeaseToPermanent
    <2> QED BY <1>1, <1>2, <1>4, <2>1, Restore
  <1>5. CASE OpenLease(u) /\ ~lease[u].permanent /\ ~Due(u, clock)
    <2> DEFINE l == [lease[u] EXCEPT !.permanent = TRUE]
    <2>1. /\ lease' = [lease EXCEPT ![u] = l]
          /\ stock' = [stock EXCEPT ![lease[u].number] = "PERMANENT"]
          /\ UNCHANGED <<account, registry>>
      BY <1>1, <1>5 DEF convertActiveLeaseToPermanent
    <2>2. lease[u] \in Leases
      BY <1>5, Known DEF OpenLease
    <2>3. /\ l \in Leases /\ l.permanent = TRUE
          /\ l.number = lease[u].number /\ l.restore = lease[u].restore
      BY <2>2 DEF Leases
    <2> HIDE DEF l
    <2> QED BY <1>1, <1>2, <1>5, <2>1, <2>3, LeaseChanges
  <1> QED BY <1>3, <1>4, <1>5

LEMMA RenewLease ==
    ASSUME FancyInv, NEW w \in FancyWorkers, renewLease(w) PROVE Kept
  <1>0. PICK j, u : j = request[w] /\ u = j.user
    OBVIOUS
  <1> DEFINE l == [lease[u] EXCEPT !.until = @ + j.months]
  <1>1. /\ j.kind = "renew" /\ OpenLease(u) /\ ~lease[u].permanent
        /\ lease' = [lease EXCEPT ![u] = l]
        /\ Ordered(j, j.months, j.months * Unit, lease[u].id)
        /\ request' = [request EXCEPT ![w] = NoRequest]
        /\ UNCHANGED <<account, registry, stock, home>>
    BY <1>0 DEF renewLease
  <1>2. j \in Requests /\ u \in Owners /\ j.months \in Nat
    <2>1. j # NoRequest /\ j \in Requests
      BY <1>0, <1>1 DEF FancyInv, FancyType, NoRequest
    <2> QED BY <1>0, <2>1 DEF Requests
  <1>3. j.months * Unit \in Nat
    BY <1>2, FancyAssumption
  <1>4. Rest' /\ \A x \in FancyWorkers : request'[x] \in {request[x], NoRequest}
    BY <1>1, <1>2, <1>3, OrderedTyped
  <1>5. lease[u] \in Leases
    BY <1>1, <1>2, Known DEF OpenLease
  <1>6. /\ l \in Leases /\ l.permanent = lease[u].permanent
        /\ l.number = lease[u].number /\ l.restore = lease[u].restore
    BY <1>2, <1>5 DEF Leases
  <1>7. stock' = [stock EXCEPT ![lease[u].number] = "LEASED"]
    <2>1. stock[lease[u].number] = "LEASED"
      BY <1>1, <1>2, Known DEF OpenLease
    <2> QED BY <1>1, <2>1 DEF FancyInv, FancyType
  <1> HIDE DEF l
  <1>8. "LEASED" = IF l.permanent THEN "PERMANENT" ELSE "LEASED"
    BY <1>1, <1>6
  <1> QED BY ZenonT(30), <1>1, <1>2, <1>4, <1>6, <1>7, <1>8, LeaseChanges

LEMMA Stock ==
    ASSUME FancyInv, NEW v \in Names,
           adminBatchCreate(v) \/ \E enabled \in BOOLEAN : adminSetAvailability(v, enabled)
    PROVE  Kept
  <1>1. /\ UNCHANGED <<account, lease, super, points, orders, clock, request, home>>
        /\ \E status \in {"AVAILABLE", "DISABLED"} : stock' = [stock EXCEPT ![v] = status]
        /\ registry' = registry
              \/ (registry[v] = NoName /\ registry' = [registry EXCEPT ![v] = Unclaimed])
    BY DEF adminBatchCreate, adminSetAvailability
  <1>2. /\ registry'[v] # NoName
        /\ stock'[v] = "AVAILABLE" => registry'[v] = Unclaimed
        /\ stock'[v] = "DISABLED" =>
              registry'[v].current = NoName /\ registry'[v].reserved = NoName
        /\ \A u \in Owners : account[u] = v => lease[u] = NoName
    <2>1. CASE adminBatchCreate(v)
      <3>1. registry'[v] = Unclaimed
        BY <2>1 DEF adminBatchCreate, FancyInv, FancyType
      <3>2. \A u \in Owners : account[u] # v
        BY <2>1, Known DEF adminBatchCreate
      <3> QED BY <3>1, <3>2, Records
    <2>2. CASE \E enabled \in BOOLEAN : adminSetAvailability(v, enabled)
      <3>1. PICK enabled \in BOOLEAN : adminSetAvailability(v, enabled)
        BY <2>2
      <3>2. /\ stock[v] \in {"AVAILABLE", "DISABLED"} /\ UNCHANGED registry
            /\ enabled => registry[v] = Unclaimed
            /\ stock'[v] = IF enabled THEN "AVAILABLE" ELSE "DISABLED"
        BY <3>1 DEF adminSetAvailability, FancyInv, FancyType
      <3>3. registry[v] # NoName
        BY <3>2 DEF FancyInv, OneClaim
      <3>4. stock[v] = "AVAILABLE" => registry[v] = Unclaimed
        BY DEF FancyInv, NamesAgree
      <3>5. stock[v] = "DISABLED" => registry[v].current = NoName /\ registry[v].reserved = NoName
        BY DEF FancyInv, NamesAgree
      <3>6. \A u \in Owners : account[u] = v => lease[u] = NoName
        BY <3>2, Known
      <3> QED BY <3>2, <3>3, <3>4, <3>5, <3>6, Records
    <2> QED BY <2>1, <2>2
  <1>3. /\ registry' \in [Names -> Claims \cup {NoName}]
        /\ stock' \in [Names -> {"NONE", "AVAILABLE", "DISABLED", "LEASED", "PERMANENT"}]
        /\ \A n \in Names \ {v} : registry'[n] = registry[n] /\ stock'[n] = stock[n]
        /\ registry'[v] = registry[v] \/ (registry[v] = NoName /\ registry'[v] = Unclaimed)
    BY <1>1, Records DEF FancyInv, FancyType
  <1>4. FancyType'
    BY <1>1, <1>3 DEF FancyInv, FancyType
  <1>5. NamesAgree'
    <2>1. ASSUME NEW x \in Owners, NEW n \in Names
          PROVE  /\ registry'[n] # NoName /\ registry'[n].current = x <=> account'[x] = n
                 /\ registry'[n] # NoName /\ registry'[n].reserved = x
                       <=> OpenLease(x)' /\ lease'[x].restore = n
      BY <1>1, <1>3, Known, Records DEF OpenLease
    <2>2. ASSUME NEW x \in Owners
          PROVE  /\ OpenLease(x)' =>
                       /\ lease'[x].number = account'[x]
                       /\ stock'[account'[x]] =
                             IF lease'[x].permanent THEN "PERMANENT" ELSE "LEASED"
                       /\ lease'[x].restore = home'[x]
                 /\ ~OpenLease(x)' => account'[x] = home'[x]
      BY <1>1, <1>2, <1>3, Known DEF OpenLease
    <2>3. ASSUME NEW n \in Names
          PROVE  /\ stock'[n] = "AVAILABLE" => registry'[n] = Unclaimed
                 /\ stock'[n] = "DISABLED" =>
                       registry'[n].current = NoName /\ registry'[n].reserved = NoName
      BY <1>2, <1>3 DEF FancyInv, NamesAgree
    <2> QED BY <2>1, <2>2, <2>3 DEF NamesAgree
  <1>6. OneClaim'
    BY <1>2, <1>3, Records DEF FancyInv, OneClaim
  <1>7. Joined'
    BY <1>1 DEF FancyInv, Joined
  <1>8. \A n \in Names : Of(registry'[n]) = Of(registry[n])
    BY <1>3, Records DEF Of
  <1> QED BY <1>1, <1>4, <1>5, <1>6, <1>7, <1>8, NamesStay

-----------------------------------------------------------------------------
(* Requests, time and the whole.                                            *)

LEMMA ExpireOverdue ==
    ASSUME FancyInv, NEW w \in FancyWorkers, expireOverdueLeaseForUser(w) PROVE Kept
  <1>0. PICK j : j = request[w]
    OBVIOUS
  <1>1. /\ j # NoRequest /\ j \in Requests /\ j.user \in Owners
        /\ UNCHANGED <<super, points, orders, clock, home>>
        /\ request \in [FancyWorkers -> Requests \cup {NoRequest}]
    <2>1. j # NoRequest /\ UNCHANGED <<super, points, orders, clock, home>>
      BY <1>0 DEF expireOverdueLeaseForUser
    <2>2. request \in [FancyWorkers -> Requests \cup {NoRequest}]
      BY DEF FancyInv, FancyType
    <2>3. j \in Requests
      BY <1>0, <2>1, <2>2
    <2> QED BY <2>1, <2>2, <2>3 DEF Requests
  <1>2. PICK next : next = [j EXCEPT !.phase = "write"]
    OBVIOUS
  <1>3. /\ next \in Requests /\ next.user = j.user /\ next.kind = j.kind /\ next.target = j.target
    BY <1>1, <1>2 DEF Requests
  <1>4. ASSUME request' = [request EXCEPT ![w] = NoRequest] \/ request' = [request EXCEPT ![w] = next]
        PROVE  Rest' /\ \A x \in FancyWorkers :
                           request'[x] \in {request[x], NoRequest} \/ Continues(x)
    <2>1. request' \in [FancyWorkers -> Requests \cup {NoRequest}]
      BY <1>1, <1>3, <1>4
    <2>2. Rest'
      BY <1>1, <2>1 DEF Rest, FancyInv, FancyType
    <2>3. ASSUME NEW x \in FancyWorkers
          PROVE  request'[x] \in {request[x], NoRequest} \/ Continues(x)
      <3>1. CASE x # w
        BY <1>1, <1>4, <3>1
      <3>2. CASE x = w
        <4>1. request'[w] = NoRequest \/ request'[w] = next
          BY <1>1, <1>4
        <4> QED BY <1>0, <1>1, <1>3, <3>2, <4>1 DEF Continues
      <3> QED BY <3>1, <3>2
    <2> QED BY <2>2, <2>3
  <1>5. CASE Due(j.user, j.now)
    <2>1. /\ restoreExpiredLeaseInTransaction(j.user)
          /\ request' = [request EXCEPT ![w] = IF j.kind = "renew" THEN NoRequest ELSE next]
      BY <1>0, <1>2, <1>5 DEF expireOverdueLeaseForUser
    <2>2. request' = [request EXCEPT ![w] = NoRequest] \/ request' = [request EXCEPT ![w] = next]
      BY <2>1
    <2>3. OpenLease(j.user) /\ UNCHANGED home
      BY <1>1, <1>5 DEF Due
    <2> QED BY <1>1, <1>4, <2>1, <2>2, <2>3, Restore
  <1>6. CASE ~Due(j.user, j.now)
    <2>1. /\ request' = [request EXCEPT ![w].phase = "write"]
          /\ UNCHANGED <<account, registry, stock, lease>>
      BY <1>0, <1>6 DEF expireOverdueLeaseForUser
    <2>2. request' = [request EXCEPT ![w] = next]
      BY <1>0, <1>2, <2>1
    <2>3. Rest' /\ \A x \in FancyWorkers :
                      request'[x] \in {request[x], NoRequest} \/ Continues(x)
      BY <1>4, <2>2
    <2>4. ASSUME NEW x \in FancyWorkers, Continues(x)
          PROVE  /\ account[request'[x].user] # NoName
                 /\ request'[x].kind \in {"purchase", "switch"} => request'[x].target \in Names
      BY <2>4 DEF Continues, FancyInv, Joined
    <2> QED BY <1>1, <2>1, <2>3, <2>4, NothingMoves
  <1> QED BY <1>5, <1>6

\* A request begins or ends, time passes.
Starts(w) == \E u \in Owners, k \in OrderKeys :
    \/ \E n \in Names : switchPermanent(w, u, n, k) \/ \E m \in Months : purchase(w, u, n, m, k)
    \/ \E m \in Months : renew(w, u, m, k)

LEMMA Quiet ==
    ASSUME FancyInv, Tick \/ UNCHANGED fancyVars \/ \E w \in FancyWorkers : RequestEnds(w) \/ Starts(w)
    PROVE  Kept
  <1>0. request \in [FancyWorkers -> Requests \cup {NoRequest}] /\ clock \in Nat
    BY DEF FancyInv, FancyType
  <1>1. CASE Tick \/ UNCHANGED fancyVars
    <2>1. /\ clock' \in Nat /\ UNCHANGED <<account, registry, stock, lease, home>>
          /\ UNCHANGED <<super, points, request>>
      BY <1>0, <1>1 DEF Tick, fancyVars
    <2>2. Rest'
      BY <2>1 DEF FancyInv, FancyType, Rest
    <2> QED BY <2>1, <2>2, NothingMoves
  <1>2. CASE \E w \in FancyWorkers : RequestEnds(w)
    <2>1. PICK w \in FancyWorkers : RequestEnds(w)
      BY <1>2
    <2>2. /\ request' = [request EXCEPT ![w] = NoRequest]
          /\ UNCHANGED <<account, registry, stock, lease, super, points, clock, home>>
      BY <2>1 DEF RequestEnds
    <2>3. Rest' /\ \A x \in FancyWorkers : request'[x] \in {request[x], NoRequest}
      BY <1>0, <2>2 DEF FancyInv, FancyType, Rest
    <2> QED BY <2>2, <2>3, NothingMoves
  <1>3. CASE \E w \in FancyWorkers : Starts(w)
    <2>1. PICK w \in FancyWorkers : Starts(w)
      BY <1>3
    <2>2. PICK u \in Owners, k \in OrderKeys :
             \/ \E n \in Names : switchPermanent(w, u, n, k) \/ \E m \in Months : purchase(w, u, n, m, k)
             \/ \E m \in Months : renew(w, u, m, k)
      BY <2>1 DEF Starts
    <2>3. Months \subseteq Nat
      BY FancyAssumption
    <2>4. \E j \in Requests :
             /\ request' = [request EXCEPT ![w] = j] /\ account[j.user] # NoName
             /\ j.kind \in {"purchase", "switch"} => j.target \in Names
      <3>1. CASE \E n \in Names : switchPermanent(w, u, n, k)
        <4>1. PICK n \in Names : switchPermanent(w, u, n, k)
          BY <3>1
        <4> DEFINE j == [kind |-> "switch", phase |-> "write", user |-> u, target |-> n,
                         months |-> 0, key |-> k, now |-> clock]
        <4>2. j \in Requests
          BY <1>0 DEF Requests
        <4> QED BY <4>1, <4>2 DEF switchPermanent
      <3>2. CASE \E n \in Names, m \in Months : purchase(w, u, n, m, k)
        <4>1. PICK n \in Names, m \in Months : purchase(w, u, n, m, k)
          BY <3>2
        <4> DEFINE j == [kind |-> "purchase", phase |-> "expire", user |-> u, target |-> n,
                         months |-> m, key |-> k, now |-> clock]
        <4>2. j \in Requests
          BY <1>0, <2>3 DEF Requests
        <4> QED BY <4>1, <4>2 DEF purchase
      <3>3. CASE \E m \in Months : renew(w, u, m, k)
        <4>1. PICK m \in Months : renew(w, u, m, k)
          BY <3>3
        <4> DEFINE j == [kind |-> "renew", phase |-> "expire", user |-> u, target |-> NoName,
                         months |-> m, key |-> k, now |-> clock]
        <4>2. j \in Requests
          BY <1>0, <2>3 DEF Requests
        <4> QED BY <4>1, <4>2 DEF renew
      <3> QED BY <2>2, <3>1, <3>2, <3>3
    <2>5. PICK j \in Requests :
             /\ request' = [request EXCEPT ![w] = j] /\ account[j.user] # NoName
             /\ j.kind \in {"purchase", "switch"} => j.target \in Names
      BY <2>4
    <2>6. UNCHANGED <<account, registry, stock, lease, super, points, clock, home>>
      BY <2>2 DEF switchPermanent, purchase, renew
    <2>7. Rest'
      BY <1>0, <2>5, <2>6 DEF FancyInv, FancyType, Rest
    <2>8. \A x \in FancyWorkers :
             \/ request'[x] \in {request[x], NoRequest}
             \/ /\ account[request'[x].user] # NoName
                /\ request'[x].kind \in {"purchase", "switch"} => request'[x].target \in Names
      BY <1>0, <2>5
    <2> QED BY <2>6, <2>7, <2>8, NothingMoves
  <1> QED BY <1>1, <1>2, <1>3

LEMMA FancyStep == ASSUME FancyInv, [FancyNext]_fancyVars PROVE Kept
  <1>1. CASE \E w \in FancyWorkers :
                \/ expireOverdueLeaseForUser(w) \/ purchaseTarget(w) \/ renewLease(w)
                \/ switchPermanentTarget(w)
    BY <1>1, ExpireOverdue, PurchaseTarget, RenewLease, SwitchPermanentTarget
  <1>2. CASE \E u \in Owners :
                \/ expireLease(u) \/ grantMembership(u)
                \/ \E v \in Names : changeAccountId(u, v)
                \/ \E v, code \in Names : register(u, v, code)
    BY <1>2, ExpireLease, GrantMembership, ChangeAccountId, Register
  <1>3. CASE \E v \in Names : adminBatchCreate(v) \/ \E enabled \in BOOLEAN : adminSetAvailability(v, enabled)
    BY <1>3, Stock
  <1>4. CASE Tick \/ UNCHANGED fancyVars \/ \E w \in FancyWorkers : RequestEnds(w) \/ Starts(w)
    BY <1>4, Quiet
  <1> QED BY <1>1, <1>2, <1>3, <1>4 DEF FancyNext, Starts

LEMMA FancyStart == ASSUME FancyInit PROVE FancyInv /\ Titles!TitlesInit
  <1> DEFINE First == DOMAIN FirstName
             given(u) == [current |-> u, reserved |-> NoName, invite |-> u]
             own(u) == [number |-> FirstName[u], restore |-> NoName, id |-> NoName,
                        from |-> 0, until |-> 0, permanent |-> TRUE]
  <1>1. PICK old \in SUBSET Legacy :
          /\ account = [u \in Owners |-> IF u \in First THEN FirstName[u] ELSE NoName]
          /\ registry = [n \in Names |->
                IF \E u \in First : FirstName[u] = n
                THEN LET u == CHOOSE x \in First : FirstName[x] = n
                     IN [current |-> u, reserved |-> NoName, invite |-> u]
                ELSE NoName]
          /\ stock = [n \in Names |-> IF \E u \in old : FirstName[u] = n THEN "PERMANENT" ELSE "NONE"]
          /\ lease = [u \in Owners |-> IF u \in old THEN own(u) ELSE NoName]
          /\ super = {} /\ clock = 0 /\ points = [u \in Owners |-> OpeningPoints]
          /\ request = [w \in FancyWorkers |-> NoRequest]
          /\ home = [u \in Owners |-> IF u \in First \ old THEN FirstName[u] ELSE NoName]
    BY DEF FancyInit
  <1>2. /\ First \in SUBSET Owners /\ old \in SUBSET First
        /\ \A u \in First : FirstName[u] \in Names
        /\ \A u, v \in First : FirstName[u] = FirstName[v] => u = v
        /\ OpeningPoints \in Nat
    BY <1>1, FancyAssumption
  <1>3. ASSUME NEW u \in First
        PROVE  /\ given(u) \in Claims /\ given(u) # NoName /\ Of(given(u)) = u
               /\ given(u).current = u /\ given(u).reserved = NoName /\ given(u).invite = u
    <2>1. given(u) \in Claims
      BY <1>2 DEF Claims
    <2>2. u # NoName
      BY <1>2, Records
    <2> QED BY <2>1, <2>2, Records DEF Of
  <1>4. ASSUME NEW u \in First
        PROVE  /\ own(u) \in Leases /\ own(u) # NoName
               /\ own(u).number = FirstName[u] /\ own(u).restore = NoName /\ own(u).permanent = TRUE
    <2>1. own(u) \in Leases
      BY <1>2 DEF Leases
    <2> QED BY <2>1, Records
  <1>5. \A u \in First : registry[FirstName[u]] = given(u)
    <2>1. ASSUME NEW u \in First
          PROVE  registry[FirstName[u]] = given(u)
      <3>1. u = CHOOSE x \in First : FirstName[x] = FirstName[u]
        BY <1>2
      <3> QED BY <1>1, <1>2, <3>1
    <2> QED BY <2>1
  <1>6. \A n \in Names : (~\E u \in First : FirstName[u] = n) => registry[n] = NoName
    BY <1>1
  <1> HIDE DEF given, own
  <1>7. /\ \A u \in First : account[u] = FirstName[u]
        /\ \A u \in Owners \ First : account[u] = NoName
        /\ \A u \in old : lease[u] = own(u) /\ home[u] = NoName
        /\ \A u \in Owners \ old : lease[u] = NoName /\ home[u] = account[u]
        /\ \A u \in old : stock[FirstName[u]] = "PERMANENT"
        /\ \A n \in Names : stock[n] \in {"NONE", "PERMANENT"}
        /\ \A n \in Names : stock[n] = "PERMANENT" => \E u \in old : FirstName[u] = n
    BY <1>1, <1>2
  <1>8. FancyType
    <2>1. registry \in [Names -> Claims \cup {NoName}]
      <3>1. \A n \in Names : registry[n] \in Claims \cup {NoName}
        BY <1>3, <1>5, <1>6
      <3> QED BY <1>1, <3>1
    <2>2. lease \in [Owners -> Leases \cup {NoName}]
      BY <1>1, <1>2, <1>4
    <2>3. /\ account \in [Owners -> Names \cup {NoName}]
          /\ home \in [Owners -> Names \cup {NoName}]
          /\ stock \in [Names -> {"NONE", "AVAILABLE", "DISABLED", "LEASED", "PERMANENT"}]
      BY <1>1, <1>2
    <2>4. /\ super \in SUBSET Owners /\ points \in [Owners -> Nat] /\ clock \in Nat
          /\ request \in [FancyWorkers -> Requests \cup {NoRequest}]
      BY <1>1, <1>2
    <2> QED BY <2>1, <2>2, <2>3, <2>4 DEF FancyType
  <1>9. ASSUME NEW n \in Names
        PROVE  \/ registry[n] = NoName /\ \A u \in First : FirstName[u] # n
               \/ \E u \in First : FirstName[u] = n /\ registry[n] = given(u)
    BY <1>5, <1>6
  <1>10. NamesAgree
    <2>1. ASSUME NEW u \in Owners, NEW n \in Names
          PROVE  registry[n] # NoName /\ registry[n].current = u <=> account[u] = n
      BY <1>2, <1>3, <1>5, <1>7, <1>9, Records
    <2>2. ASSUME NEW u \in Owners, NEW n \in Names
          PROVE  /\ ~(registry[n] # NoName /\ registry[n].reserved = u)
                 /\ ~(OpenLease(u) /\ lease[u].restore = n)
      <3>1. ~(registry[n] # NoName /\ registry[n].reserved = u)
        BY <1>3, <1>9, Records
      <3>2. ASSUME lease[u] # NoName PROVE lease[u].restore = NoName
        <4>1. u \in old /\ u \in First
          BY <1>2, <1>7, <3>2
        <4>2. lease[u] = own(u) /\ own(u).restore = NoName
          BY <1>4, <1>7, <4>1
        <4> QED BY <4>2
      <3> QED BY <3>1, <3>2, Records DEF OpenLease
    <2>3. ASSUME NEW u \in Owners
          PROVE  /\ OpenLease(u) =>
                       /\ lease[u].number = account[u] /\ lease[u].restore = home[u]
                       /\ stock[account[u]] = IF lease[u].permanent THEN "PERMANENT" ELSE "LEASED"
                 /\ ~OpenLease(u) => account[u] = home[u]
      <3>1. CASE u \in old
        <4>1. /\ u \in First /\ account[u] = FirstName[u] /\ lease[u] = own(u) /\ home[u] = NoName
              /\ stock[account[u]] = "PERMANENT"
          BY <1>2, <1>7, <3>1
        <4>2. /\ lease[u].number = account[u] /\ lease[u].restore = home[u] /\ lease[u] # NoName
          BY <1>4, <4>1
        <4>3. lease[u].permanent = TRUE
          BY <1>4, <4>1
        <4> QED BY <4>1, <4>2, <4>3 DEF OpenLease
      <3>2. CASE u \notin old
        BY <1>7, <3>2 DEF OpenLease
      <3> QED BY <3>1, <3>2
    <2>4. \A n \in Names : stock[n] \notin {"AVAILABLE", "DISABLED"}
      BY <1>7
    <2> QED BY <2>1, <2>2, <2>3, <2>4 DEF NamesAgree
  <1>11. OneClaim
    <2>1. ASSUME NEW n \in Names
          PROVE  /\ registry[n] # NoName =>
                       /\ registry[n].current = NoName \/ registry[n].reserved = NoName
                       /\ registry[n].invite # NoName =>
                             /\ registry[n].current \in {NoName, registry[n].invite}
                             /\ registry[n].reserved \in {NoName, registry[n].invite}
                 /\ stock[n] # "NONE" => registry[n] # NoName
      BY <1>2, <1>3, <1>5, <1>7, <1>9
    <2> QED BY <2>1 DEF OneClaim
  <1>12. Joined
    BY <1>1 DEF Joined
  <1>13. Titles!TitlesInit
    <2> DEFINE held == [n \in Names |-> Holder(n)]
    <2>1. \A n \in Names : Holder(n) = Of(registry[n])
      BY <1>8, Holders
    <2>2. held \in [Names -> Owners \cup {NoName}]
      BY <1>8, <2>1, HolderOf DEF FancyType
    <2>3. ASSUME NEW u \in Owners PROVE account[u] = NoName \/ held[account[u]] = u
      <3>1. CASE u \in First
        BY <1>2, <1>3, <1>5, <1>7, <2>1, <3>1
      <3>2. CASE u \notin First
        BY <1>7, <3>2
      <3> QED BY <3>1, <3>2
    <2>4. account \in [Owners -> Names \cup {NoName}]
      BY <1>8 DEF FancyType
    <2> QED BY <2>2, <2>3, <2>4 DEF Titles!TitlesInit, Titles!Answers
  <1> QED BY <1>8, <1>10, <1>11, <1>12, <1>13 DEF FancyInv

-----------------------------------------------------------------------------

(* Types, and users, registry, stock and leases telling the same: with one   *)
(* person's claims on every name and requests of users who have joined.      *)
THEOREM FancyInvariant == FancySpec => []FancyInv
  <1>1. FancyInit => FancyInv
    BY FancyStart
  <1>2. FancyInv /\ [FancyNext]_fancyVars => FancyInv'
    BY FancyStep DEF Kept
  <1> QED BY <1>1, <1>2, PTL DEF FancySpec

(* Users, registry, stock and leases tell the same (the part of MarketAgrees *)
(* that is about names): no sequence of purchases, switches, renewals,       *)
(* expiries, renamings, memberships and administration leaves somebody with  *)
(* a number that is for sale, or without the name that was kept for him.     *)
THEOREM NamesHeld == FancySpec => []NamesAgree
  <1>1. FancyInv => NamesAgree
    BY DEF FancyInv
  <1> QED BY <1>1, FancyInvariant, PTL

(* Registry and users implement NameTitles: no transaction moves a name from *)
(* one person to another, or the names of two people.                        *)
THEOREM TitlesKept == FancySpec => KeepsTitles
  <1>1. FancyInit => Titles!TitlesInit
    BY FancyStart
  <1>2. FancyInv /\ [FancyNext]_fancyVars => [Titles!TitlesNext]_(Titles!titleVars)
    BY FancyStep DEF Kept
  <1> QED BY <1>1, <1>2, FancyInvariant, PTL DEF FancySpec, KeepsTitles, Titles!TitlesSpec

-----------------------------------------------------------------------------
(* Wallets, orders and the time of a lease.  Every order is of a lease that  *)
(* an order opened, or of one from before the market opened, so that a key   *)
(* nobody has used yet names a lease no month has been paid for.             *)

Cost(O) == [k \in DOMAIN O |-> O[k].cost]
Time(O) == [k \in DOMAIN O |-> O[k].months]
Mine(O, u) == {k \in DOMAIN O : O[k].user = u}
Towards(O, u, id) == {k \in Mine(O, u) : O[k].lease = id}
Spent(O, u) == SumFunctionOnSet(Cost(O), Mine(O, u))
Bought(O, u, id) == SumFunctionOnSet(Time(O), Towards(O, u, id))

OrderBook(O) ==
    /\ IsFiniteSet(DOMAIN O)
    /\ \A k \in DOMAIN O :
          /\ O[k].user \in Owners /\ O[k].cost \in Nat /\ O[k].months \in Nat
          /\ O[k].lease \in DOMAIN O \cup {NoName}

WalletsAgree == \A u \in Owners : points[u] + Spent(orders, u) = OpeningPoints

LeasePaid(l, u) ==
    l # NoName => /\ l.id \in DOMAIN orders \cup {NoName}
                  /\ l.permanent \/ l.until = l.from + Bought(orders, u, l.id)

LeasesPaid == \A u \in Owners : LeasePaid(lease[u], u)

PaidInv == OrderBook(orders) /\ WalletsAgree /\ LeasesPaid

\* The book with one order more.
WithOrder(O, k, r) == [x \in DOMAIN O \cup {k} |-> IF x = k THEN r ELSE O[x]]

OrderFits(O, k, r) ==
    /\ k \notin DOMAIN O /\ k # NoName
    /\ r.user \in Owners /\ r.cost \in Nat /\ r.months \in Nat
    /\ r.lease \in DOMAIN O \cup {k, NoName}

LEMMA BookGrows ==
    ASSUME NEW O, OrderBook(O), NEW k, NEW r, OrderFits(O, k, r)
    PROVE  OrderBook(WithOrder(O, k, r)) /\ DOMAIN WithOrder(O, k, r) = DOMAIN O \cup {k}
  <1> DEFINE P == WithOrder(O, k, r)
  <1>1. /\ DOMAIN P = DOMAIN O \cup {k} /\ P[k] = r /\ \A x \in DOMAIN O : P[x] = O[x]
    BY DEF WithOrder, OrderFits
  <1>2. IsFiniteSet(DOMAIN P)
    BY <1>1, FS_AddElement DEF OrderBook
  <1> HIDE DEF P
  <1>3. OrderBook(P)
    BY <1>1, <1>2 DEF OrderBook, OrderFits
  <1> QED BY <1>1, <1>3 DEF P

\* What is spent and bought with one order more.
LEMMA SpentMore ==
    ASSUME NEW O, OrderBook(O), NEW k, NEW r, OrderFits(O, k, r), NEW u \in Owners
    PROVE  /\ Spent(O, u) \in Int
           /\ Spent(WithOrder(O, k, r), u) = Spent(O, u) + IF u = r.user THEN r.cost ELSE 0
  <1> DEFINE P == WithOrder(O, k, r)
             S == Mine(O, u)
  <1>1. /\ DOMAIN P = DOMAIN O \cup {k} /\ P[k] = r /\ \A x \in DOMAIN O : P[x] = O[x]
    BY DEF WithOrder, OrderFits
  <1>2. IsFiniteSet(S) /\ k \notin S
    BY FS_Subset DEF Mine, OrderBook, OrderFits
  <1>3. /\ \A x \in S : Cost(P)[x] = Cost(O)[x] /\ Cost(O)[x] \in Int
        /\ Cost(P)[k] = r.cost /\ r.cost \in Int
    BY <1>1 DEF Cost, Mine, OrderBook, OrderFits
  <1>4. Mine(P, u) = IF u = r.user THEN S \cup {k} ELSE S
    BY <1>1 DEF Mine, OrderFits
  <1> HIDE DEF P, S
  <1>5. /\ SumFunctionOnSet(Cost(P), S) = SumFunctionOnSet(Cost(O), S)
        /\ SumFunctionOnSet(Cost(P), S \cup {k}) = SumFunctionOnSet(Cost(O), S) + r.cost
        /\ SumFunctionOnSet(Cost(O), S) \in Int
    <2> DEFINE f == Cost(O)
               g == Cost(P)
    <2>1. g[k] = r.cost /\ g[k] \in Int
      BY <1>3
    <2>2. \A y \in S : g[y] = f[y] /\ f[y] \in Int
      BY <1>3
    <2> HIDE DEF f, g
    <2>3. /\ SumFunctionOnSet(g, S) = SumFunctionOnSet(f, S)
          /\ SumFunctionOnSet(g, S \cup {k}) = SumFunctionOnSet(f, S) + g[k]
          /\ SumFunctionOnSet(f, S) \in Int
      BY <1>2, <2>1, <2>2, SumGrows
    <2> QED BY <2>1, <2>3 DEF f, g
  <1>6. Spent(P, u) = SumFunctionOnSet(Cost(P), Mine(P, u))
        /\ Spent(O, u) = SumFunctionOnSet(Cost(O), S)
    BY DEF Spent, S
  <1>7. Spent(P, u) = Spent(O, u) + IF u = r.user THEN r.cost ELSE 0
    BY <1>4, <1>5, <1>6
  <1> QED BY <1>5, <1>6, <1>7 DEF P

LEMMA BoughtMore ==
    ASSUME NEW O, OrderBook(O), NEW k, NEW r, OrderFits(O, k, r), NEW u \in Owners, NEW id
    PROVE  /\ Bought(O, u, id) \in Int
           /\ Bought(WithOrder(O, k, r), u, id)
                 = Bought(O, u, id) + IF u = r.user /\ id = r.lease THEN r.months ELSE 0
  <1> DEFINE P == WithOrder(O, k, r)
             S == Towards(O, u, id)
  <1>1. /\ DOMAIN P = DOMAIN O \cup {k} /\ P[k] = r /\ \A x \in DOMAIN O : P[x] = O[x]
    BY DEF WithOrder, OrderFits
  <1>2. IsFiniteSet(S) /\ k \notin S
    BY FS_Subset DEF Towards, Mine, OrderBook, OrderFits
  <1>3. /\ \A x \in S : Time(P)[x] = Time(O)[x] /\ Time(O)[x] \in Int
        /\ Time(P)[k] = r.months /\ r.months \in Int
    BY <1>1 DEF Time, Towards, Mine, OrderBook, OrderFits
  <1>4. Towards(P, u, id) = IF u = r.user /\ id = r.lease THEN S \cup {k} ELSE S
    BY <1>1 DEF Towards, Mine, OrderFits
  <1> HIDE DEF P, S
  <1>5. /\ SumFunctionOnSet(Time(P), S) = SumFunctionOnSet(Time(O), S)
        /\ SumFunctionOnSet(Time(P), S \cup {k}) = SumFunctionOnSet(Time(O), S) + r.months
        /\ SumFunctionOnSet(Time(O), S) \in Int
    <2> DEFINE f == Time(O)
               g == Time(P)
    <2>1. g[k] = r.months /\ g[k] \in Int
      BY <1>3
    <2>2. \A y \in S : g[y] = f[y] /\ f[y] \in Int
      BY <1>3
    <2> HIDE DEF f, g
    <2>3. /\ SumFunctionOnSet(g, S) = SumFunctionOnSet(f, S)
          /\ SumFunctionOnSet(g, S \cup {k}) = SumFunctionOnSet(f, S) + g[k]
          /\ SumFunctionOnSet(f, S) \in Int
      BY <1>2, <2>1, <2>2, SumGrows
    <2> QED BY <2>1, <2>3 DEF f, g
  <1>6. Bought(P, u, id) = SumFunctionOnSet(Time(P), Towards(P, u, id))
        /\ Bought(O, u, id) = SumFunctionOnSet(Time(O), S)
    BY DEF Bought, S
  <1>7. Bought(P, u, id) = Bought(O, u, id) + IF u = r.user /\ id = r.lease THEN r.months ELSE 0
    BY <1>4, <1>5, <1>6
  <1> QED BY <1>5, <1>6, <1>7 DEF P

\* An order of m months for the lease id is booked and paid.
Booked(j, m, id) ==
    /\ OrderBook(orders') /\ DOMAIN orders' = DOMAIN orders \cup {j.key}
    /\ j.key \notin DOMAIN orders /\ j.key # NoName
    /\ WalletsAgree'
    /\ \A x \in Owners : \A i : /\ Bought(orders, x, i) \in Int
                                /\ Bought(orders', x, i) = Bought(orders, x, i)
                                     + IF x = j.user /\ i = id THEN m ELSE 0

LEMMA OrderedPaid ==
    ASSUME FancyInv, PaidInv, NEW j \in Requests, NEW m \in Nat, NEW c \in Nat, NEW id,
           id \in DOMAIN orders \cup {j.key, NoName}, Ordered(j, m, c, id)
    PROVE  Booked(j, m, id)
  <1> DEFINE r == [user |-> j.user, lease |-> id, months |-> m, cost |-> c]
             O == orders
             k == j.key
  <1>1. /\ r.user = j.user /\ r.cost = c /\ r.months = m /\ r.lease = id
        /\ orders' = WithOrder(O, k, r)
    BY DEF Ordered, WithOrder
  <1>2. OrderFits(O, k, r) /\ OrderBook(O) /\ j.user \in Owners
    <2>1. j.user \in Owners /\ j.key \in OrderKeys /\ j.key # NoName
      BY FancyAssumption DEF Requests
    <2> QED BY <1>1, <2>1 DEF OrderFits, Ordered, PaidInv
  <1>3. /\ \A x \in Owners : points[x] \in Nat /\ points[x] + Spent(O, x) = OpeningPoints
        /\ \A x \in Owners : points'[x] = IF x = j.user THEN points[x] - c ELSE points[x]
        /\ OpeningPoints \in Nat
    BY <1>2, FancyAssumption DEF FancyInv, FancyType, PaidInv, WalletsAgree, Ordered
  <1>4. k \notin DOMAIN O /\ k # NoName
    BY <1>2 DEF OrderFits
  <1> HIDE DEF r, O, k
  <1>5. OrderBook(WithOrder(O, k, r)) /\ DOMAIN WithOrder(O, k, r) = DOMAIN O \cup {k}
    BY <1>2, BookGrows
  <1>6. ASSUME NEW x \in Owners
        PROVE  points'[x] + Spent(WithOrder(O, k, r), x) = OpeningPoints
    <2>1. /\ Spent(O, x) \in Int
          /\ Spent(WithOrder(O, k, r), x) = Spent(O, x) + IF x = r.user THEN r.cost ELSE 0
      BY <1>2, SpentMore
    <2> QED BY <1>1, <1>3, <2>1
  <1>7. WalletsAgree'
    BY <1>1, <1>6 DEF WalletsAgree
  <1>8. ASSUME NEW x \in Owners, NEW i
        PROVE  /\ Bought(O, x, i) \in Int
               /\ Bought(WithOrder(O, k, r), x, i)
                    = Bought(O, x, i) + IF x = j.user /\ i = id THEN m ELSE 0
    BY <1>1, <1>2, BoughtMore
  <1> QED BY <1>1, <1>4, <1>5, <1>7, <1>8 DEF O, k, Booked

\* No order: leases may end, or stop ending.
LEMMA QuietPaid ==
    ASSUME PaidInv, UNCHANGED <<orders, points>>,
           \A u \in Owners :
              \/ lease'[u] \in {lease[u], NoName}
              \/ lease[u] # NoName /\ lease'[u].id = lease[u].id /\ lease'[u].permanent
    PROVE  PaidInv'
  <1>1. OrderBook(orders') /\ WalletsAgree'
    BY DEF PaidInv, WalletsAgree
  <1>2. ASSUME NEW u \in Owners PROVE LeasePaid(lease[u], u)'
    <2>1. LeasePaid(lease[u], u)
      BY DEF PaidInv, LeasesPaid
    <2> QED BY <2>1 DEF LeasePaid
  <1> QED BY <1>1, <1>2 DEF PaidInv, LeasesPaid

LEMMA PaidRestore ==
    ASSUME FancyInv, PaidInv, NEW u \in Owners, UNCHANGED <<orders, points>>,
           restoreExpiredLeaseInTransaction(u)
    PROVE  PaidInv'
  <1>1. lease' = [lease EXCEPT ![u] = NoName] /\ DOMAIN lease = Owners
    BY DEF restoreExpiredLeaseInTransaction, FancyInv, FancyType
  <1>2. \A x \in Owners : lease'[x] \in {lease[x], NoName}
    BY <1>1
  <1> QED BY <1>2, QuietPaid

LEMMA PaidGrant ==
    ASSUME FancyInv, PaidInv, NEW u \in Owners, grantMembership(u)
    PROVE  PaidInv'
  <1>1. UNCHANGED <<orders, points>> /\ convertActiveLeaseToPermanent(u)
        /\ lease \in [Owners -> Leases \cup {NoName}]
    BY DEF grantMembership, FancyInv, FancyType
  <1>2. CASE UNCHANGED lease
    BY <1>1, <1>2, QuietPaid
  <1>3. CASE restoreExpiredLeaseInTransaction(u)
    BY <1>1, <1>3, PaidRestore
  <1>4. CASE OpenLease(u) /\ lease' = [lease EXCEPT ![u].permanent = TRUE]
    <2>1. lease[u] \in Leases /\ lease[u] # NoName
      BY <1>1, <1>4 DEF OpenLease
    <2> DEFINE l == [lease[u] EXCEPT !.permanent = TRUE]
    <2>2. l.id = lease[u].id /\ l.permanent = TRUE
      BY <2>1 DEF Leases
    <2>3. lease' = [lease EXCEPT ![u] = l]
      BY <1>4
    <2> HIDE DEF l
    <2>4. lease'[u] = l /\ \A x \in Owners \ {u} : lease'[x] = lease[x]
      BY <1>1, <2>3
    <2> QED BY <1>1, <2>1, <2>2, <2>4, QuietPaid
  <1> QED BY <1>1, <1>2, <1>3, <1>4 DEF convertActiveLeaseToPermanent

\* The request of a worker at its transaction.
LEMMA AtWrite ==
    ASSUME FancyInv, NEW w \in FancyWorkers, request[w].kind \in {"purchase", "switch", "renew"}
    PROVE  /\ request[w] \in Requests /\ request[w].user \in Owners
           /\ request[w].months \in Nat /\ request[w].now \in Nat
           /\ request[w].key \in OrderKeys
  <1>1. request[w] \in Requests
    BY DEF FancyInv, FancyType, NoRequest
  <1> QED BY <1>1 DEF Requests

\* A number that is bought: its lease is the order's own.
LEMMA PaidPurchase ==
    ASSUME FancyInv, PaidInv, NEW w \in FancyWorkers, purchaseTarget(w)
    PROVE  PaidInv'
  <1>0. PICK j, u, m, k : /\ j = request[w] /\ u = j.user /\ k = j.key
                          /\ m = IF u \in super THEN 0 ELSE j.months
    OBVIOUS
  <1> DEFINE l == [number |-> j.target, restore |-> account[u], id |-> k,
                   from |-> j.now, until |-> j.now + m, permanent |-> u \in super]
  <1>1. /\ j.kind = "purchase" /\ lease' = [lease EXCEPT ![u] = l]
        /\ Ordered(j, m, m * Unit, k)
    BY <1>0 DEF purchaseTarget
  <1>2. /\ j \in Requests /\ u \in Owners /\ j.months \in Nat /\ j.now \in Nat /\ m \in Nat
    BY <1>0, <1>1, AtWrite
  <1>3. PICK c \in Nat : Ordered(j, m, c, k)
    <2>1. m * Unit \in Nat
      BY <1>2, FancyAssumption
    <2> QED BY <1>1, <2>1
  <1>4. l.id = k /\ l.from = j.now /\ l.until = j.now + m
    OBVIOUS
  <1> HIDE DEF l
  <1>5. /\ lease'[u] = l /\ \A x \in Owners \ {u} : lease'[x] = lease[x]
    BY <1>1, <1>2 DEF FancyInv, FancyType
  <1>6. /\ OrderBook(orders') /\ DOMAIN orders' = DOMAIN orders \cup {k}
        /\ k \notin DOMAIN orders /\ k # NoName
        /\ WalletsAgree'
        /\ \A x \in Owners : \A i : /\ Bought(orders, x, i) \in Int
                                    /\ Bought(orders', x, i) = Bought(orders, x, i)
                                         + IF x = u /\ i = k THEN m ELSE 0
    <2>1. k \in DOMAIN orders \cup {j.key, NoName}
      BY <1>0
    <2>2. Booked(j, m, k)
      BY <1>2, <1>3, <2>1, OrderedPaid
    <2>3. u = j.user /\ k = j.key
      BY <1>0
    <2> QED BY <2>2, <2>3 DEF Booked
  <1>7. Bought(orders, u, k) = 0
    <2>1. Towards(orders, u, k) = {}
      BY <1>6 DEF Towards, Mine, PaidInv, OrderBook
    <2> QED BY <2>1, SumEmpty DEF Bought
  <1>8. LeasePaid(lease[u], u)'
    <2>1. Bought(orders', u, k) = m
      BY <1>2, <1>6, <1>7
    <2> QED BY <1>4, <1>5, <1>6, <2>1 DEF LeasePaid
  <1>9. ASSUME NEW x \in Owners, x # u PROVE LeasePaid(lease[x], x)'
    <2>1. LeasePaid(lease[x], x) /\ lease'[x] = lease[x]
      BY <1>5, <1>9 DEF PaidInv, LeasesPaid
    <2>2. Bought(orders', x, lease[x].id) = Bought(orders, x, lease[x].id)
      BY <1>6, <1>9
    <2> QED BY <1>6, <2>1, <2>2 DEF LeasePaid
  <1> QED BY <1>6, <1>8, <1>9 DEF PaidInv, LeasesPaid

LEMMA PaidSwitch ==
    ASSUME FancyInv, PaidInv, NEW w \in FancyWorkers, switchPermanentTarget(w)
    PROVE  PaidInv'
  <1>0. PICK j, u, id : j = request[w] /\ u = j.user /\ id = lease[u].id
    OBVIOUS
  <1> DEFINE l == [lease[u] EXCEPT !.number = j.target]
  <1>1. /\ j.kind = "switch" /\ lease' = [lease EXCEPT ![u] = l]
        /\ OpenLease(u) /\ lease[u].permanent /\ Ordered(j, 0, Unit, id)
    BY <1>0 DEF switchPermanentTarget
  <1>2. j \in Requests /\ u \in Owners /\ Unit \in Nat
    BY <1>0, <1>1, AtWrite, FancyAssumption
  <1>3. lease \in [Owners -> Leases \cup {NoName}] /\ lease[u] \in Leases
    BY <1>1, <1>2 DEF FancyInv, FancyType, OpenLease
  <1>4. l.id = id /\ l.permanent
    BY <1>0, <1>1, <1>3 DEF Leases
  <1> HIDE DEF l
  <1>5. lease'[u] = l /\ \A x \in Owners \ {u} : lease'[x] = lease[x]
    BY <1>1, <1>2, <1>3
  <1>6. id \in DOMAIN orders \cup {NoName}
    BY <1>0, <1>1, <1>2 DEF PaidInv, LeasesPaid, LeasePaid, OpenLease
  <1>7. /\ OrderBook(orders') /\ DOMAIN orders' = DOMAIN orders \cup {j.key}
        /\ WalletsAgree'
        /\ \A x \in Owners : \A i : /\ Bought(orders, x, i) \in Int
                                    /\ Bought(orders', x, i) = Bought(orders, x, i)
                                         + IF x = u /\ i = id THEN 0 ELSE 0
    <2>1. id \in DOMAIN orders \cup {j.key, NoName}
      BY <1>6
    <2>2. 0 \in Nat /\ Booked(j, 0, id)
      BY <1>1, <1>2, <2>1, OrderedPaid
    <2> QED BY <1>0, <2>2 DEF Booked
  <1>8. ASSUME NEW x \in Owners PROVE LeasePaid(lease[x], x)'
    <2>1. CASE x = u
      BY <1>4, <1>5, <1>6, <1>7, <2>1 DEF LeasePaid
    <2>2. CASE x # u
      <3>1. LeasePaid(lease[x], x) /\ lease'[x] = lease[x]
        BY <1>5, <2>2 DEF PaidInv, LeasesPaid
      <3>2. Bought(orders', x, lease[x].id) = Bought(orders, x, lease[x].id)
        BY <1>7
      <3> QED BY <1>7, <3>1, <3>2 DEF LeasePaid
    <2> QED BY <2>1, <2>2
  <1> QED BY <1>7, <1>8 DEF PaidInv, LeasesPaid

LEMMA PaidRenew ==
    ASSUME FancyInv, PaidInv, NEW w \in FancyWorkers, renewLease(w)
    PROVE  PaidInv'
  <1>0. PICK j, u, id : j = request[w] /\ u = j.user /\ id = lease[u].id
    OBVIOUS
  <1> DEFINE l == [lease[u] EXCEPT !.until = @ + j.months]
  <1>1. /\ j.kind = "renew" /\ lease' = [lease EXCEPT ![u] = l]
        /\ OpenLease(u) /\ ~lease[u].permanent /\ Ordered(j, j.months, j.months * Unit, id)
    BY <1>0 DEF renewLease
  <1>2. j \in Requests /\ u \in Owners /\ j.months \in Nat
    BY <1>0, <1>1, AtWrite
  <1>3. j.months * Unit \in Nat
    BY <1>2, FancyAssumption
  <1>4. lease \in [Owners -> Leases \cup {NoName}] /\ lease[u] \in Leases
    BY <1>1, <1>2 DEF FancyInv, FancyType, OpenLease
  <1>5. /\ l.id = id /\ l.from = lease[u].from /\ l.until = lease[u].until + j.months
        /\ lease[u].from \in Nat /\ lease[u].until \in Nat
    BY <1>0, <1>4 DEF Leases
  <1> HIDE DEF l
  <1>6. lease'[u] = l /\ \A x \in Owners \ {u} : lease'[x] = lease[x]
    BY <1>1, <1>2, <1>4
  <1>7. /\ id \in DOMAIN orders \cup {NoName}
        /\ lease[u].until = lease[u].from + Bought(orders, u, id)
    BY <1>0, <1>1, <1>2 DEF PaidInv, LeasesPaid, LeasePaid, OpenLease
  <1>8. /\ OrderBook(orders') /\ DOMAIN orders' = DOMAIN orders \cup {j.key}
        /\ WalletsAgree'
        /\ \A x \in Owners : \A i : /\ Bought(orders, x, i) \in Int
                                    /\ Bought(orders', x, i) = Bought(orders, x, i)
                                         + IF x = u /\ i = id THEN j.months ELSE 0
    <2>1. id \in DOMAIN orders \cup {j.key, NoName}
      BY <1>7
    <2>2. Booked(j, j.months, id)
      BY <1>1, <1>2, <1>3, <2>1, OrderedPaid
    <2> QED BY <1>0, <2>2 DEF Booked
  <1>9. ASSUME NEW x \in Owners PROVE LeasePaid(lease[x], x)'
    <2>1. CASE x = u
      <3>1. Bought(orders', u, id) = Bought(orders, u, id) + j.months
            /\ Bought(orders, u, id) \in Int
        BY <1>2, <1>8
      <3>2. l.until = l.from + Bought(orders', u, id)
        BY <1>2, <1>5, <1>7, <3>1
      <3> QED BY <1>5, <1>6, <1>7, <1>8, <2>1, <3>2 DEF LeasePaid
    <2>2. CASE x # u
      <3>1. LeasePaid(lease[x], x) /\ lease'[x] = lease[x]
        BY <1>6, <2>2 DEF PaidInv, LeasesPaid
      <3>2. Bought(orders', x, lease[x].id) = Bought(orders, x, lease[x].id)
        BY <1>8, <2>2
      <3> QED BY <1>8, <3>1, <3>2 DEF LeasePaid
    <2> QED BY <2>1, <2>2
  <1> QED BY <1>8, <1>9 DEF PaidInv, LeasesPaid

LEMMA PaidStep ==
    ASSUME FancyInv, PaidInv, [FancyNext]_fancyVars PROVE PaidInv'
  <1>1. ASSUME UNCHANGED <<lease, orders, points>> PROVE PaidInv'
    BY <1>1, QuietPaid
  <1>2. ASSUME NEW w \in FancyWorkers, expireOverdueLeaseForUser(w) PROVE PaidInv'
    <2>1. PICK u : u = request[w].user
      OBVIOUS
    <2>2. UNCHANGED <<orders, points>> /\ DOMAIN lease = Owners
      BY <1>2 DEF expireOverdueLeaseForUser, FancyInv, FancyType
    <2>3. lease' = lease \/ lease' = [lease EXCEPT ![u] = NoName]
      BY <1>2, <2>1 DEF expireOverdueLeaseForUser, restoreExpiredLeaseInTransaction
    <2>4. \A x \in Owners : lease'[x] \in {lease[x], NoName}
      BY <2>2, <2>3
    <2> QED BY <2>2, <2>4, QuietPaid
  <1>3. CASE \E w \in FancyWorkers :
                purchaseTarget(w) \/ renewLease(w) \/ switchPermanentTarget(w)
    BY <1>3, PaidPurchase, PaidSwitch, PaidRenew
  <1>4. ASSUME NEW u \in Owners, expireLease(u) PROVE PaidInv'
    BY <1>4, PaidRestore DEF expireLease
  <1>5. CASE \E u \in Owners : grantMembership(u)
    BY <1>5, PaidGrant
  <1>6. CASE \E u \in Owners : \/ \E v \in Names : changeAccountId(u, v)
                               \/ \E v, code \in Names : register(u, v, code)
    BY <1>1, <1>6 DEF changeAccountId, register
  <1>7. CASE \E v \in Names : adminBatchCreate(v) \/ \E enabled \in BOOLEAN : adminSetAvailability(v, enabled)
    BY <1>1, <1>7 DEF adminBatchCreate, adminSetAvailability
  <1>8. CASE Tick \/ UNCHANGED fancyVars \/ \E w \in FancyWorkers : RequestEnds(w) \/ Starts(w)
    BY <1>1, <1>8 DEF Tick, fancyVars, RequestEnds, Starts, switchPermanent, purchase, renew
  <1> QED BY <1>2, <1>3, <1>4, <1>5, <1>6, <1>7, <1>8 DEF FancyNext, Starts

LEMMA PaidStart == ASSUME FancyInit PROVE PaidInv
  <1>1. DOMAIN orders = {} /\ points = [u \in Owners |-> OpeningPoints]
    BY DEF FancyInit
  <1>2. OrderBook(orders)
    BY <1>1, FS_EmptySet DEF OrderBook
  <1>3. WalletsAgree
    <2>1. ASSUME NEW u \in Owners PROVE Spent(orders, u) = 0
      <3>1. Mine(orders, u) = {}
        BY <1>1 DEF Mine
      <3> QED BY <3>1, SumEmpty DEF Spent
    <2> QED BY <1>1, <2>1, FancyAssumption DEF WalletsAgree
  <1>4. LeasesPaid
    <2>1. ASSUME NEW u \in Owners, lease[u] # NoName
          PROVE  lease[u].id = NoName /\ lease[u].permanent
      <3>1. lease[u] = [number |-> FirstName[u], restore |-> NoName, id |-> NoName,
                        from |-> 0, until |-> 0, permanent |-> TRUE]
        BY <2>1 DEF FancyInit
      <3> QED BY <3>1
    <2> QED BY <2>1 DEF LeasesPaid, LeasePaid
  <1> QED BY <1>2, <1>3, <1>4 DEF PaidInv

(* The books of the market agree: users, registry, stock and leases tell the *)
(* same, every point is in the wallet or in an order, and a lease lasts as   *)
(* long as its orders paid for - whatever order purchases, renewals, expiry, *)
(* memberships, renamings and the administration come in.                    *)
THEOREM MarketHolds == FancySpec => []MarketAgrees
  <1>1. FancyInit => PaidInv
    BY PaidStart
  <1>2. FancyInv /\ PaidInv /\ [FancyNext]_fancyVars => PaidInv'
    BY PaidStep
  <1>3. FancyInv /\ PaidInv => MarketAgrees
    <2> SUFFICES ASSUME FancyInv, PaidInv PROVE PaidFor
      BY DEF MarketAgrees, FancyInv
    <2>1. ASSUME NEW u \in Owners
          PROVE  /\ points[u] + SumFunctionOnSet([k \in DOMAIN orders |-> orders[k].cost],
                                                 {k \in DOMAIN orders : orders[k].user = u})
                       = OpeningPoints
                 /\ OpenLease(u) /\ ~lease[u].permanent =>
                       lease[u].until = lease[u].from
                         + SumFunctionOnSet([k \in DOMAIN orders |-> orders[k].months],
                             {k \in {x \in DOMAIN orders : orders[x].user = u} :
                                 orders[k].lease = lease[u].id})
      <3>1. points[u] + Spent(orders, u) = OpeningPoints /\ LeasePaid(lease[u], u)
        BY DEF PaidInv, WalletsAgree, LeasesPaid
      <3> QED BY <3>1 DEF Spent, Cost, Mine, LeasePaid, Bought, Time, Towards, OpenLease
    <2> QED BY <2>1 DEF PaidFor
  <1> QED BY <1>1, <1>2, <1>3, FancyInvariant, PTL DEF FancySpec
=============================================================================
