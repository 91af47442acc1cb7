--------------------------------- MODULE Sums ---------------------------------
(* What SumFunctionOnSet of the community modules computes, for the sums    *)
(* over ledger rows and orders: nothing for the empty set, one term more    *)
(* for one element more, in whatever order CHOOSE takes the elements.       *)
(*                                                                          *)
(* The definition is recursive over the subsets of the set, so each fact is *)
(* proved by induction; the induction is the least number principle, taken  *)
(* from the well-foundedness of the naturals with a set in place of a       *)
(* predicate.                                                               *)
EXTENDS Integers, FiniteSetsExt, FiniteSetTheorems, WellFoundedInduction, TLAPS

-----------------------------------------------------------------------------
(* Induction.                                                               *)

LEMMA LeastNatural ==
    ASSUME NEW T \in SUBSET Nat, T # {}
    PROVE  \E n \in T : \A m \in T : n <= m
  <1> DEFINE Less == {p \in Nat \X Nat : p[1] < p[2]}
  <1>1. Less = OpToRel(<, Nat)
    BY Zenon DEF OpToRel
  <1> HIDE DEF Less
  <1>2. PICK n \in T : \A m \in T : ~ (<<m, n>> \in Less)
    BY <1>1, WFMin, NatLessThanWellFounded
  <1>3. ASSUME NEW m \in T PROVE n <= m
    <2>1. m \in Nat /\ n \in Nat /\ <<m, n>> \notin Less
      BY <1>2
    <2>2. ~(m < n)
      BY <2>1 DEF Less
    <2> QED BY <2>1, <2>2
  <1> QED BY <1>3

\* A set of finite subsets that is reached from the smaller ones is all of them.
LEMMA SubsetInduction ==
    ASSUME NEW S, IsFiniteSet(S), NEW T,
           \A s \in SUBSET S : (\A x \in s : s \ {x} \in T) => s \in T
    PROVE  \A s \in SUBSET S : s \in T
  <1> DEFINE Sizes == {Cardinality(s) : s \in {t \in SUBSET S : t \notin T}}
  <1>1. \A s \in SUBSET S : IsFiniteSet(s) /\ Cardinality(s) \in Nat
    BY FS_Subset, FS_CardinalityType
  <1>2. SUFFICES ASSUME Sizes # {} PROVE FALSE
    OBVIOUS
  <1>3. Sizes \in SUBSET Nat
    BY <1>1
  <1>4. PICK n \in Sizes : \A m \in Sizes : n <= m
    BY <1>2, <1>3, LeastNatural
  <1>5. PICK s \in SUBSET S : s \notin T /\ Cardinality(s) = n
    OBVIOUS
  <1>6. ASSUME NEW x \in s PROVE s \ {x} \in T
    <2>1. Cardinality(s \ {x}) = n - 1
      BY <1>1, <1>5, FS_RemoveElement
    <2>2. s \ {x} \in SUBSET S
      OBVIOUS
    <2>3. ~(n <= n - 1)
      BY <1>3
    <2> QED BY <1>4, <2>1, <2>2, <2>3
  <1> QED BY <1>5, <1>6

LEMMA NatSetInduction ==
    ASSUME NEW T, 0 \in T, \A n \in Nat : n \in T => n + 1 \in T
    PROVE  \A n \in Nat : n \in T
  <1> DEFINE Out == Nat \ T
  <1>1. SUFFICES ASSUME Out # {} PROVE FALSE
    OBVIOUS
  <1>2. PICK n \in Out : \A m \in Out : n <= m
    BY <1>1, LeastNatural
  <1>3. n - 1 \in Nat /\ ~(n <= n - 1)
    BY <1>2
  <1>4. n - 1 \in T
    BY <1>2, <1>3
  <1>5. n - 1 + 1 = n
    BY <1>2
  <1> QED BY <1>2, <1>3, <1>4, <1>5

-----------------------------------------------------------------------------
(* The recursive function.                                                  *)

Pick(s) == CHOOSE x \in s : TRUE

Recursion(h, fun, D) ==
    h = [s \in D |-> IF s = {} THEN 0 ELSE fun[Pick(s)] + h[s \ {Pick(s)}]]

LEMMA Picked == ASSUME NEW s, s # {} PROVE Pick(s) \in s
  BY DEF Pick

LEMMA RecursionExists ==
    ASSUME NEW S, IsFiniteSet(S), NEW fun
    PROVE  \E h : Recursion(h, fun, SUBSET S)
  <1> DEFINE Upto(n) == {s \in SUBSET S : Cardinality(s) <= n}
             T == {n \in Nat : \E h : Recursion(h, fun, Upto(n))}
  <1>1. \A s \in SUBSET S : /\ IsFiniteSet(s) /\ Cardinality(s) \in Nat
                            /\ Cardinality(s) <= Cardinality(S)
                            /\ Cardinality(s) = 0 => s = {}
                            /\ \A x \in s : Cardinality(s \ {x}) = Cardinality(s) - 1
    BY FS_Subset, FS_CardinalityType, FS_EmptySet, FS_RemoveElement
  <1>2. 0 \in T
    <2> DEFINE h == [s \in Upto(0) |-> 0]
    <2>1. \A s \in Upto(0) : s = {}
      BY <1>1
    <2>2. Recursion(h, fun, Upto(0))
      BY <2>1 DEF Recursion
    <2> QED BY <2>2
  <1>3. ASSUME NEW n \in Nat, n \in T PROVE n + 1 \in T
    <2>1. PICK h : Recursion(h, fun, Upto(n))
      BY <1>3
    <2> DEFINE g == [s \in Upto(n + 1) |->
                       IF s = {} THEN 0 ELSE fun[Pick(s)] + h[s \ {Pick(s)}]]
    <2>2. \A s \in Upto(n) : s \in Upto(n + 1) /\ g[s] = h[s]
      <3> TAKE s \in Upto(n)
      <3>1. s \in Upto(n + 1)
        BY <1>1
      <3>2. h[s] = IF s = {} THEN 0 ELSE fun[Pick(s)] + h[s \ {Pick(s)}]
        BY <2>1 DEF Recursion
      <3> QED BY <3>1, <3>2
    <2>3. \A s \in Upto(n + 1) : s # {} => s \ {Pick(s)} \in Upto(n)
      <3> SUFFICES ASSUME NEW s \in Upto(n + 1), s # {} PROVE s \ {Pick(s)} \in Upto(n)
        OBVIOUS
      <3>1. Cardinality(s \ {Pick(s)}) = Cardinality(s) - 1 /\ Cardinality(s) \in Nat
        BY <1>1, Picked
      <3> QED BY <3>1
    <2>4. \A s \in Upto(n + 1) :
            g[s] = IF s = {} THEN 0 ELSE fun[Pick(s)] + g[s \ {Pick(s)}]
      BY <2>2, <2>3
    <2>5. Recursion(g, fun, Upto(n + 1))
      <3> DEFINE f == [s \in Upto(n + 1) |->
                         IF s = {} THEN 0 ELSE fun[Pick(s)] + g[s \ {Pick(s)}]]
      <3>1. \A s \in Upto(n + 1) : f[s] = g[s]
        BY <2>4
      <3>2. DOMAIN f = Upto(n + 1) /\ DOMAIN g = Upto(n + 1)
        OBVIOUS
      <3>3. f = [s \in Upto(n + 1) |-> f[s]] /\ g = [s \in Upto(n + 1) |-> g[s]]
        OBVIOUS
      <3> HIDE DEF g
      <3>4. g = f
        BY <3>1, <3>3
      <3> QED BY <3>4 DEF Recursion
    <2> HIDE DEF g
    <2>6. n + 1 \in Nat
      OBVIOUS
    <2> QED BY <2>5, <2>6
  <1> HIDE DEF T
  <1>4. Cardinality(S) \in T
    BY <1>1, <1>2, <1>3, NatSetInduction
  <1>5. Upto(Cardinality(S)) = SUBSET S
    BY <1>1
  <1> QED BY <1>4, <1>5 DEF T

\* The sum is given by the recursion over its subsets.
LEMMA SumRecursion ==
    ASSUME NEW S, IsFiniteSet(S), NEW fun
    PROVE  \E h : Recursion(h, fun, SUBSET S) /\ SumFunctionOnSet(fun, S) = h[S]
  <1> DEFINE iter == CHOOSE h : Recursion(h, fun, SUBSET S)
  <1>1. Recursion(iter, fun, SUBSET S)
    BY RecursionExists
  <1>2. SumFunctionOnSet(fun, S) = iter[S]
    BY DEF SumFunctionOnSet, FoldFunctionOnSet, MapThenFoldSet, Recursion, Pick
  <1> QED BY <1>1, <1>2

\* Two recursions with the same terms in S.
Agree(S, fun, gun, A, B, g, h) ==
    /\ IsFiniteSet(S) /\ \A x \in S : fun[x] = gun[x]
    /\ S \subseteq A /\ S \subseteq B
    /\ Recursion(g, fun, SUBSET A) /\ Recursion(h, gun, SUBSET B)

LEMMA RecursionUnique ==
    ASSUME NEW S, NEW fun, NEW gun, NEW A, NEW B, NEW g, NEW h,
           Agree(S, fun, gun, A, B, g, h)
    PROVE  g[S] = h[S]
  <1> USE DEF Agree
  <1> DEFINE T == {s \in SUBSET S : g[s] = h[s]}
  <1>1. ASSUME NEW s \in SUBSET S, \A x \in s : s \ {x} \in T PROVE s \in T
    <2>1. /\ g[s] = IF s = {} THEN 0 ELSE fun[Pick(s)] + g[s \ {Pick(s)}]
          /\ h[s] = IF s = {} THEN 0 ELSE gun[Pick(s)] + h[s \ {Pick(s)}]
      <3>1. s \in SUBSET A /\ s \in SUBSET B
        OBVIOUS
      <3> QED BY <3>1 DEF Recursion
    <2>2. s # {} => Pick(s) \in s /\ g[s \ {Pick(s)}] = h[s \ {Pick(s)}]
      BY <1>1, Picked
    <2>3. s # {} => fun[Pick(s)] = gun[Pick(s)]
      BY <2>2
    <2> QED BY <2>1, <2>2, <2>3
  <1> HIDE DEF T
  <1>2. \A s \in SUBSET S : s \in T
    BY <1>1, SubsetInduction
  <1> QED BY <1>2 DEF T

LEMMA RecursionInt ==
    ASSUME NEW S, IsFiniteSet(S), NEW fun, \A x \in S : fun[x] \in Int,
           NEW h, Recursion(h, fun, SUBSET S)
    PROVE  \A s \in SUBSET S : h[s] \in Int
  <1> DEFINE T == {s \in SUBSET S : h[s] \in Int}
  <1>1. ASSUME NEW s \in SUBSET S, \A x \in s : s \ {x} \in T PROVE s \in T
    <2>1. h[s] = IF s = {} THEN 0 ELSE fun[Pick(s)] + h[s \ {Pick(s)}]
      BY DEF Recursion
    <2>2. s # {} => Pick(s) \in s /\ h[s \ {Pick(s)}] \in Int
      BY <1>1, Picked
    <2>3. h[s] \in Int
      BY <2>1, <2>2
    <2> QED BY <2>3
  <1> HIDE DEF T
  <1>2. \A s \in SUBSET S : s \in T
    BY <1>1, SubsetInduction
  <1> QED BY <1>2 DEF T

\* Any element may be taken first.
SumsInts(h, fun, S) ==
    IsFiniteSet(S) /\ (\A x \in S : fun[x] \in Int) /\ Recursion(h, fun, SUBSET S)

LEMMA AnyFirst ==
    ASSUME NEW S, NEW fun, NEW h, SumsInts(h, fun, S), NEW e \in S
    PROVE  h[S] = fun[e] + h[S \ {e}]
  <1> USE DEF SumsInts
  <1> DEFINE T == {s \in SUBSET S : \A x \in s : h[s] = fun[x] + h[s \ {x}]}
  <1>0. \A s \in SUBSET S : h[s] \in Int
    BY RecursionInt
  <1>1. ASSUME NEW s \in SUBSET S, \A x \in s : s \ {x} \in T PROVE s \in T
    <2> SUFFICES ASSUME NEW x \in s PROVE h[s] = fun[x] + h[s \ {x}]
      OBVIOUS
    <2> DEFINE c == Pick(s)
    <2>1. c \in s
      BY Picked
    <2>2. h[s] = fun[c] + h[s \ {c}]
      BY DEF Recursion
    <2> HIDE DEF c
    <2>3. CASE x = c
      BY <2>2, <2>3
    <2>4. CASE x # c
      <3> DEFINE r == (s \ {c}) \ {x}
      <3>1. h[s \ {c}] = fun[x] + h[r]
        BY <1>1, <2>1, <2>4
      <3>2. r = (s \ {x}) \ {c}
        OBVIOUS
      <3>3. h[s \ {x}] = fun[c] + h[r]
        BY <1>1, <2>1, <2>4, <3>2
      <3>4. h[r] \in Int /\ fun[c] \in Int /\ fun[x] \in Int
        BY <1>0, <2>1
      <3> HIDE DEF r
      <3> QED BY <2>2, <3>1, <3>3, <3>4
    <2> QED BY <2>3, <2>4
  <1> HIDE DEF T
  <1>2. \A s \in SUBSET S : s \in T
    BY <1>1, SubsetInduction
  <1>3. S \in T
    BY <1>2
  <1> QED BY <1>3 DEF T

-----------------------------------------------------------------------------
(* What the sums are.                                                       *)

LEMMA SumEmpty == ASSUME NEW fun PROVE SumFunctionOnSet(fun, {}) = 0
  <1>1. PICK h : Recursion(h, fun, SUBSET {}) /\ SumFunctionOnSet(fun, {}) = h[{}]
    BY SumRecursion, FS_EmptySet
  <1> QED BY <1>1 DEF Recursion

LEMMA SumInt ==
    ASSUME NEW S, IsFiniteSet(S), NEW fun, \A x \in S : fun[x] \in Int
    PROVE  SumFunctionOnSet(fun, S) \in Int
  <1>1. PICK h : Recursion(h, fun, SUBSET S) /\ SumFunctionOnSet(fun, S) = h[S]
    BY SumRecursion
  <1>2. \A s \in SUBSET S : h[s] \in Int
    BY <1>1, RecursionInt
  <1> QED BY <1>1, <1>2

\* Only the terms count.
LEMMA SumSame ==
    ASSUME NEW S, IsFiniteSet(S), NEW fun, NEW gun, \A x \in S : fun[x] = gun[x]
    PROVE  SumFunctionOnSet(fun, S) = SumFunctionOnSet(gun, S)
  <1>1. PICK g : Recursion(g, fun, SUBSET S) /\ SumFunctionOnSet(fun, S) = g[S]
    BY SumRecursion
  <1>2. PICK h : Recursion(h, gun, SUBSET S) /\ SumFunctionOnSet(gun, S) = h[S]
    BY SumRecursion
  <1>3. Agree(S, fun, gun, S, S, g, h)
    BY <1>1, <1>2 DEF Agree
  <1>4. g[S] = h[S]
    BY <1>3, RecursionUnique
  <1> QED BY <1>1, <1>2, <1>4

\* One element more.
LEMMA SumAdd ==
    ASSUME NEW S, IsFiniteSet(S), NEW x, x \notin S, NEW fun,
           \A y \in S \cup {x} : fun[y] \in Int
    PROVE  SumFunctionOnSet(fun, S \cup {x}) = SumFunctionOnSet(fun, S) + fun[x]
  <1> DEFINE A == S \cup {x}
  <1>1. IsFiniteSet(A)
    BY FS_AddElement
  <1>2. PICK g : Recursion(g, fun, SUBSET A) /\ SumFunctionOnSet(fun, A) = g[A]
    BY <1>1, SumRecursion
  <1>3. PICK h : Recursion(h, fun, SUBSET S) /\ SumFunctionOnSet(fun, S) = h[S]
    BY SumRecursion
  <1>4. A \ {x} = S /\ x \in A /\ S \in SUBSET A
    OBVIOUS
  <1>5. \A y \in A : fun[y] \in Int
    OBVIOUS
  <1> HIDE DEF A
  <1>6. g[A] = fun[x] + g[S]
    <2>1. SumsInts(g, fun, A)
      BY <1>1, <1>2, <1>5 DEF SumsInts
    <2>2. g[A] = fun[x] + g[A \ {x}]
      BY <1>4, <2>1, AnyFirst
    <2> QED BY <1>4, <2>2
  <1>7. g[S] = h[S]
    <2>1. Agree(S, fun, fun, A, S, g, h)
      BY <1>2, <1>3, <1>4 DEF Agree
    <2> QED BY <2>1, RecursionUnique
  <1>8. g[S] \in Int /\ fun[x] \in Int
    <2>1. \A s \in SUBSET A : g[s] \in Int
      BY <1>1, <1>2, <1>5, RecursionInt
    <2>2. x \in A
      BY <1>4
    <2> QED BY <1>4, <1>5, <2>1, <2>2
  <1>9. SumFunctionOnSet(fun, A) = SumFunctionOnSet(fun, S) + fun[x]
    BY <1>2, <1>3, <1>6, <1>7, <1>8
  <1> QED BY <1>9 DEF A

\* Fewer terms, none of them negative, are not more.
LEMMA SumFewer ==
    ASSUME NEW S, IsFiniteSet(S), NEW fun, \A x \in S : fun[x] \in Nat, NEW R \in SUBSET S
    PROVE  /\ SumFunctionOnSet(fun, R) \in Nat
           /\ SumFunctionOnSet(fun, R) <= SumFunctionOnSet(fun, S)
  <1> DEFINE T == {s \in SUBSET S : \A r \in SUBSET s :
                     /\ SumFunctionOnSet(fun, r) \in Nat /\ SumFunctionOnSet(fun, s) \in Nat
                     /\ SumFunctionOnSet(fun, r) <= SumFunctionOnSet(fun, s)}
  <1>0. \A s \in SUBSET S : IsFiniteSet(s)
    BY FS_Subset
  <1>1. ASSUME NEW s \in SUBSET S, \A x \in s : s \ {x} \in T PROVE s \in T
    <2> SUFFICES ASSUME NEW r \in SUBSET s
                 PROVE  /\ SumFunctionOnSet(fun, r) \in Nat /\ SumFunctionOnSet(fun, s) \in Nat
                        /\ SumFunctionOnSet(fun, r) <= SumFunctionOnSet(fun, s)
      OBVIOUS
    <2>1. \A x \in s : /\ IsFiniteSet(s \ {x}) /\ s = (s \ {x}) \cup {x} /\ x \notin s \ {x}
                       /\ \A y \in (s \ {x}) \cup {x} : fun[y] \in Int
      BY <1>0
    <2>2. \A x \in s :
            SumFunctionOnSet(fun, s) = SumFunctionOnSet(fun, s \ {x}) + fun[x]
      <3> TAKE x \in s
      <3>1. SumFunctionOnSet(fun, (s \ {x}) \cup {x})
              = SumFunctionOnSet(fun, s \ {x}) + fun[x]
        BY <2>1, SumAdd
      <3> QED BY <2>1, <3>1
    <2>3. CASE r = s /\ s = {}
      BY <2>3, SumEmpty
    <2>4. CASE s # {}
      <3>1. PICK x \in s : r = s \/ x \notin r
        BY <2>4
      <3>2. s \ {x} \in T /\ fun[x] \in Nat
        BY <1>1
      <3>3. SumFunctionOnSet(fun, s \ {x}) \in Nat
        BY <3>2
      <3>4. SumFunctionOnSet(fun, s) = SumFunctionOnSet(fun, s \ {x}) + fun[x]
        BY <2>2
      <3>5. SumFunctionOnSet(fun, s) \in Nat
            /\ SumFunctionOnSet(fun, s \ {x}) <= SumFunctionOnSet(fun, s)
        BY <3>2, <3>3, <3>4
      <3>6. CASE r = s
        BY <3>5, <3>6
      <3>7. CASE x \notin r
        <4>1. r \in SUBSET (s \ {x})
          BY <3>7
        <4>2. /\ SumFunctionOnSet(fun, r) \in Nat
              /\ SumFunctionOnSet(fun, r) <= SumFunctionOnSet(fun, s \ {x})
          BY <3>2, <4>1
        <4> QED BY <3>3, <3>5, <4>2
      <3> QED BY <3>1, <3>6, <3>7
    <2> QED BY <2>3, <2>4
  <1> HIDE DEF T
  <1>2. \A s \in SUBSET S : s \in T
    BY <1>1, SubsetInduction
  <1> QED BY <1>2 DEF T

\* One term more, whatever becomes of the function elsewhere.
LEMMA SumGrows ==
    ASSUME NEW S, IsFiniteSet(S), NEW x, x \notin S, NEW fun, NEW gun, gun[x] \in Int,
           \A y \in S : gun[y] = fun[y] /\ fun[y] \in Int
    PROVE  /\ SumFunctionOnSet(gun, S) = SumFunctionOnSet(fun, S)
           /\ SumFunctionOnSet(gun, S \cup {x}) = SumFunctionOnSet(fun, S) + gun[x]
           /\ SumFunctionOnSet(fun, S) \in Int
  <1>1. SumFunctionOnSet(gun, S) = SumFunctionOnSet(fun, S)
    BY SumSame
  <1>2. SumFunctionOnSet(gun, S \cup {x}) = SumFunctionOnSet(gun, S) + gun[x]
    BY SumAdd
  <1>3. SumFunctionOnSet(fun, S) \in Int
    BY SumInt
  <1> QED BY <1>1, <1>2, <1>3
=============================================================================
