-------------------------- MODULE HopPages_proofs --------------------------
(***************************************************************************)
(* The numbers the pages show agree with each other in every reachable state. *)
(* Each number is a count, a sum or a fold over rows of its own, so the first *)
(* part proves, for any finite set, what a fold with + computes: that it does *)
(* not depend on the order, takes one element at a time, and counts what is *)
(* counted group by group.  The rest shows that the two queries behind each *)
(* pair of numbers count the same rows.                                    *)
(***************************************************************************)
EXTENDS HopPages, HopLifecycle_proofs

(***************************************************************************)
(* SUMS OVER FINITE SETS.                                                  *)
(***************************************************************************)

(* A set of finite sets that is not empty has a least member. *)
LEMMA LeastSet ==
  ASSUME NEW S, IsFiniteSet(S), NEW T \in SUBSET (SUBSET S), T # {}
  PROVE  \E x \in T : \A y \in T : y \subseteq x => y = x
<1>1. IsWellFoundedOn(StrictSubsetOrdering(S), FiniteSubsetsOf(S))
  BY FS_StrictSubsetOrderingWellFounded
<1>2. T \subseteq FiniteSubsetsOf(S)
  BY FS_Subset DEF FiniteSubsetsOf
<1>3. \E x \in T : \A y \in T : ~(<<y, x>> \in StrictSubsetOrdering(S))
  BY <1>1, <1>2, WFMin
<1> QED
  BY <1>3 DEF StrictSubsetOrdering

(* Induction over a finite set, for a property given as the set of the      *)
(* subsets that have it.                                                   *)
LEMMA SetInduction ==
  ASSUME NEW S, IsFiniteSet(S), NEW T, {} \in T,
         \A x \in SUBSET S : x # {} /\ (\A y \in SUBSET x : y # x => y \in T) => x \in T
  PROVE  S \in T
<1> SUFFICES ASSUME S \notin T PROVE FALSE
  OBVIOUS
<1>1. PICK B : B = {x \in SUBSET S : x \notin T}
  OBVIOUS
<1>2. B \in SUBSET (SUBSET S) /\ B # {}
  BY <1>1
<1>3. PICK x \in B : \A y \in B : y \subseteq x => y = x
  BY ONLY IsFiniteSet(S), <1>2, LeastSet
<1>4. x \in SUBSET S /\ x # {} /\ x \notin T
  BY <1>1, <1>3
<1>5. \A y \in SUBSET x : y # x => y \in T
  BY <1>1, <1>3, <1>4
<1> QED
  BY <1>4, <1>5

Any(s) == CHOOSE x \in s : TRUE

LEMMA AnyIsIn == \A s : s # {} => Any(s) \in s
  BY DEF Any

(* What MapThenFoldSet chooses: the sums of f over the subsets of S. *)
Sums(f, S, g) ==
  g = [s \in SUBSET S |-> IF s = {} THEN 0 ELSE f[Any(s)] + g[s \ {Any(s)}]]

LEMMA SumsAreUnique ==
  ASSUME NEW f, NEW S, IsFiniteSet(S), NEW g, NEW h, Sums(f, S, g), Sums(f, S, h)
  PROVE  g = h
<1>1. ASSUME NEW s \in SUBSET S
      PROVE  g[s] = h[s]
  <2>1. PICK T : T = {x \in SUBSET S : g[x] = h[x]}
    OBVIOUS
  <2>2. {} \in T
    BY <2>1 DEF Sums
  <2>3. ASSUME NEW x \in SUBSET s, x # {}, \A y \in SUBSET x : y # x => y \in T
        PROVE  x \in T
    <3>1. Any(x) \in x
      BY <2>3, AnyIsIn
    <3>2. x \ {Any(x)} \in T
      BY <2>3, <3>1
    <3>3. x \in SUBSET S
      OBVIOUS
    <3>4. g[x] = f[Any(x)] + g[x \ {Any(x)}] /\ h[x] = f[Any(x)] + h[x \ {Any(x)}]
      BY <2>3, <3>3 DEF Sums
    <3> QED
      BY <2>1, <3>2, <3>3, <3>4
  <2>4. IsFiniteSet(s)
    BY FS_Subset
  <2>5. s \in T
    BY ONLY <2>2, <2>3, <2>4, SetInduction
  <2> QED
    BY <2>1, <2>5
<1> QED
  BY <1>1 DEF Sums

LEMMA SumsOfPart ==
  ASSUME NEW f, NEW S, NEW g, Sums(f, S, g), NEW P \in SUBSET S
  PROVE  Sums(f, P, [s \in SUBSET P |-> g[s]])
<1>1. PICK h : h = [s \in SUBSET P |-> g[s]]
  OBVIOUS
<1>2. ASSUME NEW s \in SUBSET P
      PROVE  h[s] = IF s = {} THEN 0 ELSE f[Any(s)] + h[s \ {Any(s)}]
  <2>1. s \in SUBSET S /\ s \ {Any(s)} \in SUBSET P
    OBVIOUS
  <2>2. h[s] = g[s] /\ h[s \ {Any(s)}] = g[s \ {Any(s)}]
    BY <1>1, <2>1
  <2> QED
    BY <2>1, <2>2 DEF Sums
<1>3. h = [s \in SUBSET P |-> IF s = {} THEN 0 ELSE f[Any(s)] + h[s \ {Any(s)}]]
  BY <1>1, <1>2
<1> QED
  BY <1>1, <1>3 DEF Sums

ChosenSum(f, s) == (CHOOSE g : Sums(f, s, g))[s]

LEMMA SumsExist ==
  ASSUME NEW f, NEW S, IsFiniteSet(S)
  PROVE  \E g : Sums(f, S, g)
<1>1. PICK T : T = {x \in SUBSET S : \E g : Sums(f, x, g)}
  OBVIOUS
<1>2. {} \in T
  <2>1. PICK g : g = [s \in SUBSET {} |-> 0]
    OBVIOUS
  <2>2. Sums(f, {}, g)
    BY <2>1 DEF Sums
  <2> QED
    BY <1>1, <2>2
<1>3. ASSUME NEW x \in SUBSET S, x # {}, \A y \in SUBSET x : y # x => y \in T
      PROVE  x \in T
  <2>1. PICK c : c = [s \in SUBSET x |-> ChosenSum(f, s)]
    OBVIOUS
  <2>2. ASSUME NEW y \in SUBSET x, y # x, y # {}
        PROVE  c[y] = f[Any(y)] + c[y \ {Any(y)}]
    <3>1. PICK z : z = y \ {Any(y)}
      OBVIOUS
    <3>2. z \in SUBSET x /\ z # x /\ z \in SUBSET y
      BY <2>2, <3>1, AnyIsIn
    <3>3. (\E g : Sums(f, y, g)) /\ (\E g : Sums(f, z, g))
      BY <1>1, <1>3, <2>2, <3>2
    <3>4. PICK g : g = (CHOOSE e : Sums(f, y, e)) /\ Sums(f, y, g)
      BY <3>3
    <3>5. PICK h : h = (CHOOSE e : Sums(f, z, e)) /\ Sums(f, z, h)
      BY <3>3
    <3>6. Sums(f, z, [s \in SUBSET z |-> g[s]])
      <4>1. z \in SUBSET y /\ Sums(f, y, g)
        BY <3>2, <3>4
      <4> QED
        BY ONLY <4>1, SumsOfPart
    <3>7. IsFiniteSet(z)
      BY <3>2, FS_Subset
    <3>8. [s \in SUBSET z |-> g[s]] = h
      BY ONLY <3>5, <3>6, <3>7, SumsAreUnique
    <3>9. h[z] = g[z]
      BY <3>8
    <3>10. g[y] = f[Any(y)] + g[z]
      BY <2>2, <3>1, <3>4 DEF Sums
    <3>11. c[y] = g[y] /\ c[z] = h[z]
      BY <2>1, <3>2, <3>4, <3>5 DEF ChosenSum
    <3> QED
      BY <3>1, <3>9, <3>10, <3>11
  <2>3. c[{}] = 0
    <3>1. PICK g : g = (CHOOSE e : Sums(f, {}, e)) /\ Sums(f, {}, g)
      BY <1>1, <1>2
    <3>2. g[{}] = 0
      BY <3>1 DEF Sums
    <3> QED
      BY <2>1, <3>1, <3>2 DEF ChosenSum
  <2>4. PICK g : g = [s \in SUBSET x |-> IF s = {} THEN 0 ELSE f[Any(s)] + c[s \ {Any(s)}]]
    OBVIOUS
  <2>5. \A s \in SUBSET x : s # x => g[s] = c[s]
    BY <2>2, <2>3, <2>4
  <2>6. ASSUME NEW s \in SUBSET x, s # {}
        PROVE  g[s \ {Any(s)}] = c[s \ {Any(s)}]
    BY <2>5, <2>6, AnyIsIn
  <2>7. g = [s \in SUBSET x |-> IF s = {} THEN 0 ELSE f[Any(s)] + g[s \ {Any(s)}]]
    BY <2>4, <2>6
  <2>8. Sums(f, x, g)
    BY <2>7 DEF Sums
  <2> QED
    BY <1>1, <2>8
<1>4. S \in T
  BY ONLY IsFiniteSet(S), <1>2, <1>3, SetInduction
<1> QED
  BY <1>1, <1>4

Total(f, S) == SumFunctionOnSet(f, S)

LEMMA TotalIsChosen ==
  ASSUME NEW f, NEW S
  PROVE  Total(f, S) = ChosenSum(f, S)
  BY DEF Total, SumFunctionOnSet, FoldFunctionOnSet, MapThenFoldSet, ChosenSum, Sums, Any

LEMMA TotalIsSum ==
  ASSUME NEW f, NEW S, IsFiniteSet(S), NEW g, Sums(f, S, g)
  PROVE  \A s \in SUBSET S : Total(f, s) = g[s]
<1> TAKE s \in SUBSET S
<1>1. IsFiniteSet(s)
  BY FS_Subset
<1>2. PICK h : h = (CHOOSE e : Sums(f, s, e)) /\ Sums(f, s, h)
  BY <1>1, SumsExist
<1>3. Sums(f, s, [z \in SUBSET s |-> g[z]])
  BY SumsOfPart
<1>4. [z \in SUBSET s |-> g[z]] = h
  BY ONLY <1>1, <1>2, <1>3, SumsAreUnique
<1>5. h[s] = g[s]
  BY <1>4
<1> QED
  BY <1>2, <1>5, TotalIsChosen DEF ChosenSum

LEMMA TotalOfNothing == \A f : Total(f, {}) = 0
<1> TAKE f
<1>1. IsFiniteSet({})
  BY FS_EmptySet
<1>2. PICK g : Sums(f, {}, g)
  BY <1>1, SumsExist
<1>3. Total(f, {}) = g[{}]
  BY <1>1, <1>2, TotalIsSum
<1> QED
  BY <1>2, <1>3 DEF Sums

LEMMA TotalTakesAny ==
  ASSUME NEW f, NEW S, IsFiniteSet(S), S # {}
  PROVE  Total(f, S) = f[Any(S)] + Total(f, S \ {Any(S)})
<1>1. PICK g : Sums(f, S, g)
  BY SumsExist
<1>2. Total(f, S) = g[S] /\ Total(f, S \ {Any(S)}) = g[S \ {Any(S)}]
  BY <1>1, TotalIsSum
<1> QED
  BY <1>1, <1>2 DEF Sums

LEMMA TotalIsInt ==
  ASSUME NEW f, NEW S, IsFiniteSet(S), \A x \in S : f[x] \in Int
  PROVE  Total(f, S) \in Int
<1>1. PICK T : T = {x \in SUBSET S : Total(f, x) \in Int}
  OBVIOUS
<1>2. {} \in T
  BY <1>1, TotalOfNothing
<1>3. ASSUME NEW x \in SUBSET S, x # {}, \A y \in SUBSET x : y # x => y \in T
      PROVE  x \in T
  <2>1. Any(x) \in x /\ x \ {Any(x)} \in T
    BY <1>3, AnyIsIn
  <2>2. IsFiniteSet(x)
    BY FS_Subset
  <2>3. Total(f, x) = f[Any(x)] + Total(f, x \ {Any(x)})
    BY <1>3, <2>2, TotalTakesAny
  <2> QED
    BY <1>1, <2>1, <2>3
<1>4. S \in T
  BY ONLY IsFiniteSet(S), <1>2, <1>3, SetInduction
<1> QED
  BY <1>1, <1>4

LEMMA TotalTakes ==
  ASSUME NEW f, NEW S, IsFiniteSet(S), \A x \in S : f[x] \in Int
  PROVE  \A a \in S : Total(f, S) = f[a] + Total(f, S \ {a})
<1>1. PICK T : T = {x \in SUBSET S : \A a \in x : Total(f, x) = f[a] + Total(f, x \ {a})}
  OBVIOUS
<1>2. {} \in T
  BY <1>1
<1>3. ASSUME NEW x \in SUBSET S, x # {}, \A y \in SUBSET x : y # x => y \in T
      PROVE  x \in T
  <2>1. IsFiniteSet(x)
    BY FS_Subset
  <2>2. PICK p \in x : p = Any(x) /\ Total(f, x) = f[p] + Total(f, x \ {p})
    BY <1>3, <2>1, AnyIsIn, TotalTakesAny
  <2>3. ASSUME NEW a \in x, a # p
        PROVE  Total(f, x) = f[a] + Total(f, x \ {a})
    <3>1. x \ {p} \in T /\ x \ {a} \in T /\ a \in x \ {p} /\ p \in x \ {a}
      BY <1>3, <2>3
    <3>2. /\ Total(f, x \ {p}) = f[a] + Total(f, (x \ {p}) \ {a})
          /\ Total(f, x \ {a}) = f[p] + Total(f, (x \ {a}) \ {p})
      BY <1>1, <3>1
    <3>3. PICK r : r = (x \ {p}) \ {a} /\ r = (x \ {a}) \ {p} /\ r \subseteq S
      OBVIOUS
    <3>4. IsFiniteSet(r)
      BY <3>3, FS_Subset
    <3>5. Total(f, r) \in Int
      BY <3>3, <3>4, TotalIsInt
    <3>6. f[a] \in Int /\ f[p] \in Int
      OBVIOUS
    <3>7. /\ Total(f, x) = f[p] + (f[a] + Total(f, r))
          /\ Total(f, x \ {a}) = f[p] + Total(f, r)
      BY <2>2, <3>2, <3>3
    <3> QED
      BY ONLY <3>5, <3>6, <3>7
  <2>4. \A a \in x : Total(f, x) = f[a] + Total(f, x \ {a})
    BY <2>2, <2>3
  <2> QED
    BY <1>1, <2>4
<1>4. S \in T
  BY ONLY IsFiniteSet(S), <1>2, <1>3, SetInduction
<1> QED
  BY <1>1, <1>4

LEMMA TotalOneMore ==
  ASSUME NEW f, NEW S, IsFiniteSet(S), NEW a, a \notin S, \A x \in S \cup {a} : f[x] \in Int
  PROVE  Total(f, S \cup {a}) = Total(f, S) + f[a]
<1>1. IsFiniteSet(S \cup {a})
  BY FS_AddElement
<1>2. (S \cup {a}) \ {a} = S
  OBVIOUS
<1>3. Total(f, S \cup {a}) = f[a] + Total(f, S)
  BY <1>1, <1>2, TotalTakes
<1>4. Total(f, S) \in Int /\ f[a] \in Int
  BY TotalIsInt
<1> QED
  BY <1>3, <1>4

LEMMA SameTotal ==
  ASSUME NEW f, NEW g, NEW S, IsFiniteSet(S), \A x \in S : f[x] = g[x]
  PROVE  Total(f, S) = Total(g, S)
<1>1. PICK h : Sums(f, S, h)
  BY SumsExist
<1>2. \A s \in SUBSET S : s # {} => f[Any(s)] = g[Any(s)]
  BY AnyIsIn
<1>3. Sums(g, S, h)
  BY <1>1, <1>2 DEF Sums
<1> QED
  BY <1>1, <1>3, TotalIsSum

LEMMA TotalOfSums ==
  ASSUME NEW S, IsFiniteSet(S), NEW f, NEW g, NEW h,
         \A x \in S : f[x] \in Int /\ g[x] \in Int /\ h[x] = f[x] + g[x]
  PROVE  Total(h, S) = Total(f, S) + Total(g, S)
<1>1. PICK T : T = {x \in SUBSET S : Total(h, x) = Total(f, x) + Total(g, x)}
  OBVIOUS
<1>2. {} \in T
  BY <1>1, TotalOfNothing
<1>3. ASSUME NEW x \in SUBSET S, x # {}, \A y \in SUBSET x : y # x => y \in T
      PROVE  x \in T
  <2>1. PICK a : a \in x
    BY <1>3
  <2>2. PICK y : y = x \ {a}
    OBVIOUS
  <2>3. y \in T /\ IsFiniteSet(x) /\ IsFiniteSet(y)
    BY <1>3, <2>1, <2>2, FS_Subset
  <2>4. \A e \in x : f[e] \in Int /\ g[e] \in Int /\ h[e] \in Int /\ e \in S
    OBVIOUS
  <2>5. /\ Total(f, x) = f[a] + Total(f, y)
        /\ Total(g, x) = g[a] + Total(g, y)
        /\ Total(h, x) = h[a] + Total(h, y)
    BY <2>1, <2>2, <2>3, <2>4, TotalTakes
  <2>6. Total(f, y) \in Int /\ Total(g, y) \in Int
    BY <2>2, <2>3, <2>4, TotalIsInt
  <2>7. Total(h, y) = Total(f, y) + Total(g, y) /\ h[a] = f[a] + g[a]
    BY <1>1, <2>1, <2>3
  <2>8. f[a] \in Int /\ g[a] \in Int
    BY <2>1, <2>4
  <2>9. Total(h, x) = Total(f, x) + Total(g, x)
    BY <2>5, <2>6, <2>7, <2>8
  <2> QED
    BY <1>1, <2>9
<1>4. S \in T
  BY ONLY IsFiniteSet(S), <1>2, <1>3, SetInduction
<1> QED
  BY <1>1, <1>4

(* The things in the groups of S, which have none in common. *)
Grouped(G, S) == UNION {G[a] : a \in S}

LEMMA CountByGroup ==
  ASSUME NEW S, IsFiniteSet(S), NEW f, NEW G,
         \A a \in S : IsFiniteSet(G[a]) /\ f[a] = Cardinality(G[a]),
         \A a, b \in S : a # b => G[a] \cap G[b] = {}
  PROVE  IsFiniteSet(Grouped(G, S)) /\ Total(f, S) = Cardinality(Grouped(G, S))
<1>1. PICK T : T = {x \in SUBSET S : /\ IsFiniteSet(Grouped(G, x))
                                     /\ Total(f, x) = Cardinality(Grouped(G, x))}
  OBVIOUS
<1>2. {} \in T
  <2>1. Grouped(G, {}) = {}
    BY DEF Grouped
  <2> QED
    BY <1>1, <2>1, TotalOfNothing, FS_EmptySet
<1>3. ASSUME NEW x \in SUBSET S, x # {}, \A y \in SUBSET x : y # x => y \in T
      PROVE  x \in T
  <2>1. PICK a : a \in x
    BY <1>3
  <2>2. PICK y : y = x \ {a}
    OBVIOUS
  <2>3. y \in T /\ IsFiniteSet(x)
    BY <1>3, <2>1, <2>2, FS_Subset
  <2>4. PICK part, one : part = Grouped(G, y) /\ one = G[a]
    OBVIOUS
  <2>5. IsFiniteSet(part) /\ IsFiniteSet(one)
    BY <1>1, <2>1, <2>3, <2>4
  <2>6. Grouped(G, x) = part \cup one
    BY <2>1, <2>2, <2>4 DEF Grouped
  <2>7. part \cap one = {}
    <3>1. \A b \in y : b \in S /\ b # a
      BY <2>2
    <3>2. \A b \in y : G[b] \cap one = {}
      BY <2>1, <2>4, <3>1
    <3> QED
      BY <2>4, <3>2 DEF Grouped
  <2>8. Cardinality(part \cup one) = Cardinality(part) + Cardinality(one) - Cardinality(part \cap one)
    BY <2>5, FS_Union
  <2>9. Cardinality(part) \in Nat /\ Cardinality(one) \in Nat /\ Cardinality(part \cap one) = 0
    BY <2>5, <2>7, FS_CardinalityType, FS_EmptySet
  <2>10. \A e \in x : f[e] \in Int
    BY FS_CardinalityType
  <2>11. Total(f, x) = f[a] + Total(f, y)
    BY <2>1, <2>2, <2>3, <2>10, TotalTakes
  <2>12. Total(f, y) = Cardinality(part) /\ f[a] = Cardinality(one)
    BY <1>1, <2>1, <2>3, <2>4
  <2>13. Total(f, x) = Cardinality(part \cup one)
    BY <2>8, <2>9, <2>11, <2>12
  <2>14. IsFiniteSet(part \cup one)
    BY <2>5, FS_Union
  <2> QED
    BY <1>1, <2>6, <2>13, <2>14
<1>4. S \in T
  BY ONLY IsFiniteSet(S), <1>2, <1>3, SetInduction
<1> QED
  BY <1>1, <1>4

(* Every other fold adds up a function, whatever order it takes. *)
LEMMA FoldIsTotal ==
  ASSUME NEW f, NEW S, IsFiniteSet(S), \A x \in S : f[x] \in Int, NEW base \in Int, NEW g,
         \A s \in SUBSET S :
           /\ s = {} => g[s] = base
           /\ s # {} /\ g[s \ {Any(s)}] \in Int => g[s] = f[Any(s)] + g[s \ {Any(s)}]
  PROVE  g[S] = base + Total(f, S)
<1>1. PICK T : T = {x \in SUBSET S : g[x] = base + Total(f, x)}
  OBVIOUS
<1>2. {} \in T
  <2>1. g[{}] = base /\ Total(f, {}) = 0
    BY TotalOfNothing
  <2>2. base + 0 = base
    OBVIOUS
  <2> QED
    BY <1>1, <2>1, <2>2
<1>3. ASSUME NEW x \in SUBSET S, x # {}, \A y \in SUBSET x : y # x => y \in T
      PROVE  x \in T
  <2>1. Any(x) \in x /\ x \ {Any(x)} \in T /\ x \ {Any(x)} \in SUBSET S
    BY <1>3, AnyIsIn
  <2>2. IsFiniteSet(x) /\ IsFiniteSet(x \ {Any(x)})
    BY FS_Subset
  <2>3. Total(f, x \ {Any(x)}) \in Int /\ f[Any(x)] \in Int
    BY <2>1, <2>2, TotalIsInt
  <2>4. Total(f, x) = f[Any(x)] + Total(f, x \ {Any(x)})
    BY <1>3, <2>2, TotalTakesAny
  <2>5. g[x \ {Any(x)}] = base + Total(f, x \ {Any(x)})
    BY <1>1, <2>1
  <2>6. g[x] = f[Any(x)] + g[x \ {Any(x)}]
    <3>1. g[x \ {Any(x)}] \in Int
      BY <2>3, <2>5
    <3> QED
      BY <1>3, <3>1
  <2>7. g[x] = base + Total(f, x)
    BY <2>3, <2>4, <2>5, <2>6
  <2> QED
    BY <1>1, <2>7
<1>4. S \in T
  BY ONLY IsFiniteSet(S), <1>2, <1>3, SetInduction
<1> QED
  BY <1>1, <1>4

-----------------------------------------------------------------------------
(***************************************************************************)
(* THE INVARIANT.  What the numbers rely on beyond the life cycle of hops: an *)
(* offer belongs to a hop that exists and is not its creator's own.        *)
(***************************************************************************)

OffersHaveHops ==
  \A h \in Hops, m \in Members :
    offer[h][m] # "none" =>
      creator[h] # NoMember /\ (offer[h][m] = "pending" => m # creator[h])

PagesInv ==
  /\ IInv /\ FiniteLedger /\ OffersHaveHops
  /\ policy \in Policies
  /\ IsFiniteSet(transfers)

LEMMA NextOffersHaveHops == IInv /\ OffersHaveHops /\ [Next]_vars => OffersHaveHops'
<1> SUFFICES ASSUME IInv, OffersHaveHops, [Next]_vars PROVE OffersHaveHops'
  OBVIOUS
<1> USE DEF IInv, TypeOK, OffersHaveHops, hopVars, bankVars, orgVars, memberVars
<1>1. CASE UNCHANGED vars
  BY <1>1 DEF vars
<1>2. ASSUME NEW m \in Members, NEW h \in Hops,
             \/ \E k \in Kinds, hours \in Estimates : CreateHop(h, m, k, hours)
             \/ OfferHopHelp(h, m) \/ AcceptHop(h, m) \/ CancelHop(h, m)
             \/ \E entered \in FinalHours \cup {0} : CompleteHop(h, m, entered)
      PROVE  OffersHaveHops'
  <2>1. ASSUME NEW k \in Kinds, NEW hours \in Estimates, CreateHop(h, m, k, hours)
        PROVE  OffersHaveHops'
    <3>1. creator[h] = NoMember
      BY <2>1 DEF CreateHop, MatchAgreesWithStatus
    <3> QED
      BY <2>1, <3>1, MembersAssumption DEF CreateHop
  <2>2. CASE OfferHopHelp(h, m)
    <3>1. creator[h] # NoMember
      BY <2>2 DEF OfferHopHelp, MatchAgreesWithStatus
    <3> QED
      BY <2>2, <3>1 DEF OfferHopHelp
  <2>3. CASE AcceptHop(h, m)
    BY <2>3 DEF AcceptHop
  <2>4. CASE CancelHop(h, m)
    BY <2>4 DEF CancelHop, DenyPending
  <2>5. ASSUME NEW entered \in FinalHours \cup {0}, CompleteHop(h, m, entered)
        PROVE  OffersHaveHops'
    BY <2>5 DEF CompleteHop
  <2> QED
    BY <1>2, <2>1, <2>2, <2>3, <2>4, <2>5
<1>3. ASSUME NEW m \in Members, NEW o \in Members, NEW h \in Hops,
             AcceptPendingHopOffer(h, m, o) \/ DeclinePendingHopOffer(h, m, o)
      PROVE  OffersHaveHops'
  <2>1. CASE AcceptPendingHopOffer(h, m, o)
    BY <2>1 DEF AcceptPendingHopOffer, AcceptOffer, DenyPending
  <2>2. CASE DeclinePendingHopOffer(h, m, o)
    BY <2>2 DEF DeclinePendingHopOffer
  <2> QED
    BY <1>3, <2>1, <2>2
<1>4. ASSUME NEW m \in Members, AccountStep(m)
      PROVE  OffersHaveHops'
  <2>1. CASE AdminDeleteMember(m)
    BY <2>1 DEF AdminDeleteMember, DenyPending
  <2>2. CASE UNCHANGED <<creator, offer>>
    BY <2>2
  <2> QED
    BY <1>4, <2>1, <2>2
       DEF AccountStep, AdminDisableMember, EnableMember, DisableOwnAccount,
           AdjustMemberHourBalance, LeaveOrganization, RemoveOrganizationMember, EndMembership,
           ApproveMembershipRequest, AcceptOrganizationInvite, EnsureActiveMembership
<1>5. ASSUME NEW h \in Hops, HopStep(h)
      PROVE  OffersHaveHops'
  BY <1>5 DEF HopStep, FallDue, AdminExpireHop, AdminDeleteHop
<1>6. CASE ExpireDueHops
  BY <1>6 DEF ExpireDueHops
<1>7. CASE OrganizationStep
  BY <1>7 DEF OrganizationStep, UpdateOrganizationTimebankPolicy, SetOrganizationEnabled
<1> QED
  BY <1>1, <1>2, <1>3, <1>4, <1>5, <1>6, <1>7 DEF Next, MemberStep

LEMMA PolicyStaysValid == policy \in Policies /\ [Next]_vars => policy' \in Policies
<1> SUFFICES ASSUME policy \in Policies, [Next]_vars PROVE policy' \in Policies
  OBVIOUS
<1> USE DEF hopVars, bankVars, orgVars, memberVars
<1>1. CASE UNCHANGED vars
  BY <1>1 DEF vars
<1>2. CASE \E m \in Members : MemberStep(m)
  BY <1>2 DEF MemberStep, CreateHop, OfferHopHelp, AcceptPendingHopOffer, DeclinePendingHopOffer,
              AcceptHop, CancelHop, CompleteHop
<1>3. CASE \E m \in Members : AccountStep(m)
  BY <1>3 DEF AccountStep, AdminDisableMember, AdminDeleteMember, EnableMember, DisableOwnAccount,
              AdjustMemberHourBalance, LeaveOrganization, RemoveOrganizationMember, EndMembership,
              ApproveMembershipRequest, AcceptOrganizationInvite, EnsureActiveMembership
<1>4. CASE \E h \in Hops : HopStep(h)
  BY <1>4 DEF HopStep, FallDue, AdminExpireHop, AdminDeleteHop
<1>5. CASE ExpireDueHops
  BY <1>5 DEF ExpireDueHops
<1>6. CASE OrganizationStep
  BY <1>6 DEF OrganizationStep, UpdateOrganizationTimebankPolicy, SetOrganizationEnabled
<1> QED
  BY <1>1, <1>2, <1>3, <1>4, <1>5, <1>6 DEF Next

LEMMA InitPagesInv == Init => PagesInv
<1> SUFFICES ASSUME Init PROVE PagesInv
  OBVIOUS
<1>1. OffersHaveHops /\ policy \in Policies /\ IsFiniteSet(transfers)
  BY FS_EmptySet DEF Init, OffersHaveHops
<1> QED
  BY <1>1, InitIInv, InitFiniteLedger DEF PagesInv

LEMMA NextPagesInv == PagesInv /\ [Next]_vars => PagesInv'
<1> SUFFICES ASSUME PagesInv, [Next]_vars PROVE PagesInv'
  OBVIOUS
<1>1. IInv /\ FiniteLedger
  BY DEF PagesInv
<1>2. IInv' /\ FiniteLedger' /\ OffersHaveHops' /\ policy' \in Policies
  BY NextIInv, NextFiniteLedger, NextOffersHaveHops, PolicyStaysValid DEF PagesInv
<1>3. IsFiniteSet(transfers')
  <2>1. CASE transfers' = transfers
    BY <2>1 DEF PagesInv
  <2>2. CASE transfers' # transfers
    <3>1. PICK h \in Hops, m \in Members, entered \in FinalHours \cup {0} :
            CompleteHop(h, m, entered)
      BY <2>2, MovesAreCompletions
    <3>2. PICK row : transfers' = transfers \cup {row}
      BY <3>1 DEF CompleteHop
    <3> QED
      BY <3>2, FS_AddElement DEF PagesInv
  <2> QED
    BY <2>1, <2>2
<1> QED
  BY <1>2, <1>3 DEF PagesInv

-----------------------------------------------------------------------------
(***************************************************************************)
(* COUNTS AND MESSAGES.                                                    *)
(***************************************************************************)

LEMMA FiniteRows ==
  /\ IsFiniteSet(Rows)
  /\ \A x \in SUBSET Rows : IsFiniteSet(x) /\ Cardinality(x) \in Nat
<1>1. IsFiniteSet(Rows)
  BY FiniteOrganization, FS_Subset DEF Rows
<1> QED
  BY <1>1, FS_Subset, FS_CardinalityType

LEMMA FiniteMembers ==
  \A x \in SUBSET Members : IsFiniteSet(x) /\ Cardinality(x) \in Nat
  BY FiniteOrganization, FS_Subset, FS_CardinalityType

LEMMA CountsOfParts ==
  ASSUME NEW S, NEW T, IsFiniteSet(S), IsFiniteSet(T), S \cap T = {}
  PROVE  Cardinality(S \cup T) = Cardinality(S) + Cardinality(T)
<1>1. Cardinality(S \cup T) = Cardinality(S) + Cardinality(T) - Cardinality(S \cap T)
  BY FS_Union
<1>2. Cardinality(S \cap T) = 0
  BY FS_EmptySet
<1>3. Cardinality(S) \in Nat /\ Cardinality(T) \in Nat
  BY FS_CardinalityType
<1> QED
  BY <1>1, <1>2, <1>3

LEMMA EmptyCount ==
  ASSUME NEW S, IsFiniteSet(S)
  PROVE  (Cardinality(S) > 0 <=> S # {}) /\ (Cardinality(S) = 0 <=> S = {})
  BY FS_EmptySet, FS_CardinalityType

LEMMA FiniteEnumerations ==
  IsFiniteSet(adminHopStatusOrder) /\ IsFiniteSet(Kinds) /\ IsFiniteSet(Statuses)
<1>1. \A S, T : IsFiniteSet(S) /\ IsFiniteSet(T) => IsFiniteSet(S \cup T)
  BY FS_Union
<1>2. \A a, b : IsFiniteSet({a, b})
  <2> TAKE a, b
  <2>1. IsFiniteSet({a}) /\ IsFiniteSet({b})
    BY FS_Singleton
  <2>2. {a, b} = {a} \cup {b}
    OBVIOUS
  <2> QED
    BY <1>1, <2>1, <2>2
<1>3. IsFiniteSet(Statuses)
  <2>1. PICK begun, ended, gone :
          /\ begun = {"none", "open"} \cup {"accepted", "completed"}
          /\ ended = {"canceled", "expired"}
          /\ gone = {"deleted", "deleted"}
    OBVIOUS
  <2>2. IsFiniteSet(begun) /\ IsFiniteSet(ended) /\ IsFiniteSet(gone)
    BY <1>1, <1>2, <2>1
  <2>3. Statuses = (begun \cup ended) \cup gone
    BY <2>1 DEF Statuses
  <2> QED
    BY <1>1, <2>2, <2>3
<1>4. adminHopStatusOrder \subseteq Statuses
  BY DEF adminHopStatusOrder, Statuses
<1> QED
  BY <1>2, <1>3, <1>4, FS_Subset DEF Kinds

LEMMA RingOfStatuses ==
  ASSUME PagesInv
  PROVE  SumFunction([s \in adminHopStatusOrder |-> CountOf(s)]) = Cardinality(Rows)
<1>1. PICK S : S = adminHopStatusOrder
  OBVIOUS
<1>2. PICK f, G : f = [s \in S |-> CountOf(s)] /\ G = [s \in S |-> Having(s)]
  OBVIOUS
<1>3. \A a \in S : IsFiniteSet(G[a]) /\ f[a] = Cardinality(G[a])
  BY <1>2, FiniteRows DEF CountOf, Having
<1>4. \A a, b \in S : a # b => G[a] \cap G[b] = {}
  BY <1>2 DEF Having
<1>5. IsFiniteSet(S)
  BY <1>1, FiniteEnumerations
<1>6. Total(f, S) = Cardinality(Grouped(G, S))
  BY ONLY <1>3, <1>4, <1>5, CountByGroup
<1>7. \A h \in Rows : status[h] \in S /\ h \in G[status[h]]
  BY <1>1, <1>2
     DEF Having, Rows, PagesInv, IInv, TypeOK, MatchAgreesWithStatus, Statuses, adminHopStatusOrder
<1>8. \A a \in S : G[a] \subseteq Rows
  BY <1>2 DEF Having
<1>9. Grouped(G, S) = Rows
  BY <1>7, <1>8 DEF Grouped
<1> QED
  BY <1>1, <1>2, <1>6, <1>9 DEF SumFunction, Total

LEMMA RingOfKinds ==
  ASSUME PagesInv
  PROVE  SumFunction([k \in Kinds |-> CountOfKind(k)]) = Cardinality(Rows)
<1>1. PICK S : S = Kinds
  OBVIOUS
<1>2. PICK f, G : f = [s \in S |-> CountOfKind(s)] /\ G = [s \in S |-> {h \in Rows : kind[h] = s}]
  OBVIOUS
<1>3. \A a \in S : IsFiniteSet(G[a]) /\ f[a] = Cardinality(G[a])
  BY <1>2, FiniteRows DEF CountOfKind
<1>4. \A a, b \in S : a # b => G[a] \cap G[b] = {}
  BY <1>2
<1>5. IsFiniteSet(S)
  BY <1>1, FiniteEnumerations
<1>6. Total(f, S) = Cardinality(Grouped(G, S))
  BY ONLY <1>3, <1>4, <1>5, CountByGroup
<1>7. \A h \in Rows : kind[h] \in S /\ h \in G[kind[h]]
  BY <1>1, <1>2 DEF Rows, PagesInv, IInv, TypeOK
<1>8. \A a \in S : G[a] \subseteq Rows
  BY <1>2
<1>9. Grouped(G, S) = Rows
  BY <1>7, <1>8 DEF Grouped
<1> QED
  BY <1>1, <1>2, <1>6, <1>9 DEF SumFunction, Total

LEMMA OverviewsDoAgree == PagesInv => OverviewsAgree
<1> SUFFICES ASSUME PagesInv PROVE OverviewsAgree
  OBVIOUS
<1>1. PICK overview : overview = AdminAppOverview
  OBVIOUS
<1>2. PICK metrics : metrics = OrganizationHopMetricsDetail
  OBVIOUS
<1>3. ASSUME NEW page \in {overview, metrics}
      PROVE  /\ adminTotalHopCount(page.HopsByStatus) = overview.TopOrgByHopsCreated
             /\ adminHopMetricTotalValueForKinds(page.HopsByKind) = overview.TopOrgByHopsCreated
             /\ PendingCount = page.HopsByStatus["open"] + page.HopsByStatus["accepted"]
             /\ page.TotalHoursExchanged > 0 => CompletedCount > 0
  <2>1. /\ page.HopsByStatus = [s \in adminHopStatusOrder |-> CountOf(s)]
        /\ page.HopsByKind = [k \in Kinds |-> CountOfKind(k)]
        /\ page.TotalHoursExchanged = TotalHoursExchanged
        /\ overview.TopOrgByHopsCreated = Cardinality(Rows)
    BY <1>1, <1>2 DEF AdminAppOverview, OrganizationHopMetricsDetail
  <2>2. PendingCount = CountOf("open") + CountOf("accepted")
    <3>1. {h \in Rows : status[h] \in LiveStatuses} = Having("open") \cup Having("accepted")
      BY DEF Having, LiveStatuses
    <3>2. Having("open") \cap Having("accepted") = {}
      BY DEF Having
    <3>3. Having("open") \in SUBSET Rows /\ Having("accepted") \in SUBSET Rows
      BY DEF Having
    <3> QED
      BY <3>1, <3>2, <3>3, FiniteRows, CountsOfParts DEF PendingCount, CountOf
  <2>3. page.HopsByStatus["open"] = CountOf("open") /\ page.HopsByStatus["accepted"] = CountOf("accepted")
    BY <2>1 DEF adminHopStatusOrder
  <2>4. TotalHoursExchanged > 0 => CompletedCount > 0
    <3>1. CASE transfers = {}
      BY <3>1, HoursOfNothing DEF TotalHoursExchanged
    <3>2. CASE transfers # {}
      <4>1. PICK t \in transfers : status[t.hop] = "completed" /\ t.hop \in Hops
        BY <3>2 DEF PagesInv, IInv, TypeOK, LedgerMatchesHops, Transfers
      <4>2. t.hop \in Having("completed")
        BY <4>1 DEF Having, Rows, PagesInv, IInv, MatchAgreesWithStatus
      <4>3. Having("completed") # {} /\ IsFiniteSet(Having("completed"))
        BY <4>2, FiniteRows DEF Having
      <4> QED
        BY <4>3, EmptyCount DEF CompletedCount, CountOf
    <3> QED
      BY <3>1, <3>2
  <2> QED
    BY <2>1, <2>2, <2>3, <2>4, RingOfStatuses, RingOfKinds
       DEF adminTotalHopCount, adminHopMetricTotalValueForKinds
<1>4. active \in SUBSET Members /\ NoMember \notin Members
  BY MembersAssumption DEF PagesInv, IInv, TypeOK
<1>5. metrics.ParticipatedUsers = Cardinality(organizationTopParticipants)
  <2>1. ASSUME NEW m \in active
        PROVE  ParticipationCount(m) > 0 <=> m \in Participated
    <3>1. PICK made : made = ListRequestedHops(m) /\ made \in SUBSET Rows
      BY DEF ListRequestedHops
    <3>2. PICK done : done = {h \in Rows : matched[h] = m} /\ done \in SUBSET Rows
      OBVIOUS
    <3>3. /\ Cardinality(made) \in Nat /\ Cardinality(done) \in Nat
          /\ Cardinality(made) > 0 <=> made # {}
          /\ Cardinality(done) > 0 <=> done # {}
      BY <3>1, <3>2, FiniteRows, EmptyCount
    <3>4. m \in Participated <=> made # {} \/ done # {}
      BY <1>4, <3>1, <3>2 DEF Participated, ListRequestedHops
    <3>5. ParticipationCount(m) = Cardinality(made) + Cardinality(done)
      BY <3>1, <3>2 DEF ParticipationCount, HopsMade
    <3> QED
      BY <3>3, <3>4, <3>5
  <2>2. organizationTopParticipants = active \cap Participated
    BY <2>1 DEF organizationTopParticipants
  <2> QED
    BY <1>2, <2>2 DEF OrganizationHopMetricsDetail
<1>6. metrics.ParticipatedUsers + metrics.NeverParticipatedUsers = overview.TopOrgByUsers.total
  <2>1. PICK took, never : took = active \cap Participated /\ never = NeverParticipated
    OBVIOUS
  <2>2. took \cap never = {} /\ took \cup never = active
    BY <2>1 DEF NeverParticipated
  <2>3. IsFiniteSet(took) /\ IsFiniteSet(never)
    BY <1>4, <2>2, FiniteMembers
  <2>4. Cardinality(active) = Cardinality(took) + Cardinality(never)
    BY <2>2, <2>3, CountsOfParts
  <2> QED
    BY <1>1, <1>2, <2>1, <2>4 DEF OrganizationHopMetricsDetail, AdminAppOverview, MemberCounts
<1> QED
  BY <1>1, <1>2, <1>3, <1>5, <1>6 DEF OverviewsAgree

LEMMA MessagesAreRight ==
  ASSUME NEW requested \in Nat \ {0}, NEW payer \in Int, NEW earner \in Int, NEW p \in PolicyRecords
  PROVE  LET given == Allowed(requested, payer, earner, p)
             said == CompletionMessage(requested, payer, earner, p)
         IN /\ said = "completed" <=> given = requested
            /\ said = "minimum" => payer - given = p.min
            /\ said = "maximum" => earner + given = p.max
<1>1. PICK room : room = payer - p.min /\ room \in Int
  BY DEF PolicyRecords
<1>2. PICK lack : lack = p.max - earner /\ lack \in Int
  BY DEF PolicyRecords
<1>3. p.min \in Int /\ p.max \in Int
  BY DEF PolicyRecords
<1>4. PICK given : given = Allowed(requested, payer, earner, p)
  OBVIOUS
<1>5. PICK cut : cut = Least(requested, Least(room, lack))
  OBVIOUS
<1>6. /\ cut \in Int /\ cut <= requested /\ cut <= room /\ cut <= lack
      /\ cut = requested \/ cut = room \/ cut = lack
  BY <1>1, <1>2, <1>5 DEF Least
<1>7. given = IF cut >= 0 THEN cut ELSE 0
  BY <1>1, <1>2, <1>4, <1>5, <1>6 DEF Allowed, NonNegative
<1>8. PICK said : said = CompletionMessage(requested, payer, earner, p)
  OBVIOUS
<1>9. said = IF given = requested THEN "completed"
             ELSE IF given = 0 THEN "nothing moved"
             ELSE IF room < requested /\ lack < requested THEN "both limits"
             ELSE IF room < requested THEN "minimum"
             ELSE IF lack < requested THEN "maximum"
             ELSE "completed"
  BY <1>1, <1>2, <1>4, <1>8 DEF CompletionMessage
<1>10. said = "completed" <=> given = requested
  <2>1. given # requested /\ given # 0 => room < requested \/ lack < requested
    <3>1. requested \in Nat /\ requested # 0
      OBVIOUS
    <3> QED
      BY ONLY <1>1, <1>2, <1>6, <1>7, <3>1
  <2>2. given = requested => said = "completed"
    BY <1>9
  <2>3. given # requested /\ given = 0 => said # "completed"
    BY <1>9
  <2>4. given # requested /\ given # 0 => said # "completed"
    BY <1>9, <2>1
  <2> QED
    BY <2>2, <2>3, <2>4
<1>11. said = "minimum" => given = room
  BY <1>1, <1>2, <1>6, <1>7, <1>9
<1>12. said = "maximum" => given = lack
  BY <1>1, <1>2, <1>6, <1>7, <1>9
<1> QED
  BY <1>1, <1>2, <1>3, <1>4, <1>8, <1>10, <1>11, <1>12

LEMMA MessagesDoAgree == PagesInv => MessagesAgree
<1> SUFFICES ASSUME PagesInv,
                    NEW h \in RecentAcceptedHops, NEW hours \in FinalHours \cup Estimates
             PROVE  LET payer == Balance(Payer(h))
                        earner == Balance(Earner(h))
                        given == Allowed(hours, payer, earner, policy)
                        said == CompletionMessage(hours, payer, earner, policy)
                    IN /\ said = "completed" <=> given = hours
                       /\ said = "minimum" => payer - given = policy.min
                       /\ said = "maximum" => earner + given = policy.max
  BY DEF MessagesAgree
<1>1. Payer(h) \in Members /\ Earner(h) \in Members
  BY DEF RecentAcceptedHops, Having, Rows, Payer, Earner, PagesInv, IInv, TypeOK,
         MatchAgreesWithStatus
<1>2. Balance(Payer(h)) \in Int /\ Balance(Earner(h)) \in Int
  BY <1>1, BalanceIsInt DEF PagesInv, IInv
<1>3. hours \in Nat \ {0}
  BY HoursAssumption
<1>4. policy \in PolicyRecords
  BY DEF PagesInv, IInv, TypeOK
<1> QED
  BY <1>2, <1>3, <1>4, MessagesAreRight

-----------------------------------------------------------------------------
(***************************************************************************)
(* BALANCES.  Three ways of adding up one member's entries.                *)
(***************************************************************************)

LEMMA SameCount ==
  ASSUME NEW S, NEW T, IsFiniteSet(S), NEW f \in [S -> T],
         \A x, y \in S : f[x] = f[y] => x = y,
         \A z \in T : \E x \in S : f[x] = z
  PROVE  IsFiniteSet(T) /\ Cardinality(T) = Cardinality(S)
<1>1. f \in Bijection(S, T)
  BY DEF Bijection, Injection, Surjection, IsInjective
<1>2. ExistsBijection(S, T)
  BY <1>1 DEF ExistsBijection
<1> QED
  BY <1>2, FS_Bijection

(* Rows of the ledger, as the pages read them. *)
LEMMA EntryFields ==
  ASSUME PagesInv
  PROVE  /\ \A t \in transfers : /\ t.hop \in Hops /\ t.hours \in Nat /\ t.from # t.to
                                 /\ t.from \in Members /\ t.to \in Members
                                 /\ t.hop \in Having("completed") /\ t.hours = awarded[t.hop]
                                 /\ {t.from, t.to} = {creator[t.hop], matched[t.hop]}
         /\ \A t, u \in transfers : t.hop = u.hop => t = u
         /\ \A h \in Having("completed") : \E t \in transfers : t.hop = h
         /\ \A x \in SUBSET transfers : IsFiniteSet(x) /\ IsFiniteSet(HourUnits(x)) /\ HoursOf(x) \in Nat
<1> USE DEF PagesInv, IInv
<1>1. \A t, u \in transfers : t.hop = u.hop => t = u
  BY DEF LedgerMatchesHops
<1>2. \A h \in Having("completed") : \E t \in transfers : t.hop = h
  BY DEF LedgerMatchesHops, Having, Rows
<1>3. ASSUME NEW t \in transfers
      PROVE  /\ t.hop \in Hops /\ t.hours \in Nat /\ t.from # t.to
             /\ t.from \in Members /\ t.to \in Members
             /\ t.hop \in Having("completed") /\ t.hours = awarded[t.hop]
             /\ {t.from, t.to} = {creator[t.hop], matched[t.hop]}
  <2>1. t.hop \in Hops /\ t.hours \in Nat /\ t.from \in Members /\ t.to \in Members
    BY DEF TypeOK, Transfers
  <2>2. /\ status[t.hop] = "completed" /\ t.hours = awarded[t.hop]
        /\ {t.from, t.to} = {creator[t.hop], matched[t.hop]}
    BY DEF LedgerMatchesHops
  <2>3. creator[t.hop] # NoMember /\ matched[t.hop] # creator[t.hop]
    BY <2>1, <2>2 DEF MatchAgreesWithStatus
  <2>4. t.from # t.to
    BY <2>2, <2>3
  <2> QED
    BY <2>1, <2>2, <2>3, <2>4 DEF Having, Rows
<1>4. \A x \in SUBSET transfers : IsFiniteSet(x) /\ IsFiniteSet(HourUnits(x)) /\ HoursOf(x) \in Nat
  BY HoursOfPart, FS_Subset DEF FiniteLedger
<1> QED
  BY <1>1, <1>2, <1>3, <1>4

To(rows, m) == {t \in rows : t.to = m}
From(rows, m) == {t \in rows : t.from = m}

LEMMA BalanceOf ==
  \A m : Balance(m) = HoursOf(To(transfers, m)) - HoursOf(From(transfers, m)) + adjusted[m]
  BY DEF Balance, To, From

(* The entries of a member add up to what came in less what went out. *)
LEMMA DeltasAddUp ==
  ASSUME PagesInv, NEW m \in Members, NEW f,
         \A t \in BalanceEntries(m) : f[t] = BalanceDelta(t, m)
  PROVE  /\ \A t \in BalanceEntries(m) : f[t] \in Int
         /\ Total(f, BalanceEntries(m)) = HoursOf(To(transfers, m)) - HoursOf(From(transfers, m))
<1>1. PICK E : E = BalanceEntries(m)
  OBVIOUS
<1>2. \A t \in E : t \in transfers /\ t.hours \in Nat /\ t.from # t.to /\ (t.from = m \/ t.to = m)
  BY <1>1, EntryFields DEF BalanceEntries
<1>3. \A t \in E : f[t] = IF t.to = m THEN t.hours ELSE 0 - t.hours
  BY <1>1 DEF BalanceDelta
<1>4. \A t \in E : f[t] \in Int
  BY <1>2, <1>3
<1>5. \A x \in SUBSET E :
        /\ IsFiniteSet(x)
        /\ IsFiniteSet(HourUnits(To(x, m))) /\ HoursOf(To(x, m)) \in Nat
        /\ IsFiniteSet(HourUnits(From(x, m))) /\ HoursOf(From(x, m)) \in Nat
  <2>1. ASSUME NEW x \in SUBSET E
        PROVE  x \in SUBSET transfers /\ To(x, m) \in SUBSET transfers /\ From(x, m) \in SUBSET transfers
    BY <1>2 DEF To, From
  <2> QED
    BY <2>1, EntryFields
<1>6. PICK T : T = {x \in SUBSET E : Total(f, x) = HoursOf(To(x, m)) - HoursOf(From(x, m))}
  OBVIOUS
<1>7. {} \in T
  <2>1. To({}, m) = {} /\ From({}, m) = {}
    BY DEF To, From
  <2> QED
    BY <1>6, <2>1, HoursOfNothing, TotalOfNothing
<1>8. ASSUME NEW x \in SUBSET E, x # {}, \A y \in SUBSET x : y # x => y \in T
      PROVE  x \in T
  <2>1. PICK a : a \in x
    BY <1>8
  <2>2. PICK y \in SUBSET E : y = x \ {a}
    OBVIOUS
  <2>3. y \in T /\ a \in E /\ a \notin To(y, m) /\ a \notin From(y, m)
    BY <1>8, <2>1, <2>2 DEF To, From
  <2>4. \A t \in x : f[t] \in Int
    BY <1>4
  <2>5. Total(f, x) = f[a] + Total(f, y)
    BY <1>5, <2>1, <2>2, <2>4, TotalTakes
  <2>6. Total(f, y) = HoursOf(To(y, m)) - HoursOf(From(y, m))
    BY <1>6, <2>3
  <2>7. /\ HoursOf(To(y, m) \cup {a}) = HoursOf(To(y, m)) + a.hours
        /\ HoursOf(From(y, m) \cup {a}) = HoursOf(From(y, m)) + a.hours
    BY <1>2, <1>5, <2>3, HoursOfOneMore
  <2>8. /\ HoursOf(To(y, m)) \in Nat /\ HoursOf(From(y, m)) \in Nat /\ a.hours \in Nat
    BY <1>2, <1>5, <2>3
  <2>9. CASE a.to = m
    <3>1. To(x, m) = To(y, m) \cup {a} /\ From(x, m) = From(y, m)
      BY <1>2, <2>1, <2>2, <2>3, <2>9 DEF To, From
    <3>2. f[a] = a.hours
      BY <1>3, <2>3, <2>9
    <3>3. Total(f, x) = HoursOf(To(x, m)) - HoursOf(From(x, m))
      BY <2>5, <2>6, <2>7, <2>8, <3>1, <3>2
    <3> QED
      BY <1>6, <3>3
  <2>10. CASE a.to # m
    <3>1. To(x, m) = To(y, m) /\ From(x, m) = From(y, m) \cup {a}
      BY <1>2, <2>1, <2>2, <2>3, <2>10 DEF To, From
    <3>2. f[a] = 0 - a.hours
      BY <1>3, <2>3, <2>10
    <3>3. Total(f, x) = HoursOf(To(x, m)) - HoursOf(From(x, m))
      BY <2>5, <2>6, <2>7, <2>8, <3>1, <3>2
    <3> QED
      BY <1>6, <3>3
  <2> QED
    BY <2>9, <2>10
<1>9. IsFiniteSet(E)
  BY <1>5
<1>10. E \in T
  BY ONLY <1>7, <1>8, <1>9, SetInduction
<1>11. To(E, m) = To(transfers, m) /\ From(E, m) = From(transfers, m)
  BY <1>1 DEF To, From, BalanceEntries
<1> QED
  BY <1>1, <1>4, <1>6, <1>10, <1>11

LEMMA OverviewShowsBalance ==
  ASSUME PagesInv, NEW m \in Members
  PROVE  BalanceAfterAll(m) = Balance(m)
<1>1. PICK E : E = BalanceEntries(m)
  OBVIOUS
<1>2. PICK f : f = [t \in E |-> BalanceDelta(t, m)]
  OBVIOUS
<1>3. PICK base \in Int : base = adjusted[m]
  BY DEF PagesInv, IInv, TypeOK
<1>4. /\ \A t \in E : f[t] \in Int
      /\ Total(f, E) = HoursOf(To(transfers, m)) - HoursOf(From(transfers, m))
  <2>1. \A t \in BalanceEntries(m) : f[t] = BalanceDelta(t, m)
    BY <1>1, <1>2
  <2> QED
    BY <1>1, <2>1, DeltasAddUp
<1>5. IsFiniteSet(E)
  BY <1>1, EntryFields DEF BalanceEntries
<1>6. \A s \in SUBSET E : s # {} => f[Any(s)] = BalanceDelta(Any(s), m) /\ Any(s) \in E
  BY <1>2, AnyIsIn
<1>7. \E g : g = [s \in SUBSET E |-> IF s = {} THEN base
                                     ELSE g[s \ {Any(s)}] + BalanceDelta(Any(s), m)]
  <2>1. PICK g : g = [s \in SUBSET E |-> base + Total(f, s)]
    OBVIOUS
  <2>2. ASSUME NEW s \in SUBSET E, s # {}
        PROVE  g[s] = g[s \ {Any(s)}] + BalanceDelta(Any(s), m)
    <3>1. IsFiniteSet(s) /\ IsFiniteSet(s \ {Any(s)})
      BY <1>5, FS_Subset
    <3>2. Total(f, s) = f[Any(s)] + Total(f, s \ {Any(s)})
      BY <2>2, <3>1, TotalTakesAny
    <3>3. Total(f, s \ {Any(s)}) \in Int /\ f[Any(s)] \in Int
      BY <1>4, <1>6, <2>2, <3>1, TotalIsInt
    <3>4. g[s] = base + Total(f, s) /\ g[s \ {Any(s)}] = base + Total(f, s \ {Any(s)})
      BY <2>1
    <3> QED
      BY <1>6, <2>2, <3>2, <3>3, <3>4
  <2>3. g[{}] = base
    <3>1. g[{}] = base + 0
      BY <2>1, TotalOfNothing
    <3> QED
      BY <3>1
  <2>4. g = [s \in SUBSET E |-> IF s = {} THEN base ELSE g[s \ {Any(s)}] + BalanceDelta(Any(s), m)]
    BY <2>1, <2>2, <2>3
  <2> QED
    BY <2>4
<1>8. PICK g : /\ g = CHOOSE e : e = [s \in SUBSET E |-> IF s = {} THEN base
                                       ELSE e[s \ {Any(s)}] + BalanceDelta(Any(s), m)]
               /\ g = [s \in SUBSET E |-> IF s = {} THEN base
                                       ELSE g[s \ {Any(s)}] + BalanceDelta(Any(s), m)]
  BY <1>7
<1>9. BalanceAfterAll(m) = g[E]
  BY <1>1, <1>3, <1>8 DEF BalanceAfterAll, FoldSet, MapThenFoldSet, Any
<1>10. ASSUME NEW s \in SUBSET E
       PROVE  /\ s = {} => g[s] = base
              /\ s # {} /\ g[s \ {Any(s)}] \in Int => g[s] = f[Any(s)] + g[s \ {Any(s)}]
  <2>1. s = {} => g[s] = base
    BY <1>8
  <2>2. ASSUME s # {}, g[s \ {Any(s)}] \in Int
        PROVE  g[s] = f[Any(s)] + g[s \ {Any(s)}]
    <3>1. g[s] = g[s \ {Any(s)}] + f[Any(s)]
      BY <1>6, <1>8, <2>2
    <3>2. f[Any(s)] \in Int
      BY <1>4, <1>6, <2>2
    <3> QED
      BY <2>2, <3>1, <3>2
  <2> QED
    BY <2>1, <2>2
<1>11. g[E] = base + Total(f, E)
  BY ONLY <1>3, <1>4, <1>5, <1>10, FoldIsTotal
<1>12. HoursOf(To(transfers, m)) \in Nat /\ HoursOf(From(transfers, m)) \in Nat
  <2>1. To(transfers, m) \in SUBSET transfers /\ From(transfers, m) \in SUBSET transfers
    BY DEF To, From
  <2> QED
    BY <2>1, EntryFields
<1>13. Balance(m) = HoursOf(To(transfers, m)) - HoursOf(From(transfers, m)) + base
  BY <1>3, BalanceOf
<1> QED
  BY <1>4, <1>9, <1>11, <1>12, <1>13

CameIn(t, m) == IF t.to = m THEN t.hours ELSE 0
WentOut(t, m) == IF t.from = m THEN t.hours ELSE 0

LEMMA AdministratorShowsBalance ==
  ASSUME PagesInv, NEW m \in Members
  PROVE  AdminBalance(m) = Balance(m)
<1>1. PICK E : E = BalanceEntries(m)
  OBVIOUS
<1>2. PICK f : f = [t \in E |-> BalanceDelta(t, m)]
  OBVIOUS
<1>3. PICK in, out : in = [t \in E |-> CameIn(t, m)] /\ out = [t \in E |-> WentOut(t, m)]
  OBVIOUS
<1>4. /\ \A t \in E : f[t] \in Int
      /\ Total(f, E) = HoursOf(To(transfers, m)) - HoursOf(From(transfers, m))
  <2>1. \A t \in BalanceEntries(m) : f[t] = BalanceDelta(t, m)
    BY <1>1, <1>2
  <2> QED
    BY <1>1, <2>1, DeltasAddUp
<1>5. IsFiniteSet(E)
  BY <1>1, EntryFields DEF BalanceEntries
<1>6. \A t \in E : in[t] \in Int /\ out[t] \in Int /\ f[t] = in[t] - out[t]
  <2>1. \A t \in E : t.hours \in Nat /\ t.from # t.to /\ (t.from = m \/ t.to = m)
    BY <1>1, EntryFields DEF BalanceEntries
  <2> QED
    BY <1>2, <1>3, <2>1 DEF BalanceDelta, CameIn, WentOut
<1>7. \A s \in SUBSET E : s # {} =>
        /\ Any(s) \in E
        /\ in[Any(s)] = CameIn(Any(s), m) /\ out[Any(s)] = WentOut(Any(s), m)
  BY <1>3, AnyIsIn
<1>8. \E g : g = [s \in SUBSET E |-> IF s = {} THEN 0
                                     ELSE g[s \ {Any(s)}] + in[Any(s)] - out[Any(s)]]
  <2>1. PICK g : g = [s \in SUBSET E |-> Total(f, s)]
    OBVIOUS
  <2>2. ASSUME NEW s \in SUBSET E, s # {}
        PROVE  g[s] = g[s \ {Any(s)}] + in[Any(s)] - out[Any(s)]
    <3>1. IsFiniteSet(s) /\ IsFiniteSet(s \ {Any(s)})
      BY <1>5, FS_Subset
    <3>2. Total(f, s) = f[Any(s)] + Total(f, s \ {Any(s)})
      BY <2>2, <3>1, TotalTakesAny
    <3>3. Total(f, s \ {Any(s)}) \in Int
      BY <1>4, <3>1, TotalIsInt
    <3>4. /\ in[Any(s)] \in Int /\ out[Any(s)] \in Int
          /\ f[Any(s)] = in[Any(s)] - out[Any(s)]
      BY <1>6, <1>7, <2>2
    <3>5. g[s] = Total(f, s) /\ g[s \ {Any(s)}] = Total(f, s \ {Any(s)})
      BY <2>1
    <3> QED
      BY <3>2, <3>3, <3>4, <3>5
  <2>3. g = [s \in SUBSET E |-> IF s = {} THEN 0 ELSE g[s \ {Any(s)}] + in[Any(s)] - out[Any(s)]]
    BY <2>1, <2>2, TotalOfNothing
  <2> QED
    BY <2>3
<1>9. \E g : g = [s \in SUBSET E |-> IF s = {} THEN 0
                    ELSE g[s \ {Any(s)}] + CameIn(Any(s), m) - WentOut(Any(s), m)]
  BY <1>7, <1>8
<1>10. PICK g : /\ g = CHOOSE e : e = [s \in SUBSET E |-> IF s = {} THEN 0
                         ELSE e[s \ {Any(s)}] + CameIn(Any(s), m) - WentOut(Any(s), m)]
                /\ g = [s \in SUBSET E |-> IF s = {} THEN 0
                         ELSE g[s \ {Any(s)}] + CameIn(Any(s), m) - WentOut(Any(s), m)]
  BY <1>9
<1>11. AdminBalance(m) = g[E] + adjusted[m]
  BY <1>1, <1>10 DEF AdminBalance, FoldSet, MapThenFoldSet, Any, CameIn, WentOut
<1>12. ASSUME NEW s \in SUBSET E
       PROVE  /\ s = {} => g[s] = 0
              /\ s # {} /\ g[s \ {Any(s)}] \in Int => g[s] = f[Any(s)] + g[s \ {Any(s)}]
  <2>1. s = {} => g[s] = 0
    BY <1>10
  <2>2. ASSUME s # {}, g[s \ {Any(s)}] \in Int
        PROVE  g[s] = f[Any(s)] + g[s \ {Any(s)}]
    <3>1. g[s] = g[s \ {Any(s)}] + in[Any(s)] - out[Any(s)]
      BY <1>7, <1>10, <2>2
    <3>2. in[Any(s)] \in Int /\ out[Any(s)] \in Int /\ f[Any(s)] = in[Any(s)] - out[Any(s)]
      BY <1>6, <1>7, <2>2
    <3> QED
      BY <2>2, <3>1, <3>2
  <2> QED
    BY <2>1, <2>2
<1>13. g[E] = 0 + Total(f, E)
  <2>1. 0 \in Int
    OBVIOUS
  <2> QED
    BY ONLY <1>4, <1>5, <1>12, <2>1, FoldIsTotal
<1>14. HoursOf(To(transfers, m)) \in Nat /\ HoursOf(From(transfers, m)) \in Nat
  <2>1. To(transfers, m) \in SUBSET transfers /\ From(transfers, m) \in SUBSET transfers
    BY DEF To, From
  <2> QED
    BY <2>1, EntryFields
<1>15. adjusted[m] \in Int
  BY DEF PagesInv, IInv, TypeOK
<1> QED
  BY <1>4, <1>11, <1>13, <1>14, <1>15, BalanceOf

(* An entry for each completed hop a member made or fulfilled. *)
LEMMA EntriesAreHops ==
  ASSUME PagesInv, NEW m \in Members
  PROVE  Cardinality(BalanceEntries(m)) =
           HopsFulfilled(m) + Cardinality(RecentCompletedHops \cap ListRequestedHops(m))
<1>1. PICK E, done, made :
        /\ E = BalanceEntries(m)
        /\ done = {h \in RecentCompletedHops : matched[h] = m}
        /\ made = RecentCompletedHops \cap ListRequestedHops(m)
  OBVIOUS
<1>2. done \cup made = {h \in Having("completed") : m \in {creator[h], matched[h]}}
  BY <1>1 DEF RecentCompletedHops, ListRequestedHops, Having
<1>3. done \cap made = {}
  BY <1>1 DEF RecentCompletedHops, ListRequestedHops, Having, Rows, PagesInv, IInv,
              MatchAgreesWithStatus
<1>4. IsFiniteSet(done) /\ IsFiniteSet(made) /\ IsFiniteSet(E)
  BY <1>1, FiniteRows, EntryFields DEF RecentCompletedHops, Having, BalanceEntries
<1>5. PICK f : f = [t \in E |-> t.hop]
  OBVIOUS
<1>6. f \in [E -> done \cup made]
  BY <1>1, <1>2, <1>5, EntryFields DEF BalanceEntries
<1>7. \A t, u \in E : f[t] = f[u] => t = u
  BY <1>1, <1>5, EntryFields DEF BalanceEntries
<1>8. \A h \in done \cup made : \E t \in E : f[t] = h
  <2> TAKE h \in done \cup made
  <2>1. PICK t \in transfers : t.hop = h
    BY <1>2, EntryFields
  <2>2. t \in E
    BY <1>1, <1>2, <2>1, EntryFields DEF BalanceEntries
  <2> QED
    BY <1>5, <2>1, <2>2
<1>9. Cardinality(done \cup made) = Cardinality(E)
  BY ONLY <1>4, <1>6, <1>7, <1>8, SameCount
<1>10. Cardinality(done \cup made) = Cardinality(done) + Cardinality(made)
  BY ONLY <1>3, <1>4, CountsOfParts
<1> QED
  BY <1>1, <1>9, <1>10 DEF HopsFulfilled

LEMMA BadgeAgrees ==
  ASSUME PagesInv, NEW m \in Members
  PROVE  /\ BalanceState(Balance(m), policy) = "maxed" <=> "offer" \notin KindsOffered(m)
         /\ BalanceState(Balance(m), policy) = "minimum" => KindsOffered(m) = {"offer"}
<1>1. PICK b \in Int : b = Balance(m)
  BY BalanceIsInt DEF PagesInv, IInv
<1>2. /\ policy.min \in Int /\ policy.max \in Int /\ policy.start \in Int
      /\ policy.min < 0 /\ policy.max > 0 /\ policy.start > 0
  BY PoliciesAssumption DEF PagesInv, PolicyRecords, ValidPolicy
<1>3. "offer" \notin KindsOffered(m) <=> b >= policy.max
  BY <1>1, <1>2 DEF KindsOffered, Kinds, canCreateOffer
<1>4. "ask" \in KindsOffered(m) <=> b > policy.min
  BY <1>1, <1>2 DEF KindsOffered, Kinds, canCreateAsk
<1>5. BalanceState(b, policy) = "maxed" <=> b >= policy.max
  BY <1>1, <1>2 DEF BalanceState
<1>6. BalanceState(b, policy) = "minimum" => b <= policy.min /\ b < policy.max
  BY <1>1, <1>2 DEF BalanceState
<1>7. KindsOffered(m) \subseteq {"ask", "offer"}
  BY DEF KindsOffered, Kinds
<1>8. b <= policy.min /\ b < policy.max => KindsOffered(m) = {"offer"}
  BY <1>1, <1>2, <1>3, <1>4, <1>7
<1> QED
  BY <1>1, <1>3, <1>5, <1>6, <1>8

LEMMA BalancesDoAgree == PagesInv => BalancesAgree
<1> SUFFICES ASSUME PagesInv, NEW m \in Members
             PROVE  /\ BalanceAfterAll(m) = Balance(m) /\ AdminBalance(m) = Balance(m)
                    /\ Cardinality(BalanceEntries(m)) =
                         HopsFulfilled(m) + Cardinality(RecentCompletedHops \cap ListRequestedHops(m))
                    /\ BalanceEntries(m) # {} => m \in Participated
                    /\ BalanceState(Balance(m), policy) = "maxed" <=> "offer" \notin KindsOffered(m)
                    /\ BalanceState(Balance(m), policy) = "minimum" => KindsOffered(m) = {"offer"}
  BY DEF BalancesAgree
<1>1. BalanceEntries(m) # {} => m \in Participated
  BY EntryFields DEF BalanceEntries, Participated, Having
<1> QED
  BY <1>1, OverviewShowsBalance, AdministratorShowsBalance, EntriesAreHops, BadgeAgrees

-----------------------------------------------------------------------------
(***************************************************************************)
(* SUMS OVER MEMBERS, HOPS AND STATUSES.  Each MapThenSumSet of the pages is *)
(* the total of a function.                                                *)
(***************************************************************************)

LEMMA SumOfBalances ==
  ASSUME NEW f, f = [x \in Members |-> Balance(x)]
  PROVE  MapThenSumSet(Balance, Members) = Total(f, Members)
<1>1. PICK S : S = Members /\ IsFiniteSet(S)
  BY FiniteOrganization
<1>2. PICK sums : Sums(f, S, sums)
  BY <1>1, SumsExist
<1>3. \A s \in SUBSET S : s # {} => f[Any(s)] = Balance(Any(s))
  BY <1>1, AnyIsIn
<1>4. ASSUME NEW g
      PROVE  g = [s \in SUBSET S |->
                    IF s = {} THEN 0 ELSE Balance(Any(s)) + g[s \ {Any(s)}]]
               <=> Sums(f, S, g)
  BY <1>3 DEF Sums
<1>5. PICK g : /\ g = CHOOSE i : i = [s \in SUBSET S |->
                        IF s = {} THEN 0 ELSE Balance(Any(s)) + i[s \ {Any(s)}]]
               /\ Sums(f, S, g)
  BY <1>2, <1>4
<1>6. MapThenSumSet(Balance, S) = g[S]
  BY <1>5 DEF MapThenSumSet, MapThenFoldSet, Any
<1> QED
  BY <1>1, <1>5, <1>6, TotalIsSum

LEMMA SumOfAdjustments ==
  ASSUME NEW f, f = [x \in Members |-> adjusted[x]]
  PROVE  MapThenSumSet(LAMBDA m : adjusted[m], Members) = Total(f, Members)
<1>1. PICK S : S = Members /\ IsFiniteSet(S)
  BY FiniteOrganization
<1>2. PICK sums : Sums(f, S, sums)
  BY <1>1, SumsExist
<1>3. \A s \in SUBSET S : s # {} => f[Any(s)] = adjusted[Any(s)]
  BY <1>1, AnyIsIn
<1>4. ASSUME NEW g
      PROVE  g = [s \in SUBSET S |->
                    IF s = {} THEN 0 ELSE adjusted[Any(s)] + g[s \ {Any(s)}]]
               <=> Sums(f, S, g)
  BY <1>3 DEF Sums
<1>5. PICK g : /\ g = CHOOSE i : i = [s \in SUBSET S |->
                        IF s = {} THEN 0 ELSE adjusted[Any(s)] + i[s \ {Any(s)}]]
               /\ Sums(f, S, g)
  BY <1>2, <1>4
<1>6. MapThenSumSet(LAMBDA m : adjusted[m], S) = g[S]
  BY <1>5 DEF MapThenSumSet, MapThenFoldSet, Any
<1> QED
  BY <1>1, <1>5, <1>6, TotalIsSum

LEMMA SumOfAwards ==
  ASSUME NEW f, f = [x \in RecentCompletedHops |-> awarded[x]]
  PROVE  MapThenSumSet(LAMBDA h : awarded[h], RecentCompletedHops) = Total(f, RecentCompletedHops)
<1>1. PICK S : S = RecentCompletedHops /\ IsFiniteSet(S)
  BY FiniteRows DEF RecentCompletedHops, Having
<1>2. PICK sums : Sums(f, S, sums)
  BY <1>1, SumsExist
<1>3. \A s \in SUBSET S : s # {} => f[Any(s)] = awarded[Any(s)]
  BY <1>1, AnyIsIn
<1>4. ASSUME NEW g
      PROVE  g = [s \in SUBSET S |->
                    IF s = {} THEN 0 ELSE awarded[Any(s)] + g[s \ {Any(s)}]]
               <=> Sums(f, S, g)
  BY <1>3 DEF Sums
<1>5. PICK g : /\ g = CHOOSE i : i = [s \in SUBSET S |->
                        IF s = {} THEN 0 ELSE awarded[Any(s)] + i[s \ {Any(s)}]]
               /\ Sums(f, S, g)
  BY <1>2, <1>4
<1>6. MapThenSumSet(LAMBDA h : awarded[h], S) = g[S]
  BY <1>5 DEF MapThenSumSet, MapThenFoldSet, Any
<1> QED
  BY <1>1, <1>5, <1>6, TotalIsSum

LEMMA SumOfHopsMade ==
  ASSUME NEW f, f = [x \in Members |-> HopsMade(x)]
  PROVE  MapThenSumSet(HopsMade, Members) = Total(f, Members)
<1>1. PICK S : S = Members /\ IsFiniteSet(S)
  BY FiniteOrganization
<1>2. PICK sums : Sums(f, S, sums)
  BY <1>1, SumsExist
<1>3. \A s \in SUBSET S : s # {} => f[Any(s)] = HopsMade(Any(s))
  BY <1>1, AnyIsIn
<1>4. ASSUME NEW g
      PROVE  g = [s \in SUBSET S |->
                    IF s = {} THEN 0 ELSE HopsMade(Any(s)) + g[s \ {Any(s)}]]
               <=> Sums(f, S, g)
  BY <1>3 DEF Sums
<1>5. PICK g : /\ g = CHOOSE i : i = [s \in SUBSET S |->
                        IF s = {} THEN 0 ELSE HopsMade(Any(s)) + i[s \ {Any(s)}]]
               /\ Sums(f, S, g)
  BY <1>2, <1>4
<1>6. MapThenSumSet(HopsMade, S) = g[S]
  BY <1>5 DEF MapThenSumSet, MapThenFoldSet, Any
<1> QED
  BY <1>1, <1>5, <1>6, TotalIsSum

LEMMA SumOfHighlights ==
  ASSUME NEW view, NEW f, f = [x \in Members |-> myHopsHighlightCount(view, x)]
  PROVE  MapThenSumSet(LAMBDA m : myHopsHighlightCount(view, m), Members) = Total(f, Members)
<1>1. PICK S : S = Members /\ IsFiniteSet(S)
  BY FiniteOrganization
<1>2. PICK sums : Sums(f, S, sums)
  BY <1>1, SumsExist
<1>3. \A s \in SUBSET S : s # {} => f[Any(s)] = myHopsHighlightCount(view, Any(s))
  BY <1>1, AnyIsIn
<1>4. ASSUME NEW g
      PROVE  g = [s \in SUBSET S |->
                    IF s = {} THEN 0 ELSE myHopsHighlightCount(view, Any(s)) + g[s \ {Any(s)}]]
               <=> Sums(f, S, g)
  BY <1>3 DEF Sums
<1>5. PICK g : /\ g = CHOOSE i : i = [s \in SUBSET S |->
                        IF s = {} THEN 0 ELSE myHopsHighlightCount(view, Any(s)) + i[s \ {Any(s)}]]
               /\ Sums(f, S, g)
  BY <1>2, <1>4
<1>6. MapThenSumSet(LAMBDA m : myHopsHighlightCount(view, m), S) = g[S]
  BY <1>5 DEF MapThenSumSet, MapThenFoldSet, Any
<1> QED
  BY <1>1, <1>5, <1>6, TotalIsSum

LEMMA SumOfPendingOffers ==
  ASSUME NEW f, f = [x \in Rows |-> Cardinality(ListPendingHopOffers(x, creator[x]))]
  PROVE  MapThenSumSet(LAMBDA h : Cardinality(ListPendingHopOffers(h, creator[h])), Rows) = Total(f, Rows)
<1>1. PICK S : S = Rows /\ IsFiniteSet(S)
  BY FiniteRows
<1>2. PICK sums : Sums(f, S, sums)
  BY <1>1, SumsExist
<1>3. \A s \in SUBSET S : s # {} => f[Any(s)] = Cardinality(ListPendingHopOffers(Any(s), creator[Any(s)]))
  BY <1>1, AnyIsIn
<1>4. ASSUME NEW g
      PROVE  g = [s \in SUBSET S |->
                    IF s = {} THEN 0 ELSE Cardinality(ListPendingHopOffers(Any(s), creator[Any(s)])) + g[s \ {Any(s)}]]
               <=> Sums(f, S, g)
  BY <1>3 DEF Sums
<1>5. PICK g : /\ g = CHOOSE i : i = [s \in SUBSET S |->
                        IF s = {} THEN 0 ELSE Cardinality(ListPendingHopOffers(Any(s), creator[Any(s)])) + i[s \ {Any(s)}]]
               /\ Sums(f, S, g)
  BY <1>2, <1>4
<1>6. MapThenSumSet(LAMBDA h : Cardinality(ListPendingHopOffers(h, creator[h])), S) = g[S]
  BY <1>5 DEF MapThenSumSet, MapThenFoldSet, Any
<1> QED
  BY <1>1, <1>5, <1>6, TotalIsSum

LEMMA SumOfOffers ==
  ASSUME NEW f, f = [x \in Statuses |-> averageOffersPerHopStatus(x).offers]
  PROVE  MapThenSumSet(LAMBDA s : averageOffersPerHopStatus(s).offers, Statuses) = Total(f, Statuses)
<1>1. PICK S : S = Statuses /\ IsFiniteSet(S)
  BY FiniteEnumerations
<1>2. PICK sums : Sums(f, S, sums)
  BY <1>1, SumsExist
<1>3. \A s \in SUBSET S : s # {} => f[Any(s)] = averageOffersPerHopStatus(Any(s)).offers
  BY <1>1, AnyIsIn
<1>4. ASSUME NEW g
      PROVE  g = [s \in SUBSET S |->
                    IF s = {} THEN 0 ELSE averageOffersPerHopStatus(Any(s)).offers + g[s \ {Any(s)}]]
               <=> Sums(f, S, g)
  BY <1>3 DEF Sums
<1>5. PICK g : /\ g = CHOOSE i : i = [s \in SUBSET S |->
                        IF s = {} THEN 0 ELSE averageOffersPerHopStatus(Any(s)).offers + i[s \ {Any(s)}]]
               /\ Sums(f, S, g)
  BY <1>2, <1>4
<1>6. MapThenSumSet(LAMBDA s : averageOffersPerHopStatus(s).offers, S) = g[S]
  BY <1>5 DEF MapThenSumSet, MapThenFoldSet, Any
<1> QED
  BY <1>1, <1>5, <1>6, TotalIsSum

(* Hours that came in and hours that went out, over all members, are the    *)
(* hours of the ledger.                                                     *)
LEMMA HoursByMember ==
  ASSUME PagesInv,
         NEW in, in = [m \in Members |-> HoursOf(To(transfers, m))],
         NEW out, out = [m \in Members |-> HoursOf(From(transfers, m))]
  PROVE  Total(in, Members) = HoursOf(transfers) /\ Total(out, Members) = HoursOf(transfers)
<1>1. PICK units : units = HourUnits(transfers)
  OBVIOUS
<1>2. \A q \in units : q[1] \in transfers
  BY <1>1 DEF HourUnits
<1>3. PICK came, went : /\ came = [m \in Members |-> HourUnits(To(transfers, m))]
                        /\ went = [m \in Members |-> HourUnits(From(transfers, m))]
  OBVIOUS
<1>4. \A m \in Members : /\ came[m] = {q \in units : q[1].to = m}
                         /\ went[m] = {q \in units : q[1].from = m}
  BY <1>1, <1>3 DEF HourUnits, To, From
<1>5. \A m \in Members :
        /\ IsFiniteSet(came[m]) /\ in[m] = Cardinality(came[m])
        /\ IsFiniteSet(went[m]) /\ out[m] = Cardinality(went[m])
  <2> TAKE m \in Members
  <2>1. To(transfers, m) \in SUBSET transfers /\ From(transfers, m) \in SUBSET transfers
    BY DEF To, From
  <2>2. IsFiniteSet(came[m]) /\ IsFiniteSet(went[m])
    BY <1>3, <2>1, EntryFields
  <2> QED
    BY <1>3, <2>2 DEF HoursOf
<1>6. \A m, n \in Members : m # n => came[m] \cap came[n] = {} /\ went[m] \cap went[n] = {}
  BY <1>4
<1>7. Total(in, Members) = Cardinality(Grouped(came, Members))
  <2>1. \A m \in Members : IsFiniteSet(came[m]) /\ in[m] = Cardinality(came[m])
    BY <1>5
  <2>2. \A m, n \in Members : m # n => came[m] \cap came[n] = {}
    BY <1>6
  <2>3. IsFiniteSet(Members)
    BY FiniteOrganization
  <2> QED
    BY ONLY <2>1, <2>2, <2>3, CountByGroup
<1>8. Total(out, Members) = Cardinality(Grouped(went, Members))
  <2>1. \A m \in Members : IsFiniteSet(went[m]) /\ out[m] = Cardinality(went[m])
    BY <1>5
  <2>2. \A m, n \in Members : m # n => went[m] \cap went[n] = {}
    BY <1>6
  <2>3. IsFiniteSet(Members)
    BY FiniteOrganization
  <2> QED
    BY ONLY <2>1, <2>2, <2>3, CountByGroup
<1>9. \A q \in units : q[1].to \in Members /\ q[1].from \in Members
  BY <1>2, EntryFields
<1>10. Grouped(came, Members) = units /\ Grouped(went, Members) = units
  BY <1>4, <1>9 DEF Grouped
<1> QED
  BY <1>1, <1>7, <1>8, <1>10 DEF HoursOf

LEMMA HopsKeepHours ==
  ASSUME PagesInv
  PROVE  MapThenSumSet(Balance, Members) = MapThenSumSet(LAMBDA m : adjusted[m], Members)
<1>1. PICK M : M = Members /\ IsFiniteSet(M)
  BY FiniteOrganization
<1>2. PICK bal, adj, in, out, net :
        /\ bal = [m \in Members |-> Balance(m)]
        /\ adj = [m \in Members |-> adjusted[m]]
        /\ in = [m \in Members |-> HoursOf(To(transfers, m))]
        /\ out = [m \in Members |-> HoursOf(From(transfers, m))]
        /\ net = [m \in Members |-> HoursOf(To(transfers, m)) + adjusted[m]]
  OBVIOUS
<1>3. \A m \in M :
        /\ in[m] \in Int /\ out[m] \in Int /\ adj[m] \in Int /\ bal[m] \in Int
        /\ net[m] = in[m] + adj[m] /\ net[m] = bal[m] + out[m]
  <2> TAKE m \in M
  <2>1. To(transfers, m) \in SUBSET transfers /\ From(transfers, m) \in SUBSET transfers
    BY DEF To, From
  <2>2. PICK i \in Nat, o \in Nat : i = HoursOf(To(transfers, m)) /\ o = HoursOf(From(transfers, m))
    BY <2>1, EntryFields
  <2>3. adjusted[m] \in Int
    BY <1>1 DEF PagesInv, IInv, TypeOK
  <2>4. Balance(m) = i - o + adjusted[m]
    BY <2>2, BalanceOf
  <2> QED
    BY <1>1, <1>2, <2>2, <2>3, <2>4
<1>4. Total(net, M) = Total(in, M) + Total(adj, M)
  <2>1. \A m \in M : in[m] \in Int /\ adj[m] \in Int /\ net[m] = in[m] + adj[m]
    BY <1>3
  <2> QED
    BY ONLY <1>1, <2>1, TotalOfSums
<1>5. Total(net, M) = Total(bal, M) + Total(out, M)
  <2>1. \A m \in M : bal[m] \in Int /\ out[m] \in Int /\ net[m] = bal[m] + out[m]
    BY <1>3
  <2> QED
    BY ONLY <1>1, <2>1, TotalOfSums
<1>6. Total(in, M) = Total(out, M)
  BY <1>1, <1>2, HoursByMember
<1>7. Total(in, M) \in Int /\ Total(out, M) \in Int /\ Total(adj, M) \in Int /\ Total(bal, M) \in Int
  BY <1>1, <1>3, TotalIsInt
<1>8. Total(bal, M) = Total(adj, M)
  BY <1>4, <1>5, <1>6, <1>7
<1>9. MapThenSumSet(Balance, Members) = Total(bal, Members)
  BY <1>2, SumOfBalances
<1>10. MapThenSumSet(LAMBDA m : adjusted[m], Members) = Total(adj, Members)
  BY <1>2, SumOfAdjustments
<1> QED
  BY <1>1, <1>8, <1>9, <1>10

LEMMA ExchangedHours ==
  ASSUME PagesInv
  PROVE  TotalHoursExchanged = MapThenSumSet(LAMBDA h : awarded[h], RecentCompletedHops)
<1>1. PICK S : S = RecentCompletedHops /\ IsFiniteSet(S)
  BY FiniteRows DEF RecentCompletedHops, Having
<1>2. PICK f, rows, G :
        /\ f = [h \in RecentCompletedHops |-> awarded[h]]
        /\ rows = [h \in S |-> {t \in transfers : t.hop = h}]
        /\ G = [h \in S |-> HourUnits(rows[h])]
  OBVIOUS
<1>3. ASSUME NEW h \in S
      PROVE  IsFiniteSet(G[h]) /\ f[h] = Cardinality(G[h])
  <2>1. PICK t \in transfers : t.hop = h
    BY <1>1, <1>3, EntryFields DEF RecentCompletedHops
  <2>2. rows[h] = {} \cup {t} /\ t.hours = awarded[h] /\ t.hours \in Nat
    BY <1>2, <2>1, EntryFields
  <2>3. IsFiniteSet(HourUnits({})) /\ HoursOf({}) = 0
    BY HoursOfNothing, FS_EmptySet DEF HourUnits
  <2>4. /\ IsFiniteSet(HourUnits({} \cup {t}))
        /\ HoursOf({} \cup {t}) = HoursOf({}) + t.hours
    BY <2>2, <2>3, HoursOfOneMore
  <2>5. G[h] = HourUnits({} \cup {t}) /\ f[h] = t.hours
    BY <1>1, <1>2, <2>2
  <2>6. HoursOf({} \cup {t}) = t.hours
    BY <2>2, <2>3, <2>4
  <2> QED
    BY <2>4, <2>5, <2>6 DEF HoursOf
<1>4. \A h \in S : G[h] = {q \in HourUnits(transfers) : q[1].hop = h}
  BY <1>2 DEF HourUnits
<1>5. \A g, h \in S : g # h => G[g] \cap G[h] = {}
  BY <1>4
<1>6. Total(f, S) = Cardinality(Grouped(G, S))
  BY ONLY <1>1, <1>3, <1>5, CountByGroup
<1>7. \A q \in HourUnits(transfers) : q[1].hop \in S
  BY <1>1, EntryFields DEF HourUnits, RecentCompletedHops
<1>8. Grouped(G, S) = HourUnits(transfers)
  BY <1>4, <1>7 DEF Grouped
<1> QED
  BY <1>1, <1>2, <1>6, <1>8, SumOfAwards DEF TotalHoursExchanged, HoursOf

LEMMA HoursDoAgree == PagesInv => HoursAgree
  BY HopsKeepHours, ExchangedHours DEF HoursAgree

(* Things counted member by member, each with the member it belongs to. *)
LEMMA CountByMember ==
  ASSUME NEW Q, IsFiniteSet(Q), NEW of \in [Q -> Members], NEW f,
         \A m \in Members : f[m] = Cardinality({q \in Q : of[q] = m})
  PROVE  Total(f, Members) = Cardinality(Q)
<1>1. PICK S : S = Members /\ IsFiniteSet(S)
  BY FiniteOrganization
<1>2. PICK G : G = [m \in S |-> {q \in Q : of[q] = m}]
  OBVIOUS
<1>3. \A m \in S : IsFiniteSet(G[m]) /\ f[m] = Cardinality(G[m])
  BY <1>1, <1>2, FS_Subset
<1>4. \A m, n \in S : m # n => G[m] \cap G[n] = {}
  BY <1>2
<1>5. Total(f, S) = Cardinality(Grouped(G, S))
  BY ONLY <1>1, <1>3, <1>4, CountByGroup
<1>6. Grouped(G, S) = Q
  BY <1>1, <1>2 DEF Grouped
<1> QED
  BY <1>1, <1>5, <1>6

LEMMA RowsAddUp ==
  ASSUME PagesInv
  PROVE  /\ MapThenSumSet(HopsMade, Members) = Cardinality(Rows)
         /\ HighlightsOf("created") = PendingCount
         /\ HighlightsOf("matched") = CountOf("accepted")
<1> USE DEF PagesInv, IInv
<1>1. ASSUME NEW Q \in SUBSET Rows, NEW of \in [Q -> Members], NEW f,
             \A m \in Members : f[m] = Cardinality({q \in Q : of[q] = m})
      PROVE  Total(f, Members) = Cardinality(Q)
  <2>1. IsFiniteSet(Q)
    BY FiniteRows
  <2> QED
    BY ONLY <1>1, <2>1, CountByMember
<1>2. MapThenSumSet(HopsMade, Members) = Cardinality(Rows)
  <2>1. PICK f : f = [m \in Members |-> HopsMade(m)]
    OBVIOUS
  <2>2. PICK of : of = [h \in Rows |-> creator[h]]
    OBVIOUS
  <2>3. of \in [Rows -> Members]
    BY <2>2 DEF Rows, TypeOK
  <2>4. \A m \in Members : {q \in Rows : of[q] = m} = ListRequestedHops(m)
    BY <2>2 DEF ListRequestedHops
  <2>5. \A m \in Members : f[m] = Cardinality({q \in Rows : of[q] = m})
    BY <2>1, <2>4 DEF HopsMade
  <2> QED
    BY <1>1, <2>1, <2>3, <2>5, SumOfHopsMade
<1>3. HighlightsOf("created") = PendingCount
  <2>1. PICK f : f = [m \in Members |-> myHopsHighlightCount("created", m)]
    OBVIOUS
  <2>2. PICK Q \in SUBSET Rows : Q = {h \in Rows : status[h] \in LiveStatuses}
    OBVIOUS
  <2>3. PICK of : of = [h \in Q |-> creator[h]]
    OBVIOUS
  <2>4. of \in [Q -> Members]
    BY <2>2, <2>3 DEF Rows, TypeOK
  <2>5. ASSUME NEW m \in Members
        PROVE  f[m] = Cardinality({q \in Q : of[q] = m})
    <3>1. \A h \in ListRequestedHops(m) : ~HasPendingHopOffer(h, m)
      BY DEF ListRequestedHops, HasPendingHopOffer, OffersHaveHops, Rows
    <3>2. {h \in ListRequestedHops(m) : status[h] \in LiveStatuses \/ HasPendingHopOffer(h, m)}
            = {q \in Q : of[q] = m}
      BY <2>2, <2>3, <3>1 DEF ListRequestedHops
    <3> QED
      BY <2>1, <3>2 DEF myHopsHighlightCount
  <2>6. Total(f, Members) = Cardinality(Q)
    BY <1>1, <2>4, <2>5
  <2> QED
    BY <2>1, <2>2, <2>6, SumOfHighlights DEF HighlightsOf, PendingCount
<1>4. HighlightsOf("matched") = CountOf("accepted")
  <2>1. PICK f : f = [m \in Members |-> myHopsHighlightCount("matched", m)]
    OBVIOUS
  <2>2. PICK Q \in SUBSET Rows : Q = Having("accepted")
    BY DEF Having
  <2>3. PICK of : of = [h \in Q |-> matched[h]]
    OBVIOUS
  <2>4. of \in [Q -> Members]
    BY <2>2, <2>3 DEF Having, Rows, TypeOK, MatchAgreesWithStatus
  <2>5. ASSUME NEW m \in Members
        PROVE  f[m] = Cardinality({q \in Q : of[q] = m})
    <3>1. ListHelpedHops(m) \cap Having("accepted") = {q \in Q : of[q] = m}
      BY <2>2, <2>3 DEF ListHelpedHops
    <3> QED
      BY <2>1, <3>1 DEF myHopsHighlightCount
  <2>6. Total(f, Members) = Cardinality(Q)
    BY <1>1, <2>4, <2>5
  <2> QED
    BY <2>1, <2>2, <2>6, SumOfHighlights DEF HighlightsOf, CountOf
<1> QED
  BY <1>2, <1>3, <1>4

(* The pending offers on open hops, counted by the member that waits for an *)
(* answer and by the hop.                                                   *)
LEMMA WaitingAddUp ==
  ASSUME PagesInv
  PROVE  HighlightsOf("interested") =
           MapThenSumSet(LAMBDA h : Cardinality(ListPendingHopOffers(h, creator[h])), Rows)
<1> USE DEF PagesInv, IInv
<1>1. PICK P : P = {p \in Rows \X Members : status[p[1]] = "open" /\ HasPendingHopOffer(p[1], p[2])}
  OBVIOUS
<1>2. IsFiniteSet(P)
  <2>1. IsFiniteSet(Rows) /\ IsFiniteSet(Members)
    BY FiniteRows, FiniteOrganization
  <2>2. IsFiniteSet(Rows \X Members)
    BY <2>1, FS_Product, Zenon
  <2> QED
    BY <1>1, <2>2, FS_Subset
<1>3. PICK f : f = [m \in Members |-> myHopsHighlightCount("interested", m)]
  OBVIOUS
<1>4. Total(f, Members) = Cardinality(P)
  <2>1. PICK of : of = [p \in P |-> p[2]]
    OBVIOUS
  <2>2. of \in [P -> Members]
    BY <1>1, <2>1
  <2>3. ASSUME NEW m \in Members
        PROVE  f[m] = Cardinality({q \in P : of[q] = m})
    <3>1. PICK L, R : L = ListPendingOfferedHops(m) /\ R = {q \in P : of[q] = m}
      OBVIOUS
    <3>2. PICK e : e = [h \in L |-> <<h, m>>]
      OBVIOUS
    <3>3. \A h \in L : h \in Rows /\ status[h] = "open" /\ HasPendingHopOffer(h, m)
      BY <3>1 DEF ListPendingOfferedHops, PendingHopOfferIDs, Having
    <3>4. e \in [L -> R]
      BY <1>1, <2>1, <3>1, <3>2, <3>3
    <3>5. \A x, y \in L : e[x] = e[y] => x = y
      BY <3>2
    <3>6. \A z \in R : \E x \in L : e[x] = z
      BY <1>1, <2>1, <3>1, <3>2 DEF ListPendingOfferedHops, PendingHopOfferIDs, Having
    <3>7. IsFiniteSet(L)
      BY <3>1, FiniteRows DEF ListPendingOfferedHops, Having
    <3>8. Cardinality(R) = Cardinality(L)
      BY ONLY <3>4, <3>5, <3>6, <3>7, SameCount
    <3> QED
      BY <1>3, <3>1, <3>8 DEF myHopsHighlightCount
  <2> QED
    BY ONLY <1>2, <2>2, <2>3, CountByMember
<1>5. PICK g : g = [h \in Rows |-> Cardinality(ListPendingHopOffers(h, creator[h]))]
  OBVIOUS
<1>6. PICK S : S = Rows /\ IsFiniteSet(S)
  BY FiniteRows
<1>7. PICK G : G = [h \in S |-> {p \in P : p[1] = h}]
  OBVIOUS
<1>8. ASSUME NEW h \in S
      PROVE  IsFiniteSet(G[h]) /\ g[h] = Cardinality(G[h])
  <2>1. PICK L : L = ListPendingHopOffers(h, creator[h])
    OBVIOUS
  <2>2. PICK e : e = [m \in L |-> <<h, m>>]
    OBVIOUS
  <2>3. \A m \in Members : m \in L <=> status[h] = "open" /\ HasPendingHopOffer(h, m)
    BY <2>1 DEF ListPendingHopOffers
  <2>4. L \subseteq Members
    BY <2>1 DEF ListPendingHopOffers
  <2>5. e \in [L -> G[h]]
    BY <1>1, <1>6, <1>7, <2>2, <2>3, <2>4
  <2>6. \A x, y \in L : e[x] = e[y] => x = y
    BY <2>2
  <2>7. \A z \in G[h] : \E x \in L : e[x] = z
    BY <1>1, <1>7, <2>2, <2>3
  <2>8. IsFiniteSet(L)
    BY <2>4, FiniteMembers
  <2>9. IsFiniteSet(G[h]) /\ Cardinality(G[h]) = Cardinality(L)
    BY ONLY <2>5, <2>6, <2>7, <2>8, SameCount
  <2> QED
    BY <1>5, <1>6, <2>1, <2>9
<1>9. \A a, b \in S : a # b => G[a] \cap G[b] = {}
  BY <1>7
<1>10. Total(g, S) = Cardinality(Grouped(G, S))
  BY ONLY <1>6, <1>8, <1>9, CountByGroup
<1>11. Grouped(G, S) = P
  BY <1>1, <1>6, <1>7 DEF Grouped
<1>12. HighlightsOf("interested") = Total(f, Members)
  BY <1>3, SumOfHighlights DEF HighlightsOf
<1>13. MapThenSumSet(LAMBDA h : Cardinality(ListPendingHopOffers(h, creator[h])), Rows) = Total(g, Rows)
  BY <1>5, SumOfPendingOffers
<1> QED
  BY <1>4, <1>6, <1>10, <1>11, <1>12, <1>13

LEMMA OffersAddUp ==
  ASSUME PagesInv
  PROVE  MapThenSumSet(LAMBDA s : averageOffersPerHopStatus(s).offers, Statuses)
           = Cardinality(OffersOn(Hops))
<1> USE DEF PagesInv, IInv
<1>1. PICK f : f = [s \in Statuses |-> averageOffersPerHopStatus(s).offers]
  OBVIOUS
<1>2. PICK S : S = Statuses /\ IsFiniteSet(S)
  BY FiniteEnumerations
<1>3. PICK G : G = [s \in S |-> OffersOn(Having(s))]
  OBVIOUS
<1>4. \A s \in S : \A o \in G[s] : o \in OffersOn(Hops) /\ o[1] \in Rows /\ status[o[1]] = s
  BY <1>3 DEF OffersOn, Having, Rows
<1>5. IsFiniteSet(OffersOn(Hops))
  <2>1. IsFiniteSet(Hops \X Members)
    BY FiniteOrganization, FS_Product, Zenon
  <2> QED
    BY <2>1, FS_Subset DEF OffersOn
<1>6. \A s \in S : IsFiniteSet(G[s]) /\ f[s] = Cardinality(G[s])
  <2> TAKE s \in S
  <2>1. IsFiniteSet(G[s])
    BY <1>4, <1>5, FS_Subset
  <2> QED
    BY <1>1, <1>2, <1>3, <2>1 DEF averageOffersPerHopStatus
<1>7. \A a, b \in S : a # b => G[a] \cap G[b] = {}
  BY <1>4
<1>8. Total(f, S) = Cardinality(Grouped(G, S))
  BY ONLY <1>2, <1>6, <1>7, CountByGroup
<1>9. ASSUME NEW o \in OffersOn(Hops)
      PROVE  status[o[1]] \in S /\ o \in G[status[o[1]]]
  <2>1. o[1] \in Hops /\ o[2] \in Members /\ o = <<o[1], o[2]>> /\ offer[o[1]][o[2]] # "none"
    BY DEF OffersOn
  <2>2. o[1] \in Rows
    BY <2>1 DEF OffersHaveHops, Rows
  <2>3. status[o[1]] \in S
    BY <1>2, <2>1 DEF TypeOK
  <2> QED
    BY <1>3, <2>1, <2>2, <2>3 DEF OffersOn, Having
<1>10. Grouped(G, S) = OffersOn(Hops)
  BY <1>4, <1>9 DEF Grouped
<1> QED
  BY <1>1, <1>2, <1>8, <1>10, SumOfOffers

LEMMA ViewsDoAgree == PagesInv => ViewsAgree
  BY RowsAddUp, WaitingAddUp, OffersAddUp DEF ViewsAgree

LEMMA PagesInvNumbers == PagesInv => NumbersAgree
  BY BalancesDoAgree, HoursDoAgree, OverviewsDoAgree, ViewsDoAgree, MessagesDoAgree
     DEF NumbersAgree

(* The invariant the numbers follow from. *)
THEOREM PagesRely == Spec => []PagesInv
  BY InitPagesInv, NextPagesInv, PTL DEF Spec

(* Whatever two pages say of the same hops, members and hours agrees, though *)
(* each number is the answer of a query of its own: for any number of        *)
(* members and hops, any policies, and also when hops are taken directly.    *)
THEOREM PagesAgree == Spec => []NumbersAgree
  BY PagesRely, PagesInvNumbers, PTL
=============================================================================
