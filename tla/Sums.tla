-------------------------------- MODULE Sums --------------------------------
(***************************************************************************)
(* Facts about the sums of the community modules, and about quotient and   *)
(* remainder, for the proofs about accounts.                               *)
(*                                                                         *)
(* A sum is a fold, a function defined by recursion over the subsets of a  *)
(* finite set.  The library's induction theorems have an operator as a     *)
(* parameter; NatFromZero and BySubsets state the same for a set G of the  *)
(* numbers or subsets that have the property, from the theorem that a      *)
(* well-founded relation has minimal elements.                             *)
(***************************************************************************)
EXTENDS Naturals, Integers, FiniteSets, Functions,
        WellFoundedInduction, FiniteSetTheorems, TLAPS

-----------------------------------------------------------------------------
(* Induction *)

\* The order of the numbers, as a relation.
Less == {ss \in Nat \X Nat : ss[1] < ss[2]}

LEMMA LessWellFounded == IsWellFoundedOn(Less, Nat)
BY NatLessThanWellFounded DEF OpToRel, Less

\* Induction over the numbers, for a set instead of a predicate.
LEMMA NatFromZero ==
    ASSUME NEW G, 0 \in G, \A n \in Nat : n \in G => n + 1 \in G
    PROVE  Nat \subseteq G
<1> DEFINE T == Nat \ G
<1> SUFFICES ASSUME T # {} PROVE FALSE
  OBVIOUS
<1>1. PICK m \in T : \A k \in T : <<k, m>> \notin Less
  <2>1. T \subseteq Nat
    OBVIOUS
  <2> HIDE DEF T
  <2>. QED BY <2>1, LessWellFounded, WFMin
<1>2. m # 0 /\ m - 1 \in Nat /\ m - 1 \notin G
  OBVIOUS
<1>3. <<m - 1, m>> \in Less
  BY <1>2 DEF Less
<1>. QED BY <1>1, <1>2, <1>3

\* ... and over the subsets of a finite set.
LEMMA BySubsets ==
    ASSUME NEW S, IsFiniteSet(S), NEW G, {} \in G,
           \A s \in SUBSET S : s # {} /\ (\A x \in s : s \ {x} \in G) => s \in G
    PROVE  \A s \in SUBSET S : s \in G
<1> DEFINE T == (SUBSET S) \ G
<1> SUFFICES ASSUME T # {} PROVE FALSE
  OBVIOUS
<1>1. PICK s \in T : \A r \in T : <<r, s>> \notin StrictSubsetOrdering(S)
  <2>1. T \subseteq FiniteSubsetsOf(S)
    BY FS_FiniteSubsetsOfFinite
  <2> HIDE DEF T
  <2>. QED BY <2>1, FS_StrictSubsetOrderingWellFounded, WFMin
<1>2. ASSUME NEW x \in s
      PROVE  s \ {x} \in G
  <2>1. <<s \ {x}, s>> \in StrictSubsetOrdering(S)
    BY DEF StrictSubsetOrdering
  <2>. QED BY <1>1, <2>1
<1>. QED BY <1>1, <1>2

-----------------------------------------------------------------------------
(* Sums *)

\* Any element of a set, the one the folds choose.
Pick(s) == CHOOSE x \in s : TRUE

\* What the fold's recursive function says of the sets it is defined for.
Adds(g, sets, it) ==
    it = [s \in sets |-> IF s = {} THEN 0 ELSE g[Pick(s)] + it[s \ {Pick(s)}]]

\* The sum is a recursive function on the subsets of its indices.
LEMMA SumIsFold ==
    ASSUME NEW g, NEW S
    PROVE  SumFunctionOnSet(g, S) = (CHOOSE it : Adds(g, SUBSET S, it))[S]
BY DEF SumFunctionOnSet, FoldFunctionOnSet, MapThenFoldSet, Pick, Adds

\* There is such a function, since the subsets can be dealt with in the order of their sizes ...
LEMMA SumExists ==
    ASSUME NEW g, NEW S, IsFiniteSet(S)
    PROVE  \E it : Adds(g, SUBSET S, it)
<1> DEFINE Upto(n) == {s \in SUBSET S : Cardinality(s) <= n}
           H == {n \in Nat : \E it : Adds(g, Upto(n), it)}
<1>1. \A s \in SUBSET S : IsFiniteSet(s) /\ Cardinality(s) \in Nat
  BY FS_Subset, FS_CardinalityType
<1>2. 0 \in H
  <2> DEFINE it == [s \in Upto(0) |-> 0]
  <2>1. \A s \in Upto(0) : s = {}
    BY <1>1, FS_EmptySet
  <2>2. it = [s \in Upto(0) |-> IF s = {} THEN 0 ELSE g[Pick(s)] + it[s \ {Pick(s)}]]
    BY <2>1
  <2>. QED BY <2>2 DEF Adds
<1>3. ASSUME NEW n \in Nat, n \in H
      PROVE  n + 1 \in H
  <2>1. PICK it : Adds(g, Upto(n), it)
    BY <1>3
  <2> DEFINE more == [s \in Upto(n + 1) |->
                        IF s = {} THEN 0 ELSE g[Pick(s)] + it[s \ {Pick(s)}]]
  <2>2. \A s \in Upto(n) : s \in Upto(n + 1) /\ more[s] = it[s]
    <3> SUFFICES ASSUME NEW s \in Upto(n)
                 PROVE  s \in Upto(n + 1) /\ more[s] = it[s]
      OBVIOUS
    <3>1. s \in Upto(n + 1)
      BY <1>1
    <3>2. it[s] = IF s = {} THEN 0 ELSE g[Pick(s)] + it[s \ {Pick(s)}]
      <4> HIDE DEF Upto
      <4>. QED BY <2>1 DEF Adds
    <3> HIDE DEF Upto
    <3>. QED BY <3>1, <3>2
  <2>3. \A s \in Upto(n + 1) : s # {} => s \ {Pick(s)} \in Upto(n)
    <3> SUFFICES ASSUME NEW s \in Upto(n + 1), s # {}
                 PROVE  s \ {Pick(s)} \in Upto(n)
      OBVIOUS
    <3>1. Pick(s) \in s
      BY DEF Pick
    <3>2. Cardinality(s \ {Pick(s)}) = Cardinality(s) - 1
      BY <1>1, <3>1, FS_RemoveElement
    <3>3. Cardinality(s) \in Nat /\ Cardinality(s) <= n + 1
      BY <1>1
    <3>. QED BY <3>2, <3>3
  <2>4. more = [s \in Upto(n + 1) |->
                  IF s = {} THEN 0 ELSE g[Pick(s)] + more[s \ {Pick(s)}]]
    BY <2>2, <2>3
  <2>5. Adds(g, Upto(n + 1), more)
    BY <2>4 DEF Adds
  <2> HIDE DEF Upto
  <2>6. \E other : Adds(g, Upto(n + 1), other)
    BY <2>5
  <2>. QED BY <2>6
<1>4. Nat \subseteq H
  <2> HIDE DEF H
  <2>. QED BY <1>2, <1>3, NatFromZero
<1>5. SUBSET S = Upto(Cardinality(S))
  <2>1. \A s \in SUBSET S : Cardinality(s) <= Cardinality(S)
    BY FS_Subset
  <2>. QED BY <2>1
<1>6. Cardinality(S) \in H
  BY <1>1, <1>4
<1>. QED BY <1>5, <1>6

\* ... and what it says of a set does not depend on what else it is defined for.
LEMMA SumSame ==
    ASSUME NEW g, NEW S, NEW R \in SUBSET S, IsFiniteSet(R), NEW it, NEW other,
           Adds(g, SUBSET S, it), Adds(g, SUBSET R, other)
    PROVE  it[R] = other[R]
<1> DEFINE G == {s \in SUBSET R : it[s] = other[s]}
<1>1. ASSUME NEW s \in SUBSET R
      PROVE  /\ it[s] = IF s = {} THEN 0 ELSE g[Pick(s)] + it[s \ {Pick(s)}]
             /\ other[s] = IF s = {} THEN 0 ELSE g[Pick(s)] + other[s \ {Pick(s)}]
  BY DEF Adds
<1>2. {} \in G
  BY <1>1
<1>3. ASSUME NEW s \in SUBSET R, s # {}, \A x \in s : s \ {x} \in G
      PROVE  s \in G
  BY <1>1, <1>3 DEF Pick
<1> HIDE DEF G
<1>4. \A s \in SUBSET R : s # {} /\ (\A x \in s : s \ {x} \in G) => s \in G
  BY <1>3
<1>5. \A s \in SUBSET R : s \in G
  BY ONLY IsFiniteSet(R), <1>2, <1>4, BySubsets
<1>. QED BY <1>5 DEF G

\* So a sum is its first element and the sum of the others.
LEMMA SumUnfolds ==
    ASSUME NEW g, NEW S, IsFiniteSet(S)
    PROVE  SumFunctionOnSet(g, S) =
              IF S = {} THEN 0 ELSE g[Pick(S)] + SumFunctionOnSet(g, S \ {Pick(S)})
<1> DEFINE it == CHOOSE it : Adds(g, SUBSET S, it)
           R == S \ {Pick(S)}
           other == CHOOSE other : Adds(g, SUBSET R, other)
<1>1. IsFiniteSet(R) /\ R \in SUBSET S
  BY FS_Subset
<1>2. Adds(g, SUBSET S, it)
  BY SumExists
<1>3. Adds(g, SUBSET R, other)
  BY <1>1, SumExists
<1>4. SumFunctionOnSet(g, S) = it[S] /\ SumFunctionOnSet(g, R) = other[R]
  BY SumIsFold
<1> HIDE DEF it, other
<1>5. it[S] = IF S = {} THEN 0 ELSE g[Pick(S)] + it[R]
  BY <1>2 DEF Adds
<1>6. it[R] = other[R]
  BY <1>1, <1>2, <1>3, SumSame
<1>. QED BY <1>4, <1>5, <1>6

\* Numbers add up to a number.
LEMMA SumNat ==
    ASSUME NEW g, NEW S, IsFiniteSet(S), \A x \in S : g[x] \in Nat
    PROVE  SumFunctionOnSet(g, S) \in Nat
<1> DEFINE G == {s \in SUBSET S : SumFunctionOnSet(g, s) \in Nat}
<1>1. \A s \in SUBSET S : IsFiniteSet(s)
  BY FS_Subset
<1>2. {} \in G
  <2>1. SumFunctionOnSet(g, {}) = 0
    BY <1>1, SumUnfolds
  <2>. QED BY <2>1
<1>3. ASSUME NEW s \in SUBSET S, s # {}, \A x \in s : s \ {x} \in G
      PROVE  s \in G
  <2>1. Pick(s) \in s
    BY <1>3 DEF Pick
  <2>2. g[Pick(s)] \in Nat /\ SumFunctionOnSet(g, s \ {Pick(s)}) \in Nat
    BY <1>3, <2>1
  <2>3. SumFunctionOnSet(g, s) = g[Pick(s)] + SumFunctionOnSet(g, s \ {Pick(s)})
    BY <1>1, <1>3, SumUnfolds
  <2>. QED BY <2>2, <2>3
<1> HIDE DEF G
<1>4. \A s \in SUBSET S : s # {} /\ (\A x \in s : s \ {x} \in G) => s \in G
  BY <1>3
<1>5. \A s \in SUBSET S : s \in G
  BY ONLY IsFiniteSet(S), <1>2, <1>4, BySubsets
<1>. QED BY <1>5 DEF G

\* Any element can be the first.
LEMMA SumRemove ==
    ASSUME NEW g, NEW S, IsFiniteSet(S), \A i \in S : g[i] \in Nat, NEW x \in S
    PROVE  SumFunctionOnSet(g, S) = g[x] + SumFunctionOnSet(g, S \ {x})
<1> DEFINE G == {s \in SUBSET S : \A y \in s :
                    SumFunctionOnSet(g, s) = g[y] + SumFunctionOnSet(g, s \ {y})}
<1>1. \A s \in SUBSET S : IsFiniteSet(s) /\ SumFunctionOnSet(g, s) \in Nat
  BY FS_Subset, SumNat
<1>2. {} \in G
  OBVIOUS
<1>3. ASSUME NEW s \in SUBSET S, s # {}, \A y \in s : s \ {y} \in G
      PROVE  s \in G
  <2> SUFFICES ASSUME NEW y \in s
               PROVE  SumFunctionOnSet(g, s) = g[y] + SumFunctionOnSet(g, s \ {y})
    OBVIOUS
  <2> DEFINE z == Pick(s)
             rest == (s \ {z}) \ {y}
  <2>1. z \in s
    BY DEF Pick
  <2>2. SumFunctionOnSet(g, s) = g[z] + SumFunctionOnSet(g, s \ {z})
    BY <1>1, SumUnfolds
  <2>3. CASE y # z
    <3>1. SumFunctionOnSet(g, s \ {z}) = g[y] + SumFunctionOnSet(g, rest)
      BY <1>3, <2>1, <2>3
    <3>2. rest = (s \ {y}) \ {z}
      OBVIOUS
    <3>3. SumFunctionOnSet(g, s \ {y}) = g[z] + SumFunctionOnSet(g, rest)
      <4> HIDE DEF z, rest
      <4>. QED BY <1>3, <2>1, <2>3, <3>2
    <3>4. g[y] \in Nat /\ g[z] \in Nat /\ SumFunctionOnSet(g, rest) \in Nat
      BY <1>1, <2>1
    <3> HIDE DEF z, rest
    <3>. QED BY <2>2, <3>1, <3>3, <3>4
  <2>. QED BY <2>2, <2>3
<1> HIDE DEF G
<1>4. \A s \in SUBSET S : s # {} /\ (\A y \in s : s \ {y} \in G) => s \in G
  BY <1>3
<1>5. \A s \in SUBSET S : s \in G
  BY ONLY IsFiniteSet(S), <1>2, <1>4, BySubsets
<1>. QED BY <1>5 DEF G

\* Only the values at the indices count.
LEMMA SumAlike ==
    ASSUME NEW g, NEW h, NEW S, IsFiniteSet(S), \A x \in S : g[x] = h[x]
    PROVE  SumFunctionOnSet(g, S) = SumFunctionOnSet(h, S)
<1> DEFINE G == {s \in SUBSET S : SumFunctionOnSet(g, s) = SumFunctionOnSet(h, s)}
<1>1. \A s \in SUBSET S : IsFiniteSet(s)
  BY FS_Subset
<1>2. {} \in G
  BY <1>1, SumUnfolds
<1>3. ASSUME NEW s \in SUBSET S, s # {}, \A x \in s : s \ {x} \in G
      PROVE  s \in G
  <2>1. Pick(s) \in s
    BY <1>3 DEF Pick
  <2>2. SumFunctionOnSet(g, s \ {Pick(s)}) = SumFunctionOnSet(h, s \ {Pick(s)})
    BY <1>3, <2>1
  <2>3. /\ SumFunctionOnSet(g, s) = g[Pick(s)] + SumFunctionOnSet(g, s \ {Pick(s)})
        /\ SumFunctionOnSet(h, s) = h[Pick(s)] + SumFunctionOnSet(h, s \ {Pick(s)})
    BY <1>1, <1>3, SumUnfolds
  <2>. QED BY <2>1, <2>2, <2>3
<1> HIDE DEF G
<1>4. \A s \in SUBSET S : s # {} /\ (\A x \in s : s \ {x} \in G) => s \in G
  BY <1>3
<1>5. \A s \in SUBSET S : s \in G
  BY ONLY IsFiniteSet(S), <1>2, <1>4, BySubsets
<1>. QED BY <1>5 DEF G

\* Sums are added index by index.
LEMMA SumPlus ==
    ASSUME NEW g, NEW h, NEW k, NEW S, IsFiniteSet(S),
           \A x \in S : g[x] \in Nat /\ h[x] \in Nat /\ k[x] = g[x] + h[x]
    PROVE  SumFunctionOnSet(k, S) = SumFunctionOnSet(g, S) + SumFunctionOnSet(h, S)
<1> DEFINE G == {s \in SUBSET S :
                    SumFunctionOnSet(k, s) = SumFunctionOnSet(g, s) + SumFunctionOnSet(h, s)}
<1>1. \A s \in SUBSET S : /\ IsFiniteSet(s)
                          /\ SumFunctionOnSet(g, s) \in Nat
                          /\ SumFunctionOnSet(h, s) \in Nat
  BY FS_Subset, SumNat
<1>2. {} \in G
  <2>1. IsFiniteSet({})
    BY <1>1
  <2>2. \A f : SumFunctionOnSet(f, {}) = 0
    BY <2>1, SumUnfolds
  <2>. QED BY <2>2
<1>3. ASSUME NEW s \in SUBSET S, s # {}, \A x \in s : s \ {x} \in G
      PROVE  s \in G
  <2> DEFINE z == Pick(s)
             r == s \ {z}
  <2>1. z \in s /\ r \in SUBSET S
    BY <1>3 DEF Pick
  <2>2. SumFunctionOnSet(k, r) = SumFunctionOnSet(g, r) + SumFunctionOnSet(h, r)
    BY <1>3, <2>1
  <2>3. /\ SumFunctionOnSet(g, s) = g[z] + SumFunctionOnSet(g, r)
        /\ SumFunctionOnSet(h, s) = h[z] + SumFunctionOnSet(h, r)
        /\ SumFunctionOnSet(k, s) = k[z] + SumFunctionOnSet(k, r)
    BY <1>1, <1>3, SumUnfolds
  <2>4. /\ SumFunctionOnSet(g, r) \in Nat
        /\ SumFunctionOnSet(h, r) \in Nat
        /\ g[z] \in Nat /\ h[z] \in Nat /\ k[z] = g[z] + h[z]
    BY <1>1, <2>1
  <2> HIDE DEF z, r
  <2>5. SumFunctionOnSet(k, s) = SumFunctionOnSet(g, s) + SumFunctionOnSet(h, s)
    BY <2>2, <2>3, <2>4
  <2>. QED BY <2>5
<1> HIDE DEF G
<1>4. \A s \in SUBSET S : s # {} /\ (\A x \in s : s \ {x} \in G) => s \in G
  BY <1>3
<1>5. \A s \in SUBSET S : s \in G
  BY ONLY IsFiniteSet(S), <1>2, <1>4, BySubsets
<1>. QED BY <1>5 DEF G

\* Nothing adds up to nothing.
LEMMA SumZero ==
    ASSUME NEW g, NEW S, IsFiniteSet(S), \A x \in S : g[x] = 0
    PROVE  SumFunctionOnSet(g, S) = 0
<1>1. SumFunctionOnSet(g, S) = SumFunctionOnSet(g, S) + SumFunctionOnSet(g, S)
  BY SumPlus
<1>2. SumFunctionOnSet(g, S) \in Nat
  BY SumNat
<1> DEFINE n == SumFunctionOnSet(g, S)
<1>3. n \in Nat /\ n = n + n
  BY <1>1, <1>2
<1> HIDE DEF n
<1>4. n = 0
  BY ONLY <1>3
<1>. QED BY <1>4 DEF n

\* One value among zeros.
LEMMA SumOne ==
    ASSUME NEW g, NEW S, IsFiniteSet(S), NEW a \in S, g[a] \in Nat, \A x \in S \ {a} : g[x] = 0
    PROVE  SumFunctionOnSet(g, S) = g[a]
<1>1. IsFiniteSet(S \ {a}) /\ \A x \in S : g[x] \in Nat
  BY FS_Subset
<1>2. SumFunctionOnSet(g, S \ {a}) = 0
  BY <1>1, SumZero
<1>3. SumFunctionOnSet(g, S) = g[a] + SumFunctionOnSet(g, S \ {a})
  BY <1>1, SumRemove
<1>. QED BY <1>2, <1>3

\* A sum is that of a part and that of the rest.
LEMMA SumSplit ==
    ASSUME NEW g, NEW S, IsFiniteSet(S), \A x \in S : g[x] \in Nat, NEW R \in SUBSET S
    PROVE  SumFunctionOnSet(g, S) = SumFunctionOnSet(g, R) + SumFunctionOnSet(g, S \ R)
<1> DEFINE G == {s \in SUBSET R :
                    SumFunctionOnSet(g, S) = SumFunctionOnSet(g, s) + SumFunctionOnSet(g, S \ s)}
<1>1. \A s \in SUBSET S : IsFiniteSet(s) /\ SumFunctionOnSet(g, s) \in Nat
  BY FS_Subset, SumNat
<1>2. {} \in G
  <2>1. SumFunctionOnSet(g, {}) = 0 /\ S \ {} = S
    BY <1>1, SumUnfolds
  <2>. QED BY <1>1, <2>1
<1>3. ASSUME NEW s \in SUBSET R, s # {}, \A x \in s : s \ {x} \in G
      PROVE  s \in G
  <2>1. PICK x \in s : TRUE
    BY <1>3
  <2> DEFINE r == s \ {x}
  <2>2. /\ SumFunctionOnSet(g, S) = SumFunctionOnSet(g, r) + SumFunctionOnSet(g, S \ r)
        /\ r \in SUBSET S
    BY <1>3
  <2>3. SumFunctionOnSet(g, s) = g[x] + SumFunctionOnSet(g, r)
    BY <1>1, SumRemove
  <2>4. SumFunctionOnSet(g, S \ r) = g[x] + SumFunctionOnSet(g, S \ s)
    <3>1. (S \ r) \ {x} = S \ s
      OBVIOUS
    <3>2. x \in S \ r /\ IsFiniteSet(S \ r) /\ \A y \in S \ r : g[y] \in Nat
      BY <1>1
    <3> HIDE DEF r
    <3>. QED BY <3>1, <3>2, SumRemove
  <2>5. /\ SumFunctionOnSet(g, r) \in Nat /\ SumFunctionOnSet(g, S \ s) \in Nat
        /\ g[x] \in Nat
    BY <1>1, <2>2
  <2> HIDE DEF r
  <2>6. SumFunctionOnSet(g, S) = SumFunctionOnSet(g, s) + SumFunctionOnSet(g, S \ s)
    BY <2>2, <2>3, <2>4, <2>5
  <2>. QED BY <2>6
<1> HIDE DEF G
<1>4. \A s \in SUBSET R : s # {} /\ (\A x \in s : s \ {x} \in G) => s \in G
  BY <1>3
<1>5. IsFiniteSet(R)
  BY <1>1
<1>6. \A s \in SUBSET R : s \in G
  BY ONLY <1>2, <1>4, <1>5, BySubsets
<1>. QED BY <1>6 DEF G

\* Values that are first added up by groups add up to the same.
LEMMA SumRegrouped ==
    ASSUME NEW g, NEW R, IsFiniteSet(R), \A u \in R : g[u] \in Nat,
           NEW T, IsFiniteSet(T), NEW k, \A u \in R : k[u] \in T
    PROVE  SumFunctionOnSet([t \in T |-> SumFunctionOnSet(g, {u \in R : k[u] = t})], T)
              = SumFunctionOnSet(g, R)
<1> DEFINE Of(s, t) == {u \in s : k[u] = t}
           h(s) == [t \in T |-> SumFunctionOnSet(g, Of(s, t))]
           G == {s \in SUBSET R : SumFunctionOnSet(h(s), T) = SumFunctionOnSet(g, s)}
<1>1. \A s \in SUBSET R : IsFiniteSet(s) /\ SumFunctionOnSet(g, s) \in Nat
  BY FS_Subset, SumNat
<1>2. {} \in G
  <2>1. SumFunctionOnSet(g, {}) = 0
    BY <1>1, SumUnfolds
  <2>2. \A t \in T : h({})[t] = 0
    <3>1. \A t \in T : Of({}, t) = {}
      OBVIOUS
    <3> HIDE DEF Of
    <3>. QED BY <2>1, <3>1
  <2>3. SumFunctionOnSet(h({}), T) = 0
    <3> HIDE DEF h
    <3>. QED BY <2>2, SumZero
  <2>. QED BY <2>1, <2>3
<1>3. ASSUME NEW s \in SUBSET R, s # {}, \A x \in s : s \ {x} \in G
      PROVE  s \in G
  <2>1. PICK x \in s : TRUE
    BY <1>3
  <2> DEFINE r == s \ {x}
             one == [t \in T |-> IF t = k[x] THEN g[x] ELSE 0]
  <2>2. SumFunctionOnSet(h(r), T) = SumFunctionOnSet(g, r)
    BY <1>3
  <2>3. SumFunctionOnSet(g, s) = g[x] + SumFunctionOnSet(g, r)
    BY <1>1, SumRemove
  <2>4. ASSUME NEW t \in T
        PROVE  h(r)[t] \in Nat /\ one[t] \in Nat /\ h(s)[t] = h(r)[t] + one[t]
    <3>1. Of(r, t) \in SUBSET R /\ Of(s, t) \in SUBSET R
      OBVIOUS
    <3>2. SumFunctionOnSet(g, Of(r, t)) \in Nat
      BY <1>1, <3>1
    <3>3. CASE t = k[x]
      <4>1. x \in Of(s, t) /\ Of(s, t) \ {x} = Of(r, t)
        BY <3>3
      <4>2. IsFiniteSet(Of(s, t)) /\ \A u \in Of(s, t) : g[u] \in Nat
        BY <1>1, <3>1
      <4>3. SumFunctionOnSet(g, Of(s, t)) = g[x] + SumFunctionOnSet(g, Of(r, t))
        <5> HIDE DEF Of, r
        <5>1. SumFunctionOnSet(g, Of(s, t)) = g[x] + SumFunctionOnSet(g, Of(s, t) \ {x})
          BY ONLY <4>1, <4>2, SumRemove
        <5>. QED BY <4>1, <5>1
      <4>4. g[x] \in Nat
        OBVIOUS
      <4> HIDE DEF Of, r
      <4>. QED BY <3>2, <3>3, <4>3, <4>4
    <3>4. CASE t # k[x]
      <4>1. Of(s, t) = Of(r, t)
        BY <3>4
      <4> HIDE DEF Of, r
      <4>. QED BY <3>2, <3>4, <4>1
    <3>. QED BY <3>3, <3>4
  <2>5. SumFunctionOnSet(h(s), T) = SumFunctionOnSet(h(r), T) + SumFunctionOnSet(one, T)
    <3> HIDE DEF h, one, r
    <3>. QED BY <2>4, SumPlus
  <2>6. SumFunctionOnSet(one, T) = g[x]
    <3>1. k[x] \in T /\ one[k[x]] = g[x] /\ g[x] \in Nat /\ \A t \in T \ {k[x]} : one[t] = 0
      OBVIOUS
    <3> HIDE DEF one
    <3>. QED BY <3>1, SumOne
  <2>7. g[x] \in Nat /\ SumFunctionOnSet(g, r) \in Nat
    BY <1>1
  <2> HIDE DEF h, one, r
  <2>8. SumFunctionOnSet(h(s), T) = SumFunctionOnSet(g, s)
    BY <2>2, <2>3, <2>5, <2>6, <2>7
  <2>. QED BY <2>8
<1> HIDE DEF G
<1>4. \A s \in SUBSET R : s # {} /\ (\A x \in s : s \ {x} \in G) => s \in G
  BY <1>3
<1>5. \A s \in SUBSET R : s \in G
  BY ONLY IsFiniteSet(R), <1>2, <1>4, BySubsets
<1>. QED BY <1>5 DEF G

-----------------------------------------------------------------------------
(* Quotients *)

\* Quotient and remainder.
LEMMA Euclid ==
    ASSUME NEW n \in Nat, NEW d \in Nat \ {0}
    PROVE  /\ n \div d \in Nat
           /\ n % d \in 0..d-1
           /\ n = d * (n \div d) + (n % d)
OBVIOUS
LEMMA Divided ==
    ASSUME NEW n \in Nat, NEW d \in Nat \ {0}
    PROVE  \E q \in Nat, r \in Nat : r < d /\ r <= n /\ r = n % d /\ n = d * q + r
<1> DEFINE q == n \div d
           r == n % d
<1>1. q \in Nat /\ r \in Nat /\ r < d /\ n = d * q + r
  BY Euclid
<1>2. r <= n
  OBVIOUS
<1> HIDE DEF q
<1>. QED BY <1>1, <1>2

\* Multiples are at least the divisor apart ...
LEMMA Grow ==
    ASSUME NEW d \in Nat \ {0}, NEW a \in Int, NEW b \in Int, a < b
    PROVE  d * a + d <= d * b
<1>1. PICK k \in Nat : b = a + 1 + k
  <2>1. b - a - 1 \in Nat
   OBVIOUS
  <2> QED BY <2>1
<1>2. d * b = d * a + d + d * k
  BY <1>1
<1>3. d * k \in Nat
  OBVIOUS
<1>. QED BY <1>2, <1>3
\* ... so that there is one remainder.
LEMMA EuclidUnique ==
    ASSUME NEW d \in Nat \ {0}, NEW q \in Nat, NEW r \in Nat, r < d
    PROVE  (d * q + r) % d = r
<1> DEFINE n == d * q + r
<1>1. n \in Nat
  OBVIOUS
<1>2. /\ n \div d \in Nat
      /\ n % d \in 0..d-1
      /\ n = d * (n \div d) + (n % d)
  BY <1>1, Euclid
<1> DEFINE z == n \div d
       s == n % d
<1>3. d * z + s = d * q + r /\ z \in Nat /\ s \in Nat /\ s < d
  BY <1>2
<1> HIDE DEF z, s
<1>4. d * z \in Nat /\ d * q \in Nat
  BY <1>3
<1>5. ~(z < q)
  BY <1>3, <1>4, Grow
<1>6. ~(q < z)
  BY <1>3, <1>4, Grow
<1>7. z = q
  BY <1>5, <1>6, <1>3
<1>. QED BY <1>3, <1>7, <1>4 DEF s

=============================================================================
