-------------------------- MODULE Retrieval_proofs --------------------------
(***************************************************************************)
(* Proofs about module Retrieval, for any chunks, queries, filters, limits *)
(* and images: only passages the filters admit reach the prompt, the fusion*)
(* is fair, the floor judges by the best evidence and the prompt fits.     *)
(***************************************************************************)
EXTENDS Retrieval, FiniteSetTheorems, WellFoundedInduction, TLAPS

-----------------------------------------------------------------------------
(* Sums over finite sets.                                                   *)

\* A set of numbers that is not empty has a least one.
LEMMA NatMin ==
  ASSUME NEW T, T \subseteq Nat, T # {}
  PROVE  \E n \in T : \A k \in T : n <= k
<1> DEFINE R == {ss \in Nat \X Nat : ss[1] < ss[2]}
<1>1. IsWellFoundedOn(R, Nat)
  BY NatLessThanWellFounded DEF OpToRel
<1> HIDE DEF R
<1>2. PICK n \in T : \A k \in T : ~(<<k, n>> \in R)
  BY <1>1, WFMin
<1>3. \A k \in T : ~(k < n)
  BY <1>2 DEF R
<1> QED BY <1>2, <1>3

\* The sum over a set is a fold, which takes its elements in some order.
Total(f, S) == SumFunctionOnSet(f, S)

One(s) == CHOOSE k \in s : TRUE

Folds(f, g, D) == g = [s \in D |-> IF s = {} THEN 0 ELSE f[One(s)] + g[s \ {One(s)}]]

\* A set that is not empty has the element One chooses.
LEMMA OneOf == ASSUME NEW s, s # {} PROVE One(s) \in s
BY DEF One

\* The library's sum is a choice among the functions that fold.
LEMMA SumIsFold == ASSUME NEW f, NEW S PROVE Total(f, S) = (CHOOSE g : Folds(f, g, SUBSET S))[S]
BY Zenon DEF Total, SumFunctionOnSet, FoldFunctionOnSet, MapThenFoldSet, Folds, One

\* One element less.
LEMMA Smaller ==
  ASSUME NEW S, IsFiniteSet(S), NEW s \in SUBSET S, NEW k \in s
  PROVE  /\ s \ {k} \in SUBSET S /\ IsFiniteSet(s) /\ IsFiniteSet(s \ {k})
         /\ Cardinality(s) \in Nat /\ Cardinality(s \ {k}) \in Nat
         /\ Cardinality(s \ {k}) = Cardinality(s) - 1
<1>1. IsFiniteSet(s)
  BY FS_Subset
<1>2. IsFiniteSet(s \ {k}) /\ Cardinality(s \ {k}) = Cardinality(s) - 1
  BY <1>1, FS_RemoveElement
<1> QED BY <1>1, <1>2, FS_CardinalityType

\* There is such a function: a finite set has no smallest part without one.
LEMMA FoldExists == ASSUME NEW f, NEW S, IsFiniteSet(S) PROVE \E g : Folds(f, g, SUBSET S)
<1> DEFINE D(n) == {s \in SUBSET S : Cardinality(s) <= n}
           Bad == {n \in Nat : ~ \E g : Folds(f, g, D(n))}
<1>0. \A s \in SUBSET S : IsFiniteSet(s) /\ Cardinality(s) \in Nat
  BY FS_Subset, FS_CardinalityType
<1>1. 0 \notin Bad
  <2>1. \A s \in D(0) : s = {}
    BY <1>0, FS_EmptySet
  <2>2. Folds(f, [s \in D(0) |-> 0], D(0))
    BY <2>1 DEF Folds
  <2> QED BY <2>2
<1>2. ASSUME NEW n \in Nat, n \notin Bad PROVE n + 1 \notin Bad
  <2>1. PICK g : Folds(f, g, D(n))
    BY <1>2
  <2>2. PICK h : h = [s \in D(n + 1) |-> IF s = {} THEN 0 ELSE f[One(s)] + g[s \ {One(s)}]]
    OBVIOUS
  <2>3. \A s \in D(n) : g[s] = IF s = {} THEN 0 ELSE f[One(s)] + g[s \ {One(s)}]
    BY <2>1, Zenon DEF Folds
  <2>4. \A s \in D(n) : s \in D(n + 1) /\ h[s] = g[s]
    BY <1>0, <2>2, <2>3
  <2>5. \A s \in D(n + 1) : s # {} => s \ {One(s)} \in D(n)
    <3> SUFFICES ASSUME NEW s \in D(n + 1), s # {} PROVE s \ {One(s)} \in D(n)
      OBVIOUS
    <3>1. PICK k \in s : k = One(s)
      BY OneOf
    <3>2. s \in SUBSET S /\ Cardinality(s) <= n + 1
      OBVIOUS
    <3>3. s \ {k} \in SUBSET S /\ Cardinality(s \ {k}) <= n
      BY <3>2, Smaller
    <3> QED BY <3>1, <3>3
  <2>6. Folds(f, h, D(n + 1))
    <3> HIDE DEF D
    <3>1. \A s \in D(n + 1) : s # {} => h[s \ {One(s)}] = g[s \ {One(s)}]
      BY <2>4, <2>5
    <3> QED BY <2>2, <3>1 DEF Folds
  <2> QED BY <2>6
<1>3. Bad = {}
  <2> SUFFICES ASSUME Bad # {} PROVE FALSE
    OBVIOUS
  <2>1. PICK n \in Bad : \A k \in Bad : n <= k
    BY NatMin, Bad \subseteq Nat
  <2>2. n \in Nat /\ n # 0
    BY <1>1
  <2>3. n - 1 \in Nat /\ n - 1 \notin Bad /\ n - 1 + 1 = n
    <3> HIDE DEF Bad
    <3> QED BY <2>1, <2>2
  <2> QED BY <1>2, <2>3
<1>4. Cardinality(S) \in Nat
  BY <1>0
<1>5. SUBSET S = D(Cardinality(S))
  BY <1>0, FS_Subset
<1> QED BY <1>3, <1>4, <1>5

\* What is summed does not depend on the set it is a part of.
LEMMA FoldUnique ==
  ASSUME NEW f, NEW S, IsFiniteSet(S), NEW T \in SUBSET S
  PROVE  \A g, h : Folds(f, g, SUBSET S) /\ Folds(f, h, SUBSET T) => g[T] = h[T]
<1> SUFFICES ASSUME NEW g, Folds(f, g, SUBSET S), NEW h, Folds(f, h, SUBSET T)
             PROVE  g[T] = h[T]
  OBVIOUS
<1> DEFINE Bad == {n \in Nat : \E s \in SUBSET T : Cardinality(s) = n /\ g[s] # h[s]}
<1>0. IsFiniteSet(T)
  BY FS_Subset
<1>1. \A s \in SUBSET T : /\ g[s] = IF s = {} THEN 0 ELSE f[One(s)] + g[s \ {One(s)}]
                          /\ h[s] = IF s = {} THEN 0 ELSE f[One(s)] + h[s \ {One(s)}]
  <2>1. \A s \in SUBSET S : g[s] = IF s = {} THEN 0 ELSE f[One(s)] + g[s \ {One(s)}]
    BY Zenon DEF Folds
  <2>2. \A s \in SUBSET T : h[s] = IF s = {} THEN 0 ELSE f[One(s)] + h[s \ {One(s)}]
    BY Zenon DEF Folds
  <2>3. SUBSET T \subseteq SUBSET S
    OBVIOUS
  <2> QED BY <2>1, <2>2, <2>3
<1>2. Bad = {}
  <2> SUFFICES ASSUME Bad # {} PROVE FALSE
    OBVIOUS
  <2>1. PICK n \in Bad : \A k \in Bad : n <= k
    BY NatMin, Bad \subseteq Nat
  <2>2. PICK s \in SUBSET T : Cardinality(s) = n /\ g[s] # h[s]
    BY <2>1
  <2>3. s # {}
    BY <1>1, <2>2
  <2>4. PICK t \in SUBSET T : t = s \ {One(s)} /\ Cardinality(t) \in Nat /\ Cardinality(t) < n
    <3>1. PICK k \in s : k = One(s)
      BY <2>3, OneOf
    <3> HIDE DEF Bad
    <3>2. /\ s \ {k} \in SUBSET T /\ Cardinality(s) \in Nat /\ Cardinality(s \ {k}) \in Nat
          /\ Cardinality(s \ {k}) = Cardinality(s) - 1
      BY <1>0, Smaller
    <3>3. Cardinality(s \ {k}) < n
      BY <2>2, <3>2
    <3> QED BY <3>1, <3>2, <3>3
  <2>5. Cardinality(t) \notin Bad
    <3> HIDE DEF Bad
    <3>1. n \in Nat
      BY <2>1 DEF Bad
    <3> QED BY <2>1, <2>4, <3>1
  <2>6. g[t] = h[t]
    BY <2>4, <2>5
  <2> QED BY <1>1, <2>2, <2>3, <2>4, <2>6
<1>3. Cardinality(T) \in Nat
  BY <1>0, FS_CardinalityType
<1> QED BY <1>2, <1>3

\* The sum takes One element out, and sums the rest.
LEMMA SumUnfold ==
  ASSUME NEW f, NEW S, IsFiniteSet(S)
  PROVE  Total(f, S) = IF S = {} THEN 0 ELSE f[One(S)] + Total(f, S \ {One(S)})
<1>1. \A T \in SUBSET S : \E g : Folds(f, g, SUBSET T) /\ Total(f, T) = g[T]
  <2> SUFFICES ASSUME NEW T \in SUBSET S PROVE \E g : Folds(f, g, SUBSET T) /\ Total(f, T) = g[T]
    OBVIOUS
  <2>1. \E g : Folds(f, g, SUBSET T)
    BY FS_Subset, FoldExists
  <2> QED BY <2>1, SumIsFold
<1>2. PICK g : Folds(f, g, SUBSET S) /\ Total(f, S) = g[S]
  BY <1>1
<1>3. g[S] = IF S = {} THEN 0 ELSE f[One(S)] + g[S \ {One(S)}]
  <2>1. \A s \in SUBSET S : g[s] = IF s = {} THEN 0 ELSE f[One(s)] + g[s \ {One(s)}]
    BY <1>2, Zenon DEF Folds
  <2> QED BY <2>1
<1>4. g[S \ {One(S)}] = Total(f, S \ {One(S)})
  <2>1. PICK T \in SUBSET S : T = S \ {One(S)}
    OBVIOUS
  <2>2. PICK h : Folds(f, h, SUBSET T) /\ Total(f, T) = h[T]
    BY <1>1
  <2>3. g[T] = h[T]
    <3>1. Folds(f, g, SUBSET S) /\ Folds(f, h, SUBSET T)
      BY <1>2, <2>2
    <3>2. \A u, v : Folds(f, u, SUBSET S) /\ Folds(f, v, SUBSET T) => u[T] = v[T]
      BY FoldUnique
    <3> QED BY <3>1, <3>2
  <2> QED BY <2>1, <2>2, <2>3
<1> QED BY <1>2, <1>3, <1>4

\* A sum of naturals is a natural.
LEMMA SumType ==
  ASSUME NEW f, NEW S, IsFiniteSet(S), \A x \in S : f[x] \in Nat
  PROVE  Total(f, S) \in Nat
<1> DEFINE Bad == {n \in Nat : \E s \in SUBSET S : Cardinality(s) = n /\ Total(f, s) \notin Nat}
<1>1. Bad = {}
  <2> SUFFICES ASSUME Bad # {} PROVE FALSE
    OBVIOUS
  <2>1. PICK n \in Bad : \A k \in Bad : n <= k
    BY NatMin, Bad \subseteq Nat
  <2>2. PICK s \in SUBSET S : Cardinality(s) = n /\ Total(f, s) \notin Nat
    BY <2>1
  <2>3. IsFiniteSet(s)
    BY FS_Subset
  <2>4. s # {} /\ Total(f, s) = f[One(s)] + Total(f, s \ {One(s)})
    BY <2>2, <2>3, SumUnfold
  <2>5. One(s) \in s /\ f[One(s)] \in Nat
    BY <2>4, OneOf
  <2>6. PICK t \in SUBSET S : t = s \ {One(s)} /\ Cardinality(t) \in Nat /\ Cardinality(t) < n
    <3>1. One(s) \in s
      BY <2>5
    <3> HIDE DEF Bad
    <3>2. PICK k \in s : k = One(s)
      BY <3>1
    <3>3. /\ s \ {k} \in SUBSET S /\ Cardinality(s) \in Nat /\ Cardinality(s \ {k}) \in Nat
          /\ Cardinality(s \ {k}) = Cardinality(s) - 1
      BY Smaller
    <3>4. Cardinality(s \ {k}) < n
      BY <2>2, <3>3
    <3> QED BY <3>2, <3>3, <3>4
  <2>7. Cardinality(t) \notin Bad
    <3>1. n \in Nat
      OBVIOUS
    <3> HIDE DEF Bad
    <3> QED BY <2>1, <2>6, <3>1
  <2> QED BY <2>2, <2>4, <2>5, <2>6, <2>7
<1> QED BY <1>1, FS_CardinalityType

\* Nothing sums to zero.
LEMMA SumOfNone == ASSUME NEW f PROVE Total(f, {}) = 0
BY FS_EmptySet, SumUnfold

\* Any element may be taken first.
LEMMA SumRemove ==
  ASSUME NEW f, NEW S, IsFiniteSet(S), \A x \in S : f[x] \in Nat, NEW k \in S
  PROVE  Total(f, S) = f[k] + Total(f, S \ {k})
<1> DEFINE Ok(s) == \A j \in s : Total(f, s) = f[j] + Total(f, s \ {j})
           Bad == {n \in Nat : \E s \in SUBSET S : Cardinality(s) = n /\ ~Ok(s)}
<1>1. Bad = {}
  <2> SUFFICES ASSUME Bad # {} PROVE FALSE
    OBVIOUS
  <2>1. PICK n \in Bad : \A i \in Bad : n <= i
    BY NatMin, Bad \subseteq Nat
  <2>2. PICK s \in SUBSET S : Cardinality(s) = n /\ ~Ok(s)
    BY <2>1
  <2>3. PICK j \in s : Total(f, s) # f[j] + Total(f, s \ {j})
    BY <2>2
  <2>4. PICK c \in s : Total(f, s) = f[c] + Total(f, s \ {c})
    BY FS_Subset, OneOf, SumUnfold
  <2>5. ASSUME NEW i \in s PROVE Ok(s \ {i})
    <3>1. s \ {i} \in SUBSET S /\ Cardinality(s \ {i}) \in Nat /\ Cardinality(s \ {i}) < n
      <4> HIDE DEF Bad, Ok
      <4>1. /\ s \ {i} \in SUBSET S /\ Cardinality(s) \in Nat /\ Cardinality(s \ {i}) \in Nat
            /\ Cardinality(s \ {i}) = Cardinality(s) - 1
        BY <2>5, Smaller
      <4> QED BY <2>2, <4>1
    <3>2. n \in Nat
      OBVIOUS
    <3>3. Cardinality(s \ {i}) \notin Bad
      <4> HIDE DEF Bad
      <4> QED BY <2>1, <3>1, <3>2
    <3> QED BY <3>1, <3>3
  <2>6. c # j
    BY <2>3, <2>4
  <2>7. Total(f, s \ {c}) = f[j] + Total(f, (s \ {c}) \ {j})
    BY <2>5, <2>6
  <2>8. Total(f, s \ {j}) = f[c] + Total(f, (s \ {j}) \ {c})
    BY <2>5, <2>6
  <2>9. (s \ {j}) \ {c} = (s \ {c}) \ {j}
    OBVIOUS
  <2>10. PICK x \in Nat : x = Total(f, (s \ {c}) \ {j})
    BY FS_Subset, SumType
  <2>11. f[c] \in Nat /\ f[j] \in Nat
    OBVIOUS
  <2>12. Total(f, s \ {c}) = f[j] + x /\ Total(f, s \ {j}) = f[c] + x
    BY <2>7, <2>8, <2>9, <2>10
  <2> QED BY <2>3, <2>4, <2>11, <2>12
<1>2. Cardinality(S) \in Nat /\ S \in SUBSET S
  BY FS_CardinalityType
<1>3. Ok(S)
  <2> HIDE DEF Ok
  <2> QED BY <1>1, <1>2
<1> QED BY <1>3

\* A sum grows with what is summed.
LEMMA SumMono ==
  ASSUME NEW f, NEW g, NEW S, IsFiniteSet(S),
         \A x \in S : f[x] \in Nat /\ g[x] \in Nat /\ f[x] <= g[x]
  PROVE  Total(f, S) <= Total(g, S)
<1> DEFINE Ok(s) == Total(f, s) <= Total(g, s)
           Bad == {n \in Nat : \E s \in SUBSET S : Cardinality(s) = n /\ ~Ok(s)}
<1>1. Bad = {}
  <2> SUFFICES ASSUME Bad # {} PROVE FALSE
    OBVIOUS
  <2>1. PICK n \in Bad : \A i \in Bad : n <= i
    BY NatMin, Bad \subseteq Nat
  <2>2. PICK s \in SUBSET S : Cardinality(s) = n /\ ~Ok(s)
    BY <2>1
  <2>3. s # {}
    BY <2>2, SumOfNone
  <2>4. PICK k \in s : TRUE
    BY <2>3
  <2>5. /\ s \ {k} \in SUBSET S /\ IsFiniteSet(s) /\ IsFiniteSet(s \ {k})
        /\ Cardinality(s) \in Nat /\ Cardinality(s \ {k}) \in Nat
        /\ Cardinality(s \ {k}) = Cardinality(s) - 1
    <3> HIDE DEF Bad, Ok
    <3> QED BY Smaller
  <2>6. n \in Nat
    OBVIOUS
  <2>7. Cardinality(s \ {k}) \notin Bad
    <3> HIDE DEF Bad
    <3> QED BY <2>1, <2>2, <2>5, <2>6
  <2>8. Ok(s \ {k})
    <3> HIDE DEF Ok
    <3> QED BY <2>5, <2>7
  <2>9. Total(f, s) = f[k] + Total(f, s \ {k}) /\ Total(g, s) = g[k] + Total(g, s \ {k})
    <3>1. \A x \in s : f[x] \in Nat /\ g[x] \in Nat
      OBVIOUS
    <3> QED BY <2>5, <3>1, SumRemove
  <2>10. PICK a \in Nat, b \in Nat : a = Total(f, s \ {k}) /\ b = Total(g, s \ {k})
    <3>1. \A x \in s \ {k} : f[x] \in Nat /\ g[x] \in Nat
      OBVIOUS
    <3> QED BY <2>5, <3>1, SumType
  <2>11. f[k] \in Nat /\ g[k] \in Nat /\ f[k] <= g[k]
    OBVIOUS
  <2> HIDE DEF Bad
  <2> QED BY <2>2, <2>8, <2>9, <2>10, <2>11
<1>2. Cardinality(S) \in Nat /\ S \in SUBSET S
  BY FS_CardinalityType
<1>3. Ok(S)
  <2> HIDE DEF Ok
  <2> QED BY <1>1, <1>2
<1> QED BY <1>3

\* Sums of the same values are equal.
LEMMA SumEqual ==
  ASSUME NEW f, NEW g, NEW S, IsFiniteSet(S), \A x \in S : f[x] \in Nat /\ f[x] = g[x]
  PROVE  Total(f, S) = Total(g, S)
<1>1. \A x \in S : f[x] \in Nat /\ g[x] \in Nat /\ f[x] <= g[x] /\ g[x] <= f[x]
  OBVIOUS
<1>2. Total(f, S) <= Total(g, S) /\ Total(g, S) <= Total(f, S)
  BY <1>1, SumMono
<1>3. Total(f, S) \in Nat /\ Total(g, S) \in Nat
  BY <1>1, SumType
<1> QED BY <1>2, <1>3

\* A sum with one smaller value, and no larger one, is smaller.
LEMMA SumLess ==
  ASSUME NEW f, NEW g, NEW S, IsFiniteSet(S), NEW k \in S, f[k] < g[k],
         \A x \in S : f[x] \in Nat /\ g[x] \in Nat /\ f[x] <= g[x]
  PROVE  Total(f, S) < Total(g, S)
<1>1. IsFiniteSet(S \ {k})
  BY FS_RemoveElement
<1>2. \A x \in S \ {k} : f[x] \in Nat /\ g[x] \in Nat /\ f[x] <= g[x]
  OBVIOUS
<1>3. Total(f, S) = f[k] + Total(f, S \ {k}) /\ Total(g, S) = g[k] + Total(g, S \ {k})
  BY SumRemove
<1>4. PICK a \in Nat, b \in Nat : a = Total(f, S \ {k}) /\ b = Total(g, S \ {k})
  BY <1>1, <1>2, SumType
<1>5. a <= b
  BY <1>1, <1>2, <1>4, SumMono
<1>6. f[k] \in Nat /\ g[k] \in Nat
  OBVIOUS
<1> QED BY <1>3, <1>4, <1>5, <1>6

\* Zeros sum to zero.
LEMMA SumOfZeros ==
  ASSUME NEW f, NEW S, IsFiniteSet(S), \A x \in S : f[x] \in Nat /\ f[x] = 0
  PROVE  Total(f, S) = 0
<1> DEFINE Bad == {n \in Nat : \E s \in SUBSET S : Cardinality(s) = n /\ Total(f, s) # 0}
<1>1. Bad = {}
  <2> SUFFICES ASSUME Bad # {} PROVE FALSE
    OBVIOUS
  <2>1. PICK n \in Bad : \A i \in Bad : n <= i
    BY NatMin, Bad \subseteq Nat
  <2>2. PICK s \in SUBSET S : Cardinality(s) = n /\ Total(f, s) # 0
    BY <2>1
  <2>3. PICK k \in s : TRUE
    BY <2>2, SumOfNone
  <2>4. n \in Nat
    OBVIOUS
  <2> HIDE DEF Bad
  <2>5. /\ s \ {k} \in SUBSET S /\ IsFiniteSet(s) /\ Cardinality(s) \in Nat
        /\ Cardinality(s \ {k}) \in Nat /\ Cardinality(s \ {k}) = Cardinality(s) - 1
    BY Smaller
  <2>6. Cardinality(s \ {k}) \notin Bad
    BY <2>1, <2>2, <2>4, <2>5
  <2>7. Total(f, s \ {k}) = 0
    BY <2>5, <2>6 DEF Bad
  <2>8. Total(f, s) = f[k] + Total(f, s \ {k})
    <3>1. \A x \in s : f[x] \in Nat
      OBVIOUS
    <3> QED BY <2>5, <3>1, SumRemove
  <2>9. f[k] = 0
    OBVIOUS
  <2> QED BY <2>2, <2>7, <2>8, <2>9
<1>2. Cardinality(S) \in Nat /\ S \in SUBSET S
  BY FS_CardinalityType
<1> QED BY <1>1, <1>2

\* Sums of the same values, each equally often, are equal.
Having(f, S, v) == {x \in S : f[x] = v}

LEMMA SumByCount ==
  ASSUME NEW f, NEW g, NEW S, NEW T, IsFiniteSet(S), IsFiniteSet(T),
         \A x \in S : f[x] \in Nat, \A x \in T : g[x] \in Nat,
         \A v \in Nat \ {0} : Cardinality(Having(f, S, v)) = Cardinality(Having(g, T, v))
  PROVE  Total(f, S) = Total(g, T)
<1> DEFINE Same(s, t) == \A v \in Nat \ {0} : Cardinality(Having(f, s, v)) = Cardinality(Having(g, t, v))
           Bad == {n \in Nat : \E s \in SUBSET S, t \in SUBSET T :
                      Cardinality(s) = n /\ Same(s, t) /\ Total(f, s) # Total(g, t)}
<1>1. Bad = {}
  <2> SUFFICES ASSUME Bad # {} PROVE FALSE
    OBVIOUS
  <2>1. PICK n \in Bad : \A i \in Bad : n <= i
    BY NatMin, Bad \subseteq Nat
  <2>2. PICK s \in SUBSET S, t \in SUBSET T :
           Cardinality(s) = n /\ Same(s, t) /\ Total(f, s) # Total(g, t)
    BY <2>1
  <2>3. n \in Nat
    OBVIOUS
  <2>4. /\ IsFiniteSet(s) /\ IsFiniteSet(t)
        /\ \A v : IsFiniteSet(Having(f, s, v)) /\ IsFiniteSet(Having(g, t, v))
    <3>1. IsFiniteSet(s) /\ IsFiniteSet(t)
      BY FS_Subset
    <3>2. \A v : Having(f, s, v) \in SUBSET s /\ Having(g, t, v) \in SUBSET t
      BY DEF Having
    <3> QED BY <3>1, <3>2, FS_Subset
  <2> HIDE DEF Bad, Same
  <2>5. ASSUME NEW x \in s, f[x] # 0 PROVE FALSE
    <3>1. PICK v \in Nat \ {0} : v = f[x]
      BY <2>5
    <3>2. Having(f, s, v) # {}
      BY <3>1 DEF Having
    <3>3. Cardinality(Having(g, t, v)) # 0
      BY <2>2, <2>4, <3>2, FS_EmptySet DEF Same
    <3>4. PICK y \in t : g[y] = v
      BY <3>3, FS_EmptySet DEF Having
    <3>5. /\ s \ {x} \in SUBSET S /\ IsFiniteSet(s \ {x})
          /\ Cardinality(s) \in Nat /\ Cardinality(s \ {x}) \in Nat
          /\ Cardinality(s \ {x}) = Cardinality(s) - 1
      BY Smaller
    <3>6. t \ {y} \in SUBSET T /\ IsFiniteSet(t \ {y})
      BY <2>4, FS_RemoveElement
    <3>7. Same(s \ {x}, t \ {y})
      <4> SUFFICES ASSUME NEW w \in Nat \ {0}
                   PROVE  Cardinality(Having(f, s \ {x}, w)) = Cardinality(Having(g, t \ {y}, w))
        BY DEF Same
      <4>1. CASE w = v
        <5>1. Having(f, s \ {x}, w) = Having(f, s, v) \ {x} /\ x \in Having(f, s, v)
          BY <3>1, <4>1 DEF Having
        <5>2. Having(g, t \ {y}, w) = Having(g, t, v) \ {y} /\ y \in Having(g, t, v)
          BY <3>4, <4>1 DEF Having
        <5>3. Cardinality(Having(f, s, v) \ {x}) = Cardinality(Having(f, s, v)) - 1
          <6>1. PICK H : H = Having(f, s, v)
            OBVIOUS
          <6>2. IsFiniteSet(H) /\ x \in H
            BY <2>4, <5>1, <6>1
          <6>3. Cardinality(H \ {x}) = Cardinality(H) - 1
            BY <6>2, FS_RemoveElement
          <6> QED BY <6>1, <6>3
        <5>4. Cardinality(Having(g, t, v) \ {y}) = Cardinality(Having(g, t, v)) - 1
          <6>1. PICK H : H = Having(g, t, v)
            OBVIOUS
          <6>2. IsFiniteSet(H) /\ y \in H
            BY <2>4, <5>2, <6>1
          <6>3. Cardinality(H \ {y}) = Cardinality(H) - 1
            BY <6>2, FS_RemoveElement
          <6> QED BY <6>1, <6>3
        <5>5. Cardinality(Having(f, s, v)) = Cardinality(Having(g, t, v))
          BY <2>2 DEF Same
        <5> QED BY <5>1, <5>2, <5>3, <5>4, <5>5
      <4>2. CASE w # v
        <5>1. Having(f, s \ {x}, w) = Having(f, s, w)
          BY <3>1, <4>2 DEF Having
        <5>2. Having(g, t \ {y}, w) = Having(g, t, w)
          BY <3>4, <4>2 DEF Having
        <5> QED BY <2>2, <5>1, <5>2 DEF Same
      <4> QED BY <4>1, <4>2
    <3>8. Cardinality(s \ {x}) \notin Bad
      BY <2>1, <2>2, <2>3, <3>5
    <3>9. Total(f, s \ {x}) = Total(g, t \ {y})
      BY <3>5, <3>6, <3>7, <3>8 DEF Bad
    <3>10. Total(f, s) = f[x] + Total(f, s \ {x})
      <4>1. \A z \in s : f[z] \in Nat
        OBVIOUS
      <4> QED BY <2>4, <4>1, SumRemove
    <3>11. Total(g, t) = g[y] + Total(g, t \ {y})
      <4>1. \A z \in t : g[z] \in Nat
        OBVIOUS
      <4> QED BY <2>4, <4>1, SumRemove
    <3> QED BY <2>2, <3>1, <3>4, <3>9, <3>10, <3>11
  <2>6. ASSUME NEW y \in t, g[y] # 0 PROVE FALSE
    <3>1. PICK v \in Nat \ {0} : v = g[y]
      BY <2>6
    <3>2. Having(g, t, v) # {}
      BY <3>1 DEF Having
    <3>3. Cardinality(Having(f, s, v)) # 0
      BY <2>2, <2>4, <3>2, FS_EmptySet DEF Same
    <3>4. PICK x \in s : f[x] = v
      BY <3>3, FS_EmptySet DEF Having
    <3> QED BY <2>5, <3>1, <3>4
  <2>7. Total(f, s) = 0 /\ Total(g, t) = 0
    <3>1. \A x \in s : f[x] \in Nat /\ f[x] = 0
      BY <2>5
    <3>2. \A y \in t : g[y] \in Nat /\ g[y] = 0
      BY <2>6
    <3> QED BY <2>4, <3>1, <3>2, SumOfZeros
  <2> QED BY <2>2, <2>7
<1>2. Cardinality(S) \in Nat /\ S \in SUBSET S /\ T \in SUBSET T
  BY FS_CardinalityType
<1>3. Same(S, T)
  OBVIOUS
<1> HIDE DEF Same
<1> QED BY <1>1, <1>2, <1>3

-----------------------------------------------------------------------------
(* Sorting: a set in a strict order, and a list at some of its places.      *)

\* R puts the elements of S in a strict order.
Orders(R, S) ==
    /\ \A a \in S : <<a, a>> \notin R
    /\ \A a, b \in S : a # b => <<a, b>> \in R \/ <<b, a>> \in R
    /\ \A a, b, c \in S : <<a, b>> \in R /\ <<b, c>> \in R => <<a, c>> \in R

\* No element is twice in s.
Once(s) == \A i, j \in DOMAIN s : s[i] = s[j] => i = j

\* A function on 1 .. n is a sequence.
LEMMA FunctionIsSeq ==
  ASSUME NEW n \in Nat, NEW S, NEW s \in [1..n -> S]
  PROVE  s \in Seq(S) /\ Len(s) = n /\ DOMAIN s = 1..n
OBVIOUS

Before(R, S, c) == {b \in S : <<b, c>> \in R}

\* Every place has an element of that rank, and only one.
LEMMA RankOnto ==
  ASSUME NEW S, IsFiniteSet(S), NEW R, Orders(R, S), NEW n \in Nat, n = Cardinality(S)
  PROVE  /\ \A k \in 1..n : \E c \in S : Cardinality(Before(R, S, c)) = k - 1
         /\ \A c \in S : Cardinality(Before(R, S, c)) + 1 \in 1..n
         /\ \A a, b \in S : <<a, b>> \in R => Cardinality(Before(R, S, a)) < Cardinality(Before(R, S, b))
<1>1. ASSUME NEW c \in S
      PROVE  /\ IsFiniteSet(Before(R, S, c)) /\ Cardinality(Before(R, S, c)) \in Nat
             /\ Cardinality(Before(R, S, c)) + 1 \in 1..n
  <2>1. Before(R, S, c) \in SUBSET S /\ Before(R, S, c) # S
    BY DEF Orders, Before
  <2>2. PICK B \in SUBSET S : B = Before(R, S, c) /\ B # S
    BY <2>1
  <2>3. IsFiniteSet(B) /\ Cardinality(B) <= n /\ Cardinality(B) # n
    BY <2>2, FS_Subset
  <2>4. Cardinality(B) \in Nat
    BY <2>3, FS_CardinalityType
  <2>5. Cardinality(B) + 1 \in 1..n
    BY <2>3, <2>4
  <2> QED BY <2>2, <2>3, <2>4, <2>5
<1>2. ASSUME NEW a \in S, NEW b \in S, <<a, b>> \in R
      PROVE  Cardinality(Before(R, S, a)) < Cardinality(Before(R, S, b))
  <2>1. /\ Before(R, S, a) \in SUBSET Before(R, S, b)
        /\ a \in Before(R, S, b) /\ a \notin Before(R, S, a)
    BY <1>2 DEF Orders, Before
  <2>2. PICK A, B : A = Before(R, S, a) /\ B = Before(R, S, b)
    OBVIOUS
  <2>3. IsFiniteSet(B) /\ Cardinality(B) \in Nat /\ Cardinality(A) \in Nat
    BY <1>1, <2>2
  <2>4. A \in SUBSET B /\ A # B
    BY <2>1, <2>2
  <2>5. Cardinality(A) <= Cardinality(B) /\ Cardinality(A) # Cardinality(B)
    BY <2>3, <2>4, FS_Subset
  <2>6. Cardinality(A) < Cardinality(B)
    BY <2>3, <2>5
  <2> QED BY <2>2, <2>6
<1>3. \A k \in 1..n : \E c \in S : Cardinality(Before(R, S, c)) = k - 1
  <2>1. PICK f \in [S -> 1..n] : \A c \in S : f[c] = Cardinality(Before(R, S, c)) + 1
    <3> DEFINE g == [c \in S |-> Cardinality(Before(R, S, c)) + 1]
    <3>1. g \in [S -> 1..n] /\ \A c \in S : g[c] = Cardinality(Before(R, S, c)) + 1
      BY <1>1
    <3> HIDE DEF g
    <3> QED BY <3>1
  <2>2. \A a, b \in S : f[a] = f[b] => a = b
    <3> SUFFICES ASSUME NEW a \in S, NEW b \in S, a # b PROVE f[a] # f[b]
      OBVIOUS
    <3>1. <<a, b>> \in R \/ <<b, a>> \in R
      BY DEF Orders
    <3>2. PICK x \in Nat, y \in Nat :
             x = Cardinality(Before(R, S, a)) /\ y = Cardinality(Before(R, S, b))
      BY <1>1
    <3>3. x # y
      BY <1>2, <3>1, <3>2
    <3> QED BY <2>1, <3>2, <3>3
  <2>3. f \in Injection(S, 1..n)
    BY <2>1, <2>2 DEF Injection, IsInjective
  <2>4. IsFiniteSet(1..n) /\ Cardinality(1..n) = n
    <3>1. 1 \in Int /\ n \in Int /\ n - 1 + 1 = n
      OBVIOUS
    <3> QED BY <3>1, FS_Interval
  <2>5. f \in Surjection(S, 1..n)
    BY <2>3, <2>4, FS_Injection
  <2>6. \A k \in 1..n : \E c \in S : f[c] = k
    BY <2>5 DEF Surjection
  <2> SUFFICES ASSUME NEW k \in 1..n PROVE \E c \in S : Cardinality(Before(R, S, c)) = k - 1
    OBVIOUS
  <2>7. PICK c \in S : f[c] = k
    BY <2>6
  <2>8. Cardinality(Before(R, S, c)) + 1 = k /\ Cardinality(Before(R, S, c)) \in Nat
    BY <1>1, <2>1, <2>7
  <2>9. Cardinality(Before(R, S, c)) = k - 1
    BY <2>8
  <2> QED BY <2>9
<1> QED BY <1>1, <1>2, <1>3

\* Sorted lists S, each element once, in the order R.
LEMMA SortedFacts ==
  ASSUME NEW S, IsFiniteSet(S), NEW R, Orders(R, S), NEW s, s = Sorted(S, R)
  PROVE  /\ s \in Seq(S) /\ Len(s) = Cardinality(S) /\ Range(s) = S
         /\ Once(s)
         /\ \A i \in DOMAIN s : Cardinality(Before(R, S, s[i])) = i - 1
         /\ \A i, j \in DOMAIN s : i < j => <<s[i], s[j]>> \in R
<1>1. PICK n \in Nat : n = Cardinality(S)
  BY FS_CardinalityType
<1>2. /\ \A k \in 1..n : \E c \in S : Cardinality(Before(R, S, c)) = k - 1
      /\ \A c \in S : Cardinality(Before(R, S, c)) + 1 \in 1..n
      /\ \A a, b \in S : <<a, b>> \in R => Cardinality(Before(R, S, a)) < Cardinality(Before(R, S, b))
  BY <1>1, RankOnto
<1>3. s = [i \in 1..n |-> CHOOSE c \in S : Cardinality(Before(R, S, c)) = i - 1]
  BY <1>1, Zenon DEF Sorted, Before
<1>4. \A i \in 1..n : s[i] \in S /\ Cardinality(Before(R, S, s[i])) = i - 1
  <2> SUFFICES ASSUME NEW i \in 1..n
               PROVE  s[i] \in S /\ Cardinality(Before(R, S, s[i])) = i - 1
    OBVIOUS
  <2>1. s[i] = CHOOSE c \in S : Cardinality(Before(R, S, c)) = i - 1
    BY <1>3
  <2> QED BY <1>2, <2>1
<1>5. s \in [1..n -> S]
  BY <1>3, <1>4
<1>6. s \in Seq(S) /\ Len(s) = n /\ DOMAIN s = 1..n
  BY <1>5, FunctionIsSeq
<1>7. Once(s)
  <2> SUFFICES ASSUME NEW i \in 1..n, NEW j \in 1..n, s[i] = s[j] PROVE i = j
    BY <1>6 DEF Once
  <2>1. i - 1 = j - 1
    BY <1>4
  <2> QED BY <2>1
<1>8. Range(s) = S
  <2>1. Range(s) \subseteq S
    BY <1>4, <1>6 DEF Range
  <2>2. ASSUME NEW c \in S PROVE c \in Range(s)
    <3>1. PICK i \in 1..n : i = Cardinality(Before(R, S, c)) + 1
      BY <1>2
    <3>2. PICK a \in S : a = s[i] /\ Cardinality(Before(R, S, a)) = i - 1
      BY <1>4
    <3>3. PICK k \in Nat : k = Cardinality(Before(R, S, c)) /\ k = i - 1
      <4>1. Before(R, S, c) \in SUBSET S
        BY DEF Before
      <4>2. Cardinality(Before(R, S, c)) \in Nat
        BY <4>1, FS_Subset, FS_CardinalityType
      <4> QED BY <3>1, <4>2
    <3>4. ~(<<a, c>> \in R) /\ ~(<<c, a>> \in R)
      <4>1. ~(Cardinality(Before(R, S, a)) < Cardinality(Before(R, S, c)))
        BY <3>2, <3>3
      <4>2. ~(Cardinality(Before(R, S, c)) < Cardinality(Before(R, S, a)))
        BY <3>2, <3>3
      <4> QED BY <1>2, <4>1, <4>2, Zenon
    <3>5. a = c
      BY <3>4 DEF Orders
    <3> QED BY <1>6, <3>2, <3>5 DEF Range
  <2> QED BY <2>1, <2>2
<1>9. ASSUME NEW i \in 1..n, NEW j \in 1..n, i < j PROVE <<s[i], s[j]>> \in R
  <2>1. s[i] \in S /\ s[j] \in S /\ s[i] # s[j]
    BY <1>4, <1>6, <1>7, <1>9 DEF Once
  <2>2. ~(<<s[j], s[i]>> \in R)
    <3> SUFFICES ASSUME <<s[j], s[i]>> \in R PROVE FALSE
      OBVIOUS
    <3>1. Cardinality(Before(R, S, s[j])) < Cardinality(Before(R, S, s[i]))
      BY <1>2, <2>1
    <3>2. j - 1 < i - 1
      BY <1>4, <3>1
    <3> QED BY <1>9, <3>2
  <2> QED BY <2>1, <2>2 DEF Orders
<1> QED BY <1>1, <1>4, <1>6, <1>7, <1>8, <1>9

\* Numbers in their order.
LEMMA LessOrders ==
  ASSUME NEW I, I \subseteq Nat, NEW R, R = {p \in I \X I : p[1] < p[2]}
  PROVE  Orders(R, I)
<1>1. \A a, b \in I : <<a, b>> \in R <=> a < b
  OBVIOUS
<1> QED BY <1>1 DEF Orders

\* The places of s in I, in their order.
LEMMA AtPlaces ==
  ASSUME NEW S, NEW s \in Seq(S), NEW I \in SUBSET DOMAIN s
  PROVE  \E ix \in Seq(DOMAIN s) :
            /\ Len(ix) = Cardinality(I) /\ Len(ix) \in Nat /\ IsFiniteSet(I)
            /\ DOMAIN ix = 1..Len(ix) /\ Range(ix) = I /\ Once(ix)
            /\ \A i, j \in DOMAIN ix : i < j => ix[i] < ix[j]
            /\ At(s, I) = [k \in DOMAIN ix |-> s[ix[k]]]
<1>1. DOMAIN s = 1..Len(s) /\ Len(s) \in Nat /\ I \subseteq Nat
  OBVIOUS
<1>2. IsFiniteSet(I)
  <2>1. 1 \in Int /\ Len(s) \in Int
    BY <1>1
  <2>2. IsFiniteSet(DOMAIN s)
    BY <1>1, <2>1, FS_Interval
  <2> QED BY <2>2, FS_Subset
<1>3. PICK R : R = {p \in I \X I : p[1] < p[2]}
  OBVIOUS
<1>4. Orders(R, I)
  BY <1>1, <1>3, LessOrders
<1>5. PICK ix : ix = Sorted(I, R)
  OBVIOUS
<1>6. /\ ix \in Seq(I) /\ Len(ix) = Cardinality(I) /\ Range(ix) = I
      /\ Once(ix)
      /\ \A i, j \in DOMAIN ix : i < j => <<ix[i], ix[j]>> \in R
  BY <1>2, <1>4, <1>5, SortedFacts
<1>7. \A i, j \in DOMAIN ix : i < j => ix[i] < ix[j]
  BY <1>3, <1>6
<1>8. At(s, I) = [k \in DOMAIN ix |-> s[ix[k]]]
  BY <1>3, <1>5, Zenon DEF At
<1>9. ix \in Seq(DOMAIN s) /\ Len(ix) \in Nat /\ DOMAIN ix = 1..Len(ix)
  BY <1>6
<1> QED BY <1>2, <1>6, <1>7, <1>8, <1>9

\* What At keeps.
LEMMA AtFacts ==
  ASSUME NEW S, NEW s \in Seq(S), NEW I \in SUBSET DOMAIN s, NEW t, t = At(s, I)
  PROVE  /\ t \in Seq(S) /\ Len(t) = Cardinality(I)
         /\ Range(t) = {s[i] : i \in I}
         /\ Once(s) => Once(t)
         /\ I = {} <=> t = <<>>
<1>1. PICK ix \in Seq(DOMAIN s) :
            /\ Len(ix) = Cardinality(I) /\ Len(ix) \in Nat /\ IsFiniteSet(I)
            /\ DOMAIN ix = 1..Len(ix) /\ Range(ix) = I /\ Once(ix)
            /\ \A i, j \in DOMAIN ix : i < j => ix[i] < ix[j]
            /\ t = [k \in DOMAIN ix |-> s[ix[k]]]
  BY AtPlaces
<1>2. PICK n \in Nat : n = Len(ix)
  BY <1>1
<1>3. \A k \in 1..n : ix[k] \in DOMAIN s /\ ix[k] \in I /\ s[ix[k]] \in S
  BY <1>1, <1>2 DEF Range
<1>4. t = [k \in 1..n |-> s[ix[k]]] /\ DOMAIN t = 1..n /\ \A k \in 1..n : t[k] = s[ix[k]]
  BY <1>1, <1>2
<1>5. t \in [1..n -> S]
  BY <1>3, <1>4
<1>6. t \in Seq(S) /\ Len(t) = n
  BY <1>5, FunctionIsSeq
<1>7. Range(t) = {s[i] : i \in I}
  <2>1. ASSUME NEW c \in Range(t) PROVE c \in {s[i] : i \in I}
    BY <1>3, <1>4 DEF Range
  <2>2. ASSUME NEW i \in I PROVE s[i] \in Range(t)
    <3>1. PICK k \in 1..n : ix[k] = i
      BY <1>1, <1>2 DEF Range
    <3> QED BY <1>4, <3>1 DEF Range
  <2> QED BY <2>1, <2>2
<1>8. Once(s) => Once(t)
  BY <1>1, <1>2, <1>3, <1>4 DEF Once
<1>9. I = {} <=> t = <<>>
  BY <1>1, <1>2, <1>6, FS_EmptySet
<1> QED BY <1>1, <1>2, <1>6, <1>7, <1>8, <1>9
\* All places are the whole list.
LEMMA AtAll ==
  ASSUME NEW S, NEW s \in Seq(S) PROVE At(s, DOMAIN s) = s
<1>1. PICK n \in Nat : n = Len(s) /\ DOMAIN s = 1..n
  OBVIOUS
<1>2. PICK R : R = {p \in (1..n) \X (1..n) : p[1] < p[2]}
  OBVIOUS
<1>3. PICK ix : ix = Sorted(1..n, R)
  OBVIOUS
<1>4. IsFiniteSet(1..n) /\ Cardinality(1..n) = n
  <2>1. 1 \in Int /\ n \in Int /\ n - 1 + 1 = n
    OBVIOUS
  <2> QED BY <2>1, FS_Interval
<1>5. Orders(R, 1..n)
  <2>1. 1..n \subseteq Nat
    OBVIOUS
  <2> QED BY <1>2, <2>1, LessOrders
<1>6. PICK T : T = 1..n
  OBVIOUS
<1>7. /\ ix \in Seq(T) /\ Len(ix) = Cardinality(T)
      /\ \A i \in DOMAIN ix : Cardinality(Before(R, T, ix[i])) = i - 1
  <2>1. IsFiniteSet(T) /\ Orders(R, T) /\ ix = Sorted(T, R)
    BY <1>3, <1>4, <1>5, <1>6
  <2> QED BY <2>1, SortedFacts
<1>8. DOMAIN ix = 1..n
  BY <1>4, <1>6, <1>7
<1>9. \A k \in 1..n : ix[k] = k
  <2> SUFFICES ASSUME NEW k \in 1..n PROVE ix[k] = k
    OBVIOUS
  <2>1. PICK c \in 1..n : c = ix[k]
    BY <1>6, <1>7, <1>8
  <2>2. Before(R, T, c) = 1..(c - 1)
    BY <1>2, <1>6 DEF Before
  <2>3. Cardinality(1..(c - 1)) = c - 1
    <3>1. 1 \in Int /\ c - 1 \in Int /\ (IF 1 > c - 1 THEN 0 ELSE (c - 1) - 1 + 1) = c - 1
      OBVIOUS
    <3>2. PICK m \in Int : m = c - 1
      BY <3>1
    <3> QED BY <3>1, <3>2, FS_Interval
  <2>4. c - 1 = k - 1
    BY <1>7, <1>8, <2>1, <2>2, <2>3
  <2> QED BY <2>1, <2>4
<1>10. At(s, DOMAIN s) = [k \in DOMAIN ix |-> s[ix[k]]]
  <2>1. At(s, 1..n) = [k \in DOMAIN ix |-> s[ix[k]]]
    BY <1>2, <1>3, Zenon DEF At
  <2> QED BY <1>1, <2>1
<1>11. [k \in DOMAIN ix |-> s[ix[k]]] = [k \in 1..n |-> s[k]]
  BY <1>8, <1>9
<1> QED BY <1>1, <1>10, <1>11

-----------------------------------------------------------------------------
(* Ranked lists.                                                            *)

\* A ranked list of a leg, or of their fusion.
List(s) == s \in Seq(Chunks) /\ Once(s)

\* An empty list is a ranked list.
LEMMA EmptyList == List(<<>>)
BY DEF List, Once

\* What a ranked list is made of.
LEMMA ListFacts ==
  ASSUME NEW s, List(s)
  PROVE  /\ Len(s) \in Nat /\ DOMAIN s = 1..Len(s) /\ Range(s) \in SUBSET Chunks
         /\ \A i \in DOMAIN s : s[i] \in Chunks /\ s[i] \in Range(s)
BY DEF List, Range

\* It has finitely many elements, and no more places than there are chunks.
LEMMA ListFinite ==
  ASSUME NEW s, List(s)
  PROVE  IsFiniteSet(Range(s)) /\ Len(s) <= Cardinality(Chunks)
<1>1. Range(s) \in SUBSET Chunks /\ IsFiniteSet(Chunks)
  BY ListFacts, RetrievalAssumption
<1>2. IsFiniteSet(Range(s))
  BY <1>1, FS_Subset
<1>3. PICK n \in Nat : n = Len(s) /\ DOMAIN s = 1..n
  BY ListFacts
<1>4. s \in Injection(1..n, Chunks)
  <2>1. s \in [1..n -> Chunks]
    BY <1>3 DEF List
  <2>2. \A i, j \in 1..n : s[i] = s[j] => i = j
    BY <1>3 DEF List, Once
  <2> QED BY <1>3, <2>1, <2>2 DEF Injection, IsInjective
<1>5. Cardinality(1..n) <= Cardinality(Chunks)
  BY <1>1, <1>4, FS_Injection
<1>6. Cardinality(1..n) = n
  <2>1. 1 \in Int /\ n \in Int /\ (IF 1 > n THEN 0 ELSE n - 1 + 1) = n
    OBVIOUS
  <2> QED BY <2>1, FS_Interval
<1> QED BY <1>2, <1>3, <1>5, <1>6

\* The rank of an element is its place.
LEMMA RankIs ==
  ASSUME NEW s, Once(s), NEW i \in DOMAIN s
  PROVE  RankIn(s[i], s) = i
BY DEF Once, RankIn

\* A rank is a place, and two elements have different ones.
LEMMA RankFacts ==
  ASSUME NEW s, List(s), NEW c \in Range(s)
  PROVE  /\ RankIn(c, s) \in DOMAIN s /\ s[RankIn(c, s)] = c
         /\ RankIn(c, s) \in 1..Cardinality(Chunks)
<1>1. PICK i \in DOMAIN s : s[i] = c
  BY DEF Range
<1>2. RankIn(c, s) = i
  BY <1>1, RankIs DEF List
<1>3. i \in 1..Len(s) /\ Len(s) \in Nat
  BY ListFacts
<1>4. i \in 1..Cardinality(Chunks)
  <2>1. Cardinality(Chunks) \in Nat
    BY RetrievalAssumption, FS_CardinalityType
  <2> QED BY <1>3, <2>1, ListFinite
<1> QED BY <1>1, <1>2, <1>4

\* Cutting a list keeps it a ranked list of elements it had.
LEMMA FirstOfFacts ==
  ASSUME NEW S, NEW s \in Seq(S), NEW n \in Nat, NEW t, t = FirstOf(s, n)
  PROVE  /\ t \in Seq(S) /\ Len(t) <= Len(s) /\ Len(t) <= n
         /\ Range(t) \subseteq Range(s)
         /\ \A i \in DOMAIN t : i \in DOMAIN s /\ t[i] = s[i]
         /\ Once(s) => Once(t)
<1>1. PICK m \in Nat : t = SubSeq(s, 1, m) /\ m <= Len(s) /\ m <= n
  BY DEF FirstOf
<1>2. t \in Seq(S) /\ Len(t) = m /\ \A i \in 1..m : t[i] = s[i]
  BY <1>1
<1>3. DOMAIN t = 1..m /\ \A i \in 1..m : i \in DOMAIN s
  BY <1>1, <1>2
<1>4. Range(t) \subseteq Range(s)
  BY <1>2, <1>3 DEF Range
<1>5. Once(s) => Once(t)
  BY <1>2, <1>3 DEF Once
<1> QED BY <1>1, <1>2, <1>3, <1>4, <1>5

\* Heavier first, equal ones by their key.
LEMMA ByWeightFacts ==
  ASSUME NEW S \in SUBSET Chunks, NEW w, \A c \in S : w[c] \in Nat,
         NEW s, s = ByWeight(S, w)
  PROVE  /\ List(s) /\ Range(s) = S
         /\ \A i, j \in DOMAIN s : i < j =>
               \/ w[s[i]] > w[s[j]]
               \/ w[s[i]] = w[s[j]] /\ Key[s[i]] <= Key[s[j]]
<1> DEFINE Less(a, b) == \/ w[a] > w[b]
                         \/ w[a] = w[b] /\ Key[a] < Key[b]
                         \/ w[a] = w[b] /\ Key[a] = Key[b] /\ a < b
<1>1. PICK R : R = {p \in S \X S : Less(p[1], p[2])}
  OBVIOUS
<1>2. s = Sorted(S, R)
  BY <1>1, Zenon DEF ByWeight
<1>3. \A a, b \in S : <<a, b>> \in R <=> Less(a, b)
  BY <1>1
<1>4. \A c \in S : c \in Nat /\ w[c] \in Nat /\ Key[c] \in Nat
  BY RetrievalAssumption
<1>5. Orders(R, S)
  BY <1>3, <1>4 DEF Orders
<1>6. IsFiniteSet(S)
  BY RetrievalAssumption, FS_Subset
<1>7. /\ s \in Seq(S) /\ Range(s) = S /\ Once(s)
      /\ \A i, j \in DOMAIN s : i < j => <<s[i], s[j]>> \in R
  BY <1>2, <1>5, <1>6, SortedFacts
<1>8. List(s)
  BY <1>7 DEF List
<1>9. ASSUME NEW i \in DOMAIN s, NEW j \in DOMAIN s, i < j
      PROVE  \/ w[s[i]] > w[s[j]]
             \/ w[s[i]] = w[s[j]] /\ Key[s[i]] <= Key[s[j]]
  <2>1. s[i] \in S /\ s[j] \in S /\ <<s[i], s[j]>> \in R
    BY <1>7, <1>9
  <2> QED BY <1>3, <1>4, <2>1
<1> QED BY <1>7, <1>8, <1>9

\* The reranker's order is a ranked list of the same elements.
LEMMA RerankFacts ==
  ASSUME NEW top, List(top), NEW raw, \A c \in Range(top) : raw[c] \in Nat,
         NEW s, s = RerankOrder(top, raw)
  PROVE  List(s) /\ Range(s) = Range(top)
<1> DEFINE Less(a, b) == \/ raw[a] > raw[b]
                         \/ raw[a] = raw[b] /\ RankIn(a, top) < RankIn(b, top)
<1>1. PICK S, R : S = Range(top) /\ R = {p \in S \X S : Less(p[1], p[2])}
  OBVIOUS
<1>2. s = Sorted(S, R)
  BY <1>1, Zenon DEF RerankOrder
<1>3. \A a, b \in S : <<a, b>> \in R <=> Less(a, b)
  BY <1>1
<1>4. \A c \in S : raw[c] \in Nat /\ RankIn(c, top) \in Nat /\ top[RankIn(c, top)] = c
  <2> SUFFICES ASSUME NEW c \in S
               PROVE  raw[c] \in Nat /\ RankIn(c, top) \in Nat /\ top[RankIn(c, top)] = c
    OBVIOUS
  <2>1. RankIn(c, top) \in 1..Len(top) /\ top[RankIn(c, top)] = c
    BY <1>1, RankFacts, ListFacts
  <2> QED BY <1>1, <2>1
<1>5. Orders(R, S)
  <2>1. \A a \in S : ~Less(a, a)
    BY <1>4
  <2>2. \A a, b \in S : a # b => Less(a, b) \/ Less(b, a)
    BY <1>4
  <2>3. \A a, b, c \in S : Less(a, b) /\ Less(b, c) => Less(a, c)
    BY <1>4
  <2> HIDE DEF Less
  <2> QED BY <1>3, <2>1, <2>2, <2>3 DEF Orders
<1>6. IsFiniteSet(S) /\ S \in SUBSET Chunks
  BY <1>1, ListFinite, ListFacts
<1>7. s \in Seq(S) /\ Range(s) = S /\ Once(s)
  BY <1>2, <1>5, <1>6, SortedFacts
<1> QED BY <1>1, <1>6, <1>7 DEF List

-----------------------------------------------------------------------------
(* The inductive invariants, and what the two legs and the fusion produce.  *)

Entries == [id : Chunks, score : Nat, lexical : BOOLEAN,
            kind : {"vector", "reranker"}, prov : BOOLEAN]
Pictures == [width : Nat, height : Nat, usable : BOOLEAN]
Requests == [images : Seq(Pictures), query : Queries \cup {NoRequest.query},
             turns : {1, 2}, condense : BOOLEAN, topK : Nat \ {0}, max : Int,
             filter : Filters \cup {NoRequest.filter}]
Lists == {s \in Seq(Chunks) : Once(s)}

\* Before the legs run, and while they do.
Start == {"idle", "condense", "resolve", "open", "vision"}
Legs == {"vector", "filter", "sparse", "fuse"}

Types ==
    /\ conf \in [rerank : BOOLEAN, min : Nat]
    /\ req \in Requests
    /\ queries \in Seq(Queries) /\ turn \in Nat \ {0}
    /\ rows \in SUBSET Chunks /\ vectors \in SUBSET Chunks
    /\ vec \in Seq(Lists) /\ fts \in Seq(Lists) /\ fused \in Lists
    /\ final \in Seq(Entries) /\ kept \in Seq(Entries) /\ call.chunks \in Seq(Entries)

\* What each step finds.
Phases ==
    /\ pc \in Start => vec = <<>> /\ fts = <<>> /\ byId = <<>> /\ turn = 1
    /\ pc \in Start \cup Legs => fused = <<>> /\ final = <<>>
    /\ pc \in Start \cup Legs \cup {"hydrate", "floor"} => kept = <<>>
    /\ pc \notin {"generate", "done"} => call = NoCall
    /\ pc # "done" => answer = "none"
    /\ pc # "idle" => req.query \in Queries
    /\ pc \in Legs \cup {"resolve", "open"} => turn <= Len(queries)
    /\ pc = "vector" => Len(vec) = turn - 1
    /\ pc \in {"filter", "sparse", "fuse"} => Len(vec) = turn
    /\ pc \in {"vector", "filter", "sparse"} => Len(fts) = turn - 1
    /\ pc = "fuse" => Len(fts) = turn

\* Only the list that Chroma has just given may hold what the filters refuse.
AllPass(s) == \A c \in Range(s) : Passes(c, req.filter)
IdsPass(s) == \A i \in DOMAIN s : Passes(s[i].id, req.filter)
Filtered ==
    /\ pc \in {"vector", "sparse", "fuse"} => \A j \in DOMAIN vec : AllPass(vec[j])
    /\ pc = "filter" =>
         /\ \A j \in DOMAIN vec : j < turn => AllPass(vec[j])
         /\ \A c \in Range(vec[turn]) : InFiles(c, req.filter)
    /\ pc \in Legs => \A j \in DOMAIN fts : AllPass(fts[j])
    /\ IdsPass(final) /\ IdsPass(kept) /\ IdsPass(call.chunks)

\* The keywords alone found c first, in the lists v and f of the two legs.
KeywordFirst(c, v, f) ==
    \E i \in DOMAIN f : c \in Range(f[i]) /\ \A j \in 1 .. i : c \notin Range(v[j])

\* What by_id holds after n vector lists of the queries q and the lists f of the
\* other leg: every candidate, with its best cosine.
Evidence(m, q, v, n, f) ==
    /\ \A c \in Chunks : c \in DOMAIN m <=>
          \/ \E j \in 1 .. n : c \in Range(v[j])
          \/ \E i \in DOMAIN f : c \in Range(f[i])
    /\ \A c \in DOMAIN m :
          /\ m[c].score \in Nat /\ m[c].lexical \in BOOLEAN
          /\ \A j \in 1 .. n : c \in Range(v[j]) => q[j].sim[c] <= m[c].score
          /\ \/ m[c].score = 0
             \/ \E j \in 1 .. n : c \in Range(v[j]) /\ q[j].sim[c] = m[c].score
          /\ m[c].lexical <=> m[c].score = 0 /\ KeywordFirst(c, v, f)

Judged(e) ==
    \/ e.kind = "reranker" /\ ~e.lexical
    \/ /\ e.kind = "vector" /\ e.score = Best(e.id)
       /\ e.lexical <=> Best(e.id) = 0 /\ KeywordFirst(e.id, vec, fts)

\* by_id while the legs run.
Scored ==
    pc \in Legs =>
        /\ DOMAIN byId \subseteq Chunks
        /\ Evidence(byId, queries, vec, IF pc = "filter" THEN turn - 1 ELSE Len(vec), fts)

Judging ==
    /\ pc \in {"hydrate", "floor"} => \A i \in DOMAIN final : Judged(final[i])
    /\ JudgedOnBestEvidence

Ordered ==
    fused # <<>> => pc \notin Start \cup Legs /\ fused = RrfFuse(vec \o fts)

\* The way of a request that carries no image.
ByText == {"condense", "resolve", "open", "hydrate", "floor", "fit"} \cup Legs

Fitted == (pc \in ByText => req.images = <<>>) /\ PromptFits

\* Lists is the set of ranked lists.
LEMMA InLists == ASSUME NEW s PROVE s \in Lists <=> List(s)
BY DEF Lists, List

\* SumFunction sums over the function's domain.
LEMMA SumIs == ASSUME NEW f PROVE SumFunction(f) = Total(f, DOMAIN f)
BY Zenon DEF SumFunction, Total

\* An order of a set of chunks is a ranked list of them.
LEMMA OrderFacts ==
  ASSUME NEW S \in SUBSET Chunks, NEW w, NEW s \in Rankings(S, w)
  PROVE  s \in Seq(S) /\ Once(s) /\ s \in Lists /\ Range(s) \subseteq S
<1>1. IsFiniteSet(S)
  BY RetrievalAssumption, FS_Subset
<1>2. PICK n \in Nat : n = Cardinality(S)
  BY <1>1, FS_CardinalityType
<1>3. s \in SetToSeqs(S)
  BY Zenon DEF Rankings
<1>4. s \in [1..n -> S] /\ \A i, j \in 1..n : i # j => s[i] # s[j]
  BY <1>2, <1>3, Zenon DEF SetToSeqs
<1>5. s \in Seq(S) /\ DOMAIN s = 1..n
  BY <1>4, FunctionIsSeq
<1>6. Once(s)
  BY <1>4, <1>5 DEF Once
<1>7. s \in Lists
  BY <1>5, <1>6 DEF Lists
<1>8. Range(s) \subseteq S
  BY <1>5 DEF Range
<1> QED BY <1>5, <1>6, <1>7, <1>8

\* A vector list is a ranked list of chunks of the files asked for.
LEMMA DenseFacts ==
  ASSUME Types, NEW q, NEW s \in DenseLists(q)
  PROVE  s \in Lists /\ \A c \in Range(s) : InFiles(c, req.filter)
<1>1. PICK S \in Nearest(q) : s \in Rankings(S, q.sim)
  BY Zenon DEF DenseLists
<1>2. S \in SUBSET {c \in vectors : InFiles(c, req.filter)}
  BY Zenon DEF Nearest
<1>3. S \in SUBSET Chunks /\ \A c \in S : InFiles(c, req.filter)
  BY <1>2 DEF Types
<1>4. s \in Lists /\ Range(s) \subseteq S
  BY <1>1, <1>3, OrderFacts
<1> QED BY <1>3, <1>4

\* A keyword list is a ranked list of chunks that the filters admit.
LEMMA SparseFacts ==
  ASSUME Types, NEW q, NEW s \in SparseLists(q)
  PROVE  s \in Lists /\ \A c \in Range(s) : Passes(c, req.filter)
<1>1. PICK H : H = {c \in rows : Terms[c] \cap Lexemes(q) # {} /\ Passes(c, req.filter)}
  OBVIOUS
<1>2. H \in SUBSET Chunks /\ \A c \in H : Passes(c, req.filter)
  BY <1>1 DEF Types
<1>3. PICK w : w = [c \in H |-> Weight(c, q)]
  OBVIOUS
<1>4. PICK t \in Rankings(H, w) : s = FirstOf(t, req.topK * SparseFactor)
  BY <1>1, <1>3, Zenon DEF SparseLists
<1>5. t \in Seq(H) /\ Once(t) /\ Range(t) \subseteq H
  BY <1>2, OrderFacts
<1>6. PICK k \in Nat : k = req.topK * SparseFactor
  <2>1. req.topK \in Nat /\ SparseFactor \in Nat
    BY RetrievalAssumption DEF Types, Requests
  <2> QED BY <2>1
<1>7. s \in Seq(H) /\ Range(s) \subseteq Range(t) /\ Once(s)
  BY <1>4, <1>5, <1>6, FirstOfFacts
<1>8. s \in Lists
  BY <1>2, <1>7 DEF Lists
<1> QED BY <1>2, <1>5, <1>7, <1>8

\* The full-text leg gives a list, or nothing, and goes on; or the request ends.
FtsGoesOn ==
  /\ \E s \in {<<>>} \cup SparseLists(queries[turn]) :
        fts' = Append(fts, s) /\ byId' = AddHits(byId, s)
  /\ \/ turn < Len(queries) /\ turn' = turn + 1 /\ pc' = "vector"
     \/ turn' = turn /\ pc' = "fuse"
  /\ answer' = answer
FtsEnds ==
  pc' = "done" /\ answer' = "retrieval_error" /\ UNCHANGED <<fts, byId, turn>>

LEMMA FtsCases ==
  ASSUME FtsSearch
  PROVE  /\ pc = "sparse" /\ (FtsGoesOn \/ FtsEnds)
         /\ UNCHANGED <<conf, req, queries, vec, fused, final, kept, call, rows, vectors>>
<1>1. /\ pc = "sparse"
      /\ UNCHANGED <<conf, req, queries, vec, fused, final, kept, call, rows, vectors>>
  BY DEF FtsSearch, ranking, store
<1>2. CASE /\ \E s \in {<<>>} \cup SparseLists(queries[turn]) :
                 fts' = Append(fts, s) /\ byId' = AddHits(byId, s)
           /\ IF turn < Len(queries)
              THEN turn' = turn + 1 /\ Continue("vector")
              ELSE Continue("fuse") /\ UNCHANGED turn
  BY <1>1, <1>2 DEF FtsGoesOn, Continue
<1>3. CASE End("retrieval_error") /\ UNCHANGED <<fts, byId, turn>>
  BY <1>1, <1>3 DEF FtsEnds, End
<1> QED BY <1>2, <1>3, Zenon DEF FtsSearch

\* What _filter_vector_ids leaves of a list.
LEMMA SelectedFacts ==
  ASSUME NEW s \in Lists, NEW t, t = At(s, {i \in DOMAIN s : Selected(s[i])})
  PROVE  t \in Lists /\ Range(t) = {c \in Range(s) : Selected(c)}
<1>1. s \in Seq(Chunks) /\ Once(s)
  BY DEF Lists
<1>2. PICK I \in SUBSET DOMAIN s : I = {i \in DOMAIN s : Selected(s[i])}
  OBVIOUS
<1>3. t \in Seq(Chunks) /\ Range(t) = {s[i] : i \in I} /\ Once(t)
  BY <1>1, <1>2, AtFacts
<1>4. {s[i] : i \in I} = {c \in Range(s) : Selected(c)}
  BY <1>2, Zenon DEF Range
<1> QED BY <1>3, <1>4 DEF Lists

\* A share of a list is a natural.
LEMMA ShareType ==
  ASSUME NEW s \in Lists, NEW c \in Chunks
  PROVE  Share(c, s) \in Nat
<1>1. CASE c \in Range(s)
  <2>1. RankIn(c, s) \in 1..Cardinality(Chunks)
    BY <1>1, InLists, RankFacts
  <2>2. PICK m \in Nat \ {0} : m = K + RankIn(c, s)
    BY <2>1, RetrievalAssumption
  <2>3. Scale \div m \in Nat
    BY RetrievalAssumption
  <2> QED BY <1>1, <2>2, <2>3 DEF Share
<1>2. CASE c \notin Range(s)
  BY <1>2 DEF Share
<1> QED BY <1>1, <1>2

\* The fusion's score of a candidate, as a sum over the lists.
Shares(c, lists) == [i \in DOMAIN lists |-> Share(c, lists[i])]

\* A fused score is a natural.
LEMMA RrfFacts ==
  ASSUME NEW lists \in Seq(Lists), NEW c \in Chunks, NEW f, f = Shares(c, lists)
  PROVE  /\ IsFiniteSet(DOMAIN lists) /\ DOMAIN f = DOMAIN lists
         /\ \A i \in DOMAIN lists : f[i] = Share(c, lists[i]) /\ f[i] \in Nat
         /\ Rrf(c, lists) = Total(f, DOMAIN lists) /\ Rrf(c, lists) \in Nat
<1>1. PICK n \in Nat : n = Len(lists) /\ DOMAIN lists = 1..n
  OBVIOUS
<1>2. IsFiniteSet(DOMAIN lists)
  <2>1. 1 \in Int /\ n \in Int
    OBVIOUS
  <2> QED BY <1>1, <2>1, FS_Interval
<1>3. DOMAIN f = DOMAIN lists /\ \A i \in DOMAIN lists : f[i] = Share(c, lists[i])
  BY DEF Shares
<1>4. \A i \in DOMAIN lists : lists[i] \in Lists
  OBVIOUS
<1>5. \A i \in DOMAIN lists : f[i] \in Nat
  BY <1>3, <1>4, ShareType
<1>6. Rrf(c, lists) = Total(f, DOMAIN lists)
  <2>1. Rrf(c, lists) = SumFunction(f)
    BY Zenon DEF Rrf, Shares
  <2> QED BY <1>3, <2>1, SumIs
<1> QED BY <1>2, <1>3, <1>5, <1>6, SumType

\* The fusion lists every candidate, each once, by its fused score.
LEMMA FuseFacts ==
  ASSUME NEW lists \in Seq(Lists), NEW s, s = RrfFuse(lists)
  PROVE  /\ s \in Lists /\ Range(s) = Candidates(lists)
         /\ \A i, j \in DOMAIN s : i < j =>
               \/ Rrf(s[i], lists) > Rrf(s[j], lists)
               \/ Rrf(s[i], lists) = Rrf(s[j], lists) /\ Key[s[i]] <= Key[s[j]]
<1>1. PICK C : C = Candidates(lists)
  OBVIOUS
<1>2. C \in SUBSET Chunks
  <2>1. \A i \in DOMAIN lists : lists[i] \in Lists
    OBVIOUS
  <2>2. \A i \in DOMAIN lists : Range(lists[i]) \subseteq Chunks
    BY <2>1, InLists, ListFacts
  <2> QED BY <1>1, <2>2 DEF Candidates
<1>3. PICK w : w = [c \in C |-> Rrf(c, lists)]
  OBVIOUS
<1>4. \A c \in C : w[c] = Rrf(c, lists) /\ w[c] \in Nat
  BY <1>2, <1>3, RrfFacts
<1>5. s = ByWeight(C, w)
  BY <1>1, <1>3, Zenon DEF RrfFuse
<1>6. /\ List(s) /\ Range(s) = C
      /\ \A i, j \in DOMAIN s : i < j =>
            \/ w[s[i]] > w[s[j]]
            \/ w[s[i]] = w[s[j]] /\ Key[s[i]] <= Key[s[j]]
  BY <1>2, <1>4, <1>5, ByWeightFacts
<1>7. \A i \in DOMAIN s : w[s[i]] = Rrf(s[i], lists)
  BY <1>4, <1>6, ListFacts
<1> QED BY <1>1, <1>6, <1>7, InLists

-----------------------------------------------------------------------------
(* The order of the fusion.                                                 *)

\* The share of a rank: an earlier one is worth more.
Worth(r) == Scale \div (K + r)

\* What a rank is worth, exactly.
LEMMA WorthFacts ==
  ASSUME NEW r \in 1..Cardinality(Chunks)
  PROVE  /\ K + r \in Nat \ {0} /\ Worth(r) \in Nat \ {0}
         /\ (K + r) * Worth(r) = Scale
<1>1. Cardinality(Chunks) \in Nat
  BY RetrievalAssumption, FS_CardinalityType
<1>2. PICK m \in Nat \ {0} : m = K + r
  BY <1>1, RetrievalAssumption
<1>3. Scale % m = 0 /\ Scale \in Nat \ {0}
  BY <1>2, RetrievalAssumption
<1>4. PICK q \in Nat : q = Scale \div m
  BY <1>3
<1>5. m * q = Scale
  BY <1>3, <1>4
<1>6. q # 0
  BY <1>3, <1>5
<1>7. Worth(r) = q
  BY <1>2, <1>4 DEF Worth
<1> QED BY <1>2, <1>5, <1>6, <1>7

\* An earlier rank is worth more.
LEMMA EarlierIsMore ==
  ASSUME NEW i \in 1..Cardinality(Chunks), NEW j \in 1..Cardinality(Chunks), i < j
  PROVE  Worth(i) > Worth(j)
<1>1. PICK m \in Nat \ {0} : m = K + i
  BY WorthFacts
<1>2. PICK p \in Nat \ {0} : p = Worth(i)
  BY WorthFacts
<1>3. PICK n \in Nat \ {0} : n = K + j
  BY WorthFacts
<1>4. PICK q \in Nat \ {0} : q = Worth(j)
  BY WorthFacts
<1>5. m * p = n * q
  BY <1>1, <1>2, <1>3, <1>4, WorthFacts
<1>6. m < n
  BY <1>1, <1>3, RetrievalAssumption, FS_CardinalityType
<1>7. ~(p <= q)
  <2> SUFFICES ASSUME p <= q PROVE FALSE
    OBVIOUS
  <2>1. PICK d \in Nat : q = p + d
    <3>1. q - p \in Nat /\ q = p + (q - p)
      OBVIOUS
    <3> QED BY <3>1
  <2>2. PICK e \in Nat \ {0} : n = m + e
    <3>1. n - m \in Nat \ {0} /\ n = m + (n - m)
      BY <1>6
    <3> QED BY <3>1
  <2>3. n * q = m * p + m * d + e * q
    BY <2>1, <2>2
  <2>4. m * d >= 0 /\ e * q > 0
    OBVIOUS
  <2> QED BY <1>5, <2>3, <2>4
<1> QED BY <1>2, <1>4, <1>7

\* The share a list gives is what the rank in it is worth.
LEMMA ShareIs ==
  ASSUME NEW s \in Lists, NEW c \in Chunks
  PROVE  /\ c \notin Range(s) => Share(c, s) = 0
         /\ c \in Range(s) => /\ RankIn(c, s) \in 1..Cardinality(Chunks)
                              /\ Share(c, s) = Worth(RankIn(c, s))
<1>1. c \in Range(s) => RankIn(c, s) \in 1..Cardinality(Chunks)
  BY InLists, RankFacts
<1> QED BY <1>1 DEF Share, Worth

\* A list gives more to the chunk it does not put behind.
LEMMA ShareOrder ==
  ASSUME NEW s \in Lists, NEW a \in Chunks, NEW b \in Chunks
  PROVE  /\ ~Behind(b, a, s) => Share(a, s) <= Share(b, s)
         /\ Behind(a, b, s) => Share(a, s) < Share(b, s)
<1>1. Cardinality(Chunks) \in Nat
  BY RetrievalAssumption, FS_CardinalityType
<1>2. PICK x \in Nat, y \in Nat : x = Share(a, s) /\ y = Share(b, s)
  BY ShareType
<1>3. CASE a \notin Range(s)
  <2>1. x = 0
    BY <1>2, <1>3, ShareIs
  <2>2. ASSUME b \in Range(s) PROVE y # 0
    <3>1. PICK r \in 1..Cardinality(Chunks) : y = Worth(r)
      BY <1>2, <2>2, ShareIs
    <3> QED BY <3>1, WorthFacts
  <2> QED BY <1>2, <1>3, <2>1, <2>2 DEF Behind
<1>4. CASE a \in Range(s) /\ b \notin Range(s)
  BY <1>4 DEF Behind
<1>5. CASE a \in Range(s) /\ b \in Range(s)
  <2>1. PICK i \in 1..Cardinality(Chunks) : i = RankIn(a, s) /\ x = Worth(i)
    BY <1>2, <1>5, ShareIs
  <2>2. PICK j \in 1..Cardinality(Chunks) : j = RankIn(b, s) /\ y = Worth(j)
    BY <1>2, <1>5, ShareIs
  <2>3. (~Behind(b, a, s) <=> ~(i < j)) /\ (Behind(a, b, s) <=> j < i)
    BY <1>5, <2>1, <2>2 DEF Behind
  <2>4. j < i => x < y
    BY <2>1, <2>2, EarlierIsMore
  <2>5. i = j => x = y
    BY <2>1, <2>2
  <2>6. i \in Nat /\ j \in Nat
    BY <1>1
  <2>7. ~(i < j) => x <= y
    BY <2>4, <2>5, <2>6
  <2> QED BY <1>2, <2>3, <2>4, <2>7
<1> QED BY <1>3, <1>4, <1>5

\* A chunk that no list puts behind another, and one puts before it, has more.
LEMMA RrfOrder ==
  ASSUME NEW lists \in Seq(Lists), NEW a \in Chunks, NEW b \in Chunks,
         \A l \in DOMAIN lists : ~Behind(b, a, lists[l]),
         NEW k \in DOMAIN lists, Behind(a, b, lists[k])
  PROVE  Rrf(a, lists) < Rrf(b, lists)
<1>1. PICK f, g : f = Shares(a, lists) /\ g = Shares(b, lists)
  OBVIOUS
<1>2. PICK D : D = DOMAIN lists
  OBVIOUS
<1>3. /\ IsFiniteSet(D)
      /\ \A i \in D : f[i] = Share(a, lists[i]) /\ f[i] \in Nat
      /\ Rrf(a, lists) = Total(f, D)
  BY <1>1, <1>2, RrfFacts
<1>4. /\ \A i \in D : g[i] = Share(b, lists[i]) /\ g[i] \in Nat
      /\ Rrf(b, lists) = Total(g, D)
  BY <1>1, <1>2, RrfFacts
<1>5. \A i \in D : lists[i] \in Lists
  BY <1>2
<1>6. \A i \in D : f[i] \in Nat /\ g[i] \in Nat /\ f[i] <= g[i]
  <2> SUFFICES ASSUME NEW i \in D PROVE f[i] \in Nat /\ g[i] \in Nat /\ f[i] <= g[i]
    OBVIOUS
  <2>1. PICK s \in Lists : s = lists[i] /\ ~Behind(b, a, s)
    BY <1>2, <1>5
  <2>2. Share(a, s) <= Share(b, s)
    BY <2>1, ShareOrder
  <2> QED BY <1>3, <1>4, <2>1, <2>2
<1>7. k \in D /\ f[k] < g[k]
  <2>1. PICK s \in Lists : s = lists[k] /\ Behind(a, b, s)
    BY <1>2, <1>5
  <2>2. Share(a, s) < Share(b, s)
    BY <2>1, ShareOrder
  <2> QED BY <1>2, <1>3, <1>4, <2>1, <2>2
<1>8. Total(f, D) < Total(g, D)
  BY <1>3, <1>6, <1>7, SumLess
<1> QED BY <1>3, <1>4, <1>8

\* The lists that give c the worth of rank r are those that rank it there.
LEMMA WorthOnce ==
  ASSUME NEW lists \in Seq(Lists), NEW c \in Chunks, NEW f, f = Shares(c, lists),
         NEW r \in 1..Cardinality(Chunks)
  PROVE  Having(f, DOMAIN lists, Worth(r)) = Ranked(c, r, lists)
<1>1. PICK v \in Nat \ {0} : v = Worth(r)
  BY WorthFacts
<1>2. \A i \in 1..Cardinality(Chunks) : Worth(i) = v <=> i = r
  <2> SUFFICES ASSUME NEW i \in 1..Cardinality(Chunks), i # r PROVE Worth(i) # v
    BY <1>1
  <2>1. i \in Int /\ r \in Int
    BY RetrievalAssumption, FS_CardinalityType
  <2>2. PICK x \in Nat : x = Worth(i)
    BY WorthFacts
  <2>3. i < r \/ r < i
    BY <2>1
  <2>4. x > v \/ v > x
    BY <1>1, <2>2, <2>3, EarlierIsMore
  <2> QED BY <2>2, <2>4
<1>3. ASSUME NEW l \in DOMAIN lists
      PROVE  f[l] = v <=> c \in Range(lists[l]) /\ RankIn(c, lists[l]) = r
  <2>1. PICK s \in Lists : s = lists[l]
    OBVIOUS
  <2>2. f[l] = Share(c, s)
    BY <2>1 DEF Shares
  <2>3. CASE c \notin Range(s)
    <3>1. Share(c, s) = 0
      BY <2>3, ShareIs
    <3> QED BY <2>1, <2>2, <2>3, <3>1
  <2>4. CASE c \in Range(s)
    <3>1. PICK i \in 1..Cardinality(Chunks) : i = RankIn(c, s) /\ Share(c, s) = Worth(i)
      BY <2>4, ShareIs
    <3> QED BY <1>2, <2>1, <2>2, <2>4, <3>1
  <2> QED BY <2>3, <2>4
<1> QED BY <1>1, <1>3 DEF Having, Ranked

\* Every rank equally often gives the same fused score.
LEMMA RrfSame ==
  ASSUME NEW lists \in Seq(Lists), NEW a \in Chunks, NEW b \in Chunks, SameRanks(a, b, lists)
  PROVE  Rrf(a, lists) = Rrf(b, lists)
<1>1. PICK f, g : f = Shares(a, lists) /\ g = Shares(b, lists)
  OBVIOUS
<1>2. PICK D : D = DOMAIN lists
  OBVIOUS
<1>3. /\ IsFiniteSet(D)
      /\ \A i \in D : f[i] = Share(a, lists[i]) /\ f[i] \in Nat
      /\ Rrf(a, lists) = Total(f, D)
  BY <1>1, <1>2, RrfFacts
<1>4. /\ \A i \in D : g[i] = Share(b, lists[i]) /\ g[i] \in Nat
      /\ Rrf(b, lists) = Total(g, D)
  BY <1>1, <1>2, RrfFacts
<1>5. ASSUME NEW v \in Nat \ {0}
      PROVE  Cardinality(Having(f, D, v)) = Cardinality(Having(g, D, v))
  <2>1. CASE \E r \in 1..Cardinality(Chunks) : v = Worth(r)
    <3>1. PICK r \in 1..Cardinality(Chunks) : v = Worth(r)
      BY <2>1
    <3>2. Having(f, D, v) = Ranked(a, r, lists)
      BY <1>1, <1>2, <3>1, WorthOnce
    <3>3. Having(g, D, v) = Ranked(b, r, lists)
      BY <1>1, <1>2, <3>1, WorthOnce
    <3> QED BY <3>2, <3>3 DEF SameRanks
  <2>2. CASE ~ \E r \in 1..Cardinality(Chunks) : v = Worth(r)
    <3>1. ASSUME NEW c \in Chunks, NEW s \in Lists PROVE Share(c, s) # v
      BY <2>2, ShareIs
    <3>2. \A i \in D : lists[i] \in Lists
      BY <1>2
    <3>3. Having(f, D, v) = {}
      BY <1>3, <3>1, <3>2 DEF Having
    <3>4. Having(g, D, v) = {}
      BY <1>4, <3>1, <3>2 DEF Having
    <3> QED BY <3>3, <3>4
  <2> QED BY <2>1, <2>2
<1>6. \A i \in D : f[i] \in Nat
  BY <1>3
<1>7. \A i \in D : g[i] \in Nat
  BY <1>4
<1>8. Total(f, D) = Total(g, D)
  BY <1>3, <1>5, <1>6, <1>7, SumByCount
<1> QED BY <1>3, <1>4, <1>8

\* What RankedFairly says of the fused order of any lists.
LEMMA FairFusion ==
  ASSUME NEW lists \in Seq(Lists), NEW s, s = RrfFuse(lists)
  PROVE  /\ Range(s) = Candidates(lists)
         /\ \A i, j \in DOMAIN s : i < j =>
              /\ s[i] # s[j]
              /\ \/ \E l \in DOMAIN lists : Behind(s[j], s[i], lists[l])
                 \/ \A l \in DOMAIN lists : ~Behind(s[i], s[j], lists[l])
              /\ SameRanks(s[i], s[j], lists) => Key[s[i]] <= Key[s[j]]
<1>1. /\ s \in Lists /\ Range(s) = Candidates(lists)
      /\ \A i, j \in DOMAIN s : i < j =>
            \/ Rrf(s[i], lists) > Rrf(s[j], lists)
            \/ Rrf(s[i], lists) = Rrf(s[j], lists) /\ Key[s[i]] <= Key[s[j]]
  BY FuseFacts
<1>2. ASSUME NEW i \in DOMAIN s, NEW j \in DOMAIN s, i < j
      PROVE  /\ s[i] # s[j]
             /\ \/ \E l \in DOMAIN lists : Behind(s[j], s[i], lists[l])
                \/ \A l \in DOMAIN lists : ~Behind(s[i], s[j], lists[l])
             /\ SameRanks(s[i], s[j], lists) => Key[s[i]] <= Key[s[j]]
  <2>1. i \in Nat /\ j \in Nat
    BY <1>1 DEF Lists
  <2>2. s[i] # s[j]
    BY <1>1, <1>2, <2>1 DEF Lists, Once
  <2>3. PICK a \in Chunks, b \in Chunks : a = s[i] /\ b = s[j]
    BY <1>1 DEF Lists
  <2>4. \/ Rrf(a, lists) > Rrf(b, lists)
        \/ Rrf(a, lists) = Rrf(b, lists) /\ Key[a] <= Key[b]
    BY <1>1, <1>2, <2>3
  <2>5. Rrf(a, lists) \in Nat /\ Rrf(b, lists) \in Nat
    BY RrfFacts
  <2>6. ASSUME \A l \in DOMAIN lists : ~Behind(b, a, lists[l]),
               NEW k \in DOMAIN lists, Behind(a, b, lists[k])
        PROVE  FALSE
    <3>1. Rrf(a, lists) < Rrf(b, lists)
      BY <2>6, RrfOrder
    <3> QED BY <2>4, <2>5, <3>1
  <2>7. SameRanks(a, b, lists) => Key[a] <= Key[b]
    <3> SUFFICES ASSUME SameRanks(a, b, lists) PROVE Key[a] <= Key[b]
      OBVIOUS
    <3>1. Rrf(a, lists) = Rrf(b, lists)
      BY RrfSame
    <3> QED BY <2>4, <2>5, <3>1
  <2> QED BY <2>2, <2>3, <2>6, <2>7
<1> QED BY <1>1, <1>2

-----------------------------------------------------------------------------
(* Types and phases are preserved: up to the fusion.                        *)

LEMMA BaseInit == Init => Types /\ Phases
<1> SUFFICES ASSUME Init PROVE Types /\ Phases
  OBVIOUS
<1>1. NoRequest \in Requests
  BY DEF NoRequest, Requests
<1>2. conf \in [rerank : BOOLEAN, min : Nat]
  BY RetrievalAssumption DEF Init
<1>3. <<>> \in Lists
  BY EmptyList, InLists
<1>4. /\ req = NoRequest /\ queries = <<>> /\ turn = 1 /\ rows = Chunks /\ vectors = Chunks
      /\ vec = <<>> /\ fts = <<>> /\ fused = <<>> /\ final = <<>> /\ kept = <<>>
      /\ call = NoCall /\ pc = "idle" /\ byId = <<>> /\ answer = "none"
  BY DEF Init
<1>5. Types
  BY <1>1, <1>2, <1>3, <1>4 DEF Types, NoCall
<1>6. Phases
  BY <1>4 DEF Phases, Start, Legs
<1> QED BY <1>5, <1>6

\* The request and its query.
LEMMA BaseArrive == ASSUME Types, Phases, Arrive PROVE Types' /\ Phases'
<1>1. /\ pc = "idle"
      /\ UNCHANGED <<conf, queries, turn, vec, fts, byId, fused, final, kept, call, rows, vectors>>
  BY DEF Arrive, legs, ranking, store
<1>2. PICK q \in Queries, f \in Filters, m \in Limits, i \in Images, t \in {1, 2}, c \in BOOLEAN :
        /\ req' = [images |-> i, query |-> q, turns |-> t, condense |-> c,
                   topK |-> 1, max |-> CapTokens(m), filter |-> f]
        /\ pc' = IF i = <<>> THEN "condense" ELSE "vision"
        /\ answer' = answer
  BY DEF Arrive, Continue
<1>3. i \in Seq(Pictures) /\ CapTokens(m) \in Int
  BY RetrievalAssumption DEF Pictures, CapTokens
<1>4. req' \in Requests /\ req'.query \in Queries
  BY <1>2, <1>3 DEF Requests
<1>5. Types'
  BY <1>1, <1>4 DEF Types
<1>6. pc' \in {"condense", "vision"}
  BY <1>2
<1>7. Phases'
  BY <1>1, <1>2, <1>4, <1>6 DEF Phases, Start, Legs
<1> QED BY <1>5, <1>7

LEMMA BaseRawQuery == ASSUME Types, Phases, RawQuery PROVE Types' /\ Phases'
<1>1. /\ pc = "condense" /\ queries' = <<req.query>> /\ pc' = "resolve" /\ answer' = answer
      /\ UNCHANGED <<conf, req, turn, vec, fts, byId, fused, final, kept, call, rows, vectors>>
  BY DEF RawQuery, Continue, ranking, store
<1>2. req.query \in Queries
  BY <1>1 DEF Phases
<1>3. queries' \in Seq(Queries) /\ Len(queries') = 1
  BY <1>1, <1>2
<1>4. Types'
  BY <1>1, <1>3 DEF Types
<1>5. Phases'
  BY <1>1, <1>2, <1>3 DEF Phases, Start, Legs
<1> QED BY <1>4, <1>5

LEMMA BaseCondenseQuery == ASSUME Types, Phases, CondenseQuery PROVE Types' /\ Phases'
<1>1. /\ pc = "condense"
      /\ UNCHANGED <<conf, req, turn, vec, fts, byId, fused, final, kept, call, rows, vectors>>
  BY DEF CondenseQuery, ranking, store
<1>2. req.query \in Queries
  BY <1>1 DEF Phases
<1>3. CASE pc' = "done" /\ queries' = queries
  <2>1. Types'
    BY <1>1, <1>3 DEF Types
  <2>2. Phases'
    BY <1>1, <1>2, <1>3 DEF Phases, Start, Legs
  <2> QED BY <2>1, <2>2
<1>4. CASE /\ pc' = "resolve" /\ answer' = answer
           /\ queries' \in Seq(Queries) /\ Len(queries') >= 1
  <2>1. Types'
    BY <1>1, <1>4 DEF Types
  <2>2. Phases'
    BY <1>1, <1>2, <1>4 DEF Phases, Start, Legs
  <2> QED BY <2>1, <2>2
<1>5. \/ pc' = "done" /\ queries' = queries
      \/ /\ pc' = "resolve" /\ answer' = answer
         /\ \/ queries' = <<req.query>>
            \/ \E q \in Queries : queries' = <<q, req.query>>
  BY DEF CondenseQuery, Continue, End
<1>6. <<req.query>> \in Seq(Queries) /\ Len(<<req.query>>) >= 1
  BY <1>2
<1>7. \A q \in Queries : <<q, req.query>> \in Seq(Queries) /\ Len(<<q, req.query>>) >= 1
  BY <1>2
<1> QED BY <1>3, <1>4, <1>5, <1>6, <1>7

LEMMA BaseResolveTopK == ASSUME Types, Phases, ResolveTopK PROVE Types' /\ Phases'
<1>1. /\ pc = "resolve"
      /\ UNCHANGED <<conf, queries, turn, vec, fts, byId, fused, final, kept, call, rows, vectors>>
  BY DEF ResolveTopK, legs, ranking, store
<1>2. \/ pc' = "done" /\ req' = req
      \/ /\ pc' = "open" /\ answer' = answer
         /\ \E k \in TopKs : req' = [req EXCEPT !.topK = k]
  BY DEF ResolveTopK, Continue, End
<1>3. req' \in Requests /\ req'.query = req.query
  <2>1. req \in Requests
    BY DEF Types
  <2>2. \A k \in TopKs : k \in Nat \ {0}
    BY RetrievalAssumption
  <2> QED BY <1>2, <2>1, <2>2 DEF Requests
<1>4. Types'
  BY <1>1, <1>3 DEF Types
<1>5. Phases'
  BY <1>1, <1>2, <1>3 DEF Phases, Start, Legs
<1> QED BY <1>4, <1>5

\* Retrieval.
LEMMA BaseOpenCollection == ASSUME Types, Phases, OpenCollection PROVE Types' /\ Phases'
<1>1. /\ pc = "open"
      /\ UNCHANGED <<conf, req, queries, turn, vec, fts, byId, fused, final, kept, call, rows, vectors>>
      /\ \/ pc' \in {"vector", "floor"} /\ answer' = answer
         \/ pc' = "done"
  BY DEF OpenCollection, Continue, End, legs, ranking, store
<1>2. Types'
  BY <1>1 DEF Types
<1>3. Len(<<>>) = 0
  OBVIOUS
<1>4. Phases'
  BY <1>1, <1>3 DEF Phases, Start, Legs, Types
<1> QED BY <1>2, <1>4

LEMMA BaseVectorLeg == ASSUME Types, Phases, VectorLeg PROVE Types' /\ Phases'
<1>1. /\ pc = "vector"
      /\ UNCHANGED <<conf, req, queries, turn, fts, byId, fused, final, kept, call, rows, vectors>>
  BY DEF VectorLeg, ranking, store
<1>2. CASE pc' = "done" /\ vec' = vec
  <2>1. Types'
    BY <1>1, <1>2 DEF Types
  <2>2. Phases'
    BY <1>1, <1>2 DEF Phases, Start, Legs
  <2> QED BY <2>1, <2>2
<1>3. CASE /\ pc' = "filter" /\ answer' = answer
           /\ \E s \in DenseLists(queries[turn]) : vec' = Append(vec, s)
  <2>1. PICK s \in Lists : vec' = Append(vec, s)
    BY <1>3, DenseFacts
  <2>2. vec \in Seq(Lists) /\ Len(vec) = turn - 1 /\ turn \in Nat
    BY <1>1 DEF Types, Phases
  <2>3. vec' \in Seq(Lists) /\ Len(vec') = turn
    BY <2>1, <2>2
  <2>4. Types'
    BY <1>1, <2>3 DEF Types
  <2>5. Phases'
    BY <1>1, <1>3, <2>3 DEF Phases, Start, Legs
  <2> QED BY <2>4, <2>5
<1> QED BY <1>2, <1>3 DEF VectorLeg, Continue, End

LEMMA BaseFilter == ASSUME Types, Phases, FilterVectorIds PROVE Types' /\ Phases'
<1>1. /\ pc = "filter"
      /\ UNCHANGED <<conf, req, queries, turn, fts, fused, final, kept, call, rows, vectors>>
  BY DEF FilterVectorIds, ranking, store
<1>2. CASE pc' = "done" /\ vec' = vec
  <2>1. Types'
    BY <1>1, <1>2 DEF Types
  <2>2. Phases'
    BY <1>1, <1>2 DEF Phases, Start, Legs
  <2> QED BY <2>1, <2>2
<1>3. CASE /\ pc' = "sparse" /\ answer' = answer
           /\ vec' = [vec EXCEPT ![turn] =
                        At(vec[turn], {i \in DOMAIN vec[turn] : Selected(vec[turn][i])})]
  <2>1. vec \in Seq(Lists) /\ Len(vec) = turn /\ turn \in Nat \ {0}
    BY <1>1 DEF Types, Phases
  <2>2. PICK s \in Lists : s = vec[turn]
    BY <2>1
  <2>3. PICK t \in Lists : t = At(s, {i \in DOMAIN s : Selected(s[i])})
    BY SelectedFacts
  <2>4. vec' = [vec EXCEPT ![turn] = t]
    BY <1>3, <2>2, <2>3
  <2>5. vec' \in Seq(Lists) /\ Len(vec') = turn
    BY <2>1, <2>4
  <2>6. Types'
    BY <1>1, <2>5 DEF Types
  <2>7. Phases'
    BY <1>1, <1>3, <2>5 DEF Phases, Start, Legs
  <2> QED BY <2>6, <2>7
<1>4. \/ pc' = "done" /\ vec' = vec
      \/ /\ pc' = "sparse" /\ answer' = answer
         /\ vec' = [vec EXCEPT ![turn] =
                        At(vec[turn], {i \in DOMAIN vec[turn] : Selected(vec[turn][i])})]
  BY Zenon DEF FilterVectorIds, Continue, End
<1> QED BY <1>2, <1>3, <1>4

LEMMA BaseFts == ASSUME Types, Phases, FtsSearch PROVE Types' /\ Phases'
<1>0. CASE FtsEnds
  <2>1. /\ pc = "sparse"
        /\ UNCHANGED <<conf, req, queries, vec, fused, final, kept, call, rows, vectors>>
    BY FtsCases
  <2>2. Types'
    BY <1>0, <2>1 DEF FtsEnds, Types
  <2>3. Phases'
    BY <1>0, <2>1 DEF FtsEnds, Phases, Start, Legs
  <2> QED BY <2>2, <2>3
<1> SUFFICES ASSUME FtsGoesOn PROVE Types' /\ Phases'
  BY <1>0, FtsCases
<1>1. /\ pc = "sparse" /\ answer' = answer
      /\ UNCHANGED <<conf, req, queries, vec, fused, final, kept, call, rows, vectors>>
      /\ \/ turn < Len(queries) /\ turn' = turn + 1 /\ pc' = "vector"
         \/ turn' = turn /\ pc' = "fuse"
  BY FtsCases DEF FtsGoesOn
<1>2. PICK s \in {<<>>} \cup SparseLists(queries[turn]) : fts' = Append(fts, s)
  BY DEF FtsGoesOn
<1>3. s \in Lists
  BY <1>2, SparseFacts, EmptyList, InLists
<1>4. /\ fts \in Seq(Lists) /\ Len(fts) = turn - 1 /\ Len(vec) = turn
      /\ turn \in Nat \ {0} /\ queries \in Seq(Queries) /\ turn <= Len(queries)
  BY <1>1 DEF Types, Phases, Legs
<1>5. fts' \in Seq(Lists) /\ Len(fts') = turn /\ Len(queries) \in Nat
  BY <1>2, <1>3, <1>4
<1>6. turn' \in Nat \ {0} /\ turn' <= Len(queries)
  BY <1>1, <1>4, <1>5
<1>7. Types'
  BY <1>1, <1>5, <1>6 DEF Types
<1>8. CASE turn' = turn + 1 /\ pc' = "vector"
  BY <1>1, <1>4, <1>5, <1>6, <1>7, <1>8 DEF Phases, Start, Legs
<1>9. CASE turn' = turn /\ pc' = "fuse"
  BY <1>1, <1>4, <1>5, <1>6, <1>7, <1>9 DEF Phases, Start, Legs
<1> QED BY <1>1, <1>7, <1>8, <1>9

\* The lists of the two legs together.
LEMMA BothLists ==
  ASSUME Types PROVE vec \o fts \in Seq(Lists)
BY DEF Types

-----------------------------------------------------------------------------
(* Types and phases are preserved: after the fusion.                        *)

\* A candidate is in a list of one of the legs.
LEMMA CandidateFacts ==
  ASSUME Types, NEW c, c \in Candidates(vec \o fts)
  PROVE  /\ c \in Chunks
         /\ \/ \E j \in DOMAIN vec : c \in Range(vec[j])
            \/ \E j \in DOMAIN fts : c \in Range(fts[j])
<1>1. PICK v \in Seq(Lists), f \in Seq(Lists) : v = vec /\ f = fts
  BY DEF Types
<1>2. PICK i \in DOMAIN (v \o f) : c \in Range((v \o f)[i])
  BY <1>1 DEF Candidates
<1>3. CASE i <= Len(v)
  <2>1. i \in DOMAIN v /\ (v \o f)[i] = v[i]
    BY <1>2, <1>3
  <2>2. PICK s \in Lists : s = v[i]
    BY <2>1
  <2>3. Range(s) \subseteq Chunks
    BY InLists, ListFacts
  <2> QED BY <1>1, <1>2, <2>1, <2>2, <2>3
<1>4. CASE ~(i <= Len(v))
  <2>1. PICK j \in DOMAIN f : (v \o f)[i] = f[j]
    <3>1. i - Len(v) \in DOMAIN f /\ (v \o f)[i] = f[i - Len(v)]
      BY <1>2, <1>4
    <3> QED BY <3>1
  <2>2. PICK s \in Lists : s = f[j]
    BY <2>1
  <2>3. Range(s) \subseteq Chunks
    BY InLists, ListFacts
  <2> QED BY <1>1, <1>2, <2>1, <2>2, <2>3
<1> QED BY <1>3, <1>4

\* What Entry makes is an entry with these fields.
LEMMA EntryType ==
  ASSUME NEW c \in Chunks, NEW n \in Nat, NEW l \in BOOLEAN, NEW k \in {"vector", "reranker"}
  PROVE  /\ Entry(c, n, l, k) \in Entries
         /\ Entry(c, n, l, k).id = c /\ Entry(c, n, l, k).score = n
         /\ Entry(c, n, l, k).kind = k /\ Entry(c, n, l, k).lexical = l
BY DEF Entry, Entries

\* What retrieve() returns without a reranker.
LEMMA FuseFinal ==
  ASSUME Types, Phases, Scored, Fuse
  PROVE  /\ fused' \in Lists /\ Range(fused') = Candidates(vec \o fts)
         /\ final' \in Seq(Entries)
         /\ \A i \in DOMAIN final' :
               /\ final'[i].id \in Candidates(vec \o fts) /\ final'[i].id \in DOMAIN byId
               /\ final'[i].kind = "vector" /\ final'[i].score = byId[final'[i].id].score
               /\ final'[i].lexical = byId[final'[i].id].lexical
<1>1. pc = "fuse" /\ fused' = RrfFuse(vec \o fts)
  BY DEF Fuse
<1>2. PICK s \in Lists : s = fused' /\ Range(s) = Candidates(vec \o fts)
  BY <1>1, BothLists, FuseFacts
<1>3. PICK k \in Nat : k = req.topK
  BY DEF Types, Requests
<1>4. PICK t : t = FirstOf(s, k)
  OBVIOUS
<1>5. PICK e : e = final'
  OBVIOUS
<1>6. e = [i \in 1..Len(t) |-> Entry(s[i], byId[s[i]].score, byId[s[i]].lexical, "vector")]
  BY <1>2, <1>3, <1>4, <1>5, Zenon DEF Fuse
<1>7. s \in Seq(Chunks)
  BY DEF Lists
<1>8. t \in Seq(Chunks) /\ Len(t) <= Len(s)
  BY <1>4, <1>7, FirstOfFacts
<1>9. PICK n \in Nat : n = Len(t) /\ \A i \in 1..n : i \in DOMAIN s
  BY <1>7, <1>8
<1>10. \A i \in 1..n : /\ s[i] \in Candidates(vec \o fts) /\ s[i] \in Chunks /\ s[i] \in DOMAIN byId
                       /\ byId[s[i]].score \in Nat /\ byId[s[i]].lexical \in BOOLEAN
  <2> SUFFICES ASSUME NEW i \in 1..n
               PROVE  /\ s[i] \in Candidates(vec \o fts) /\ s[i] \in Chunks /\ s[i] \in DOMAIN byId
                      /\ byId[s[i]].score \in Nat /\ byId[s[i]].lexical \in BOOLEAN
    OBVIOUS
  <2>1. PICK c : c = s[i] /\ c \in Candidates(vec \o fts)
    BY <1>2, <1>9 DEF Range
  <2>2. /\ c \in Chunks
        /\ \/ \E j \in DOMAIN vec : c \in Range(vec[j])
           \/ \E j \in DOMAIN fts : c \in Range(fts[j])
    BY <2>1, CandidateFacts
  <2>3. DOMAIN vec = 1..Len(vec)
    BY DEF Types
  <2>4. Evidence(byId, queries, vec, Len(vec), fts)
    BY <1>1 DEF Scored, Legs
  <2>5. c \in DOMAIN byId
    BY <2>2, <2>3, <2>4 DEF Evidence
  <2>6. byId[c].score \in Nat /\ byId[c].lexical \in BOOLEAN
    BY <2>4, <2>5 DEF Evidence
  <2> QED BY <2>1, <2>2, <2>5, <2>6
<1>11. DOMAIN e = 1..n /\ \A i \in 1..n : e[i] = Entry(s[i], byId[s[i]].score, byId[s[i]].lexical, "vector")
  BY <1>6, <1>9
<1>12. \A i \in 1..n : /\ e[i] \in Entries /\ e[i].id = s[i] /\ e[i].kind = "vector"
                       /\ e[i].score = byId[s[i]].score /\ e[i].lexical = byId[s[i]].lexical
  BY <1>10, <1>11, EntryType
<1>13. e \in [1..n -> Entries]
  BY <1>6, <1>9, <1>12
<1>14. e \in Seq(Entries)
  BY <1>13, FunctionIsSeq
<1> QED BY <1>2, <1>5, <1>10, <1>11, <1>12, <1>14

\* And with one.
LEMMA RerankFinal ==
  ASSUME Types, Phases, Rerank
  PROVE  /\ fused' \in Lists /\ Range(fused') = Candidates(vec \o fts)
         /\ \/ pc' = "done" /\ final' = final
            \/ /\ pc' = "hydrate" /\ answer' = answer /\ final' \in Seq(Entries)
               /\ \A i \in DOMAIN final' :
                     /\ final'[i].id \in Candidates(vec \o fts)
                     /\ final'[i].kind = "reranker" /\ ~final'[i].lexical
<1>1. pc = "fuse" /\ fused' = RrfFuse(vec \o fts)
  BY DEF Rerank
<1>2. PICK s \in Lists : s = fused' /\ Range(s) = Candidates(vec \o fts)
  BY <1>1, BothLists, FuseFacts
<1>3. PICK k \in Nat : k = req.topK
  BY DEF Types, Requests
<1>4. PICK top : top = FirstOf(s, 2 * k)
  OBVIOUS
<1>5. CASE pc' = "done" /\ final' = final
  BY <1>2, <1>5
<1>6. CASE \E raw \in [Range(FirstOf(fused', 2 * req.topK)) -> Scores] :
              /\ pc' = "hydrate" /\ answer' = answer
              /\ LET order == RerankOrder(FirstOf(fused', 2 * req.topK), raw)
                 IN  final' = [i \in 1 .. Len(FirstOf(order, req.topK)) |->
                                  Entry(order[i], raw[order[i]], FALSE, "reranker")]
  <2> DEFINE Result(u, r, m) ==
               LET order == RerankOrder(u, r)
               IN  final' = [i \in 1 .. Len(FirstOf(order, m)) |->
                                Entry(order[i], r[order[i]], FALSE, "reranker")]
  <2>0. \E raw \in [Range(FirstOf(fused', 2 * req.topK)) -> Scores] :
              /\ pc' = "hydrate" /\ answer' = answer
              /\ Result(FirstOf(fused', 2 * req.topK), raw, req.topK)
    BY <1>6, Zenon
  <2> HIDE DEF Result
  <2>1. PICK raw \in [Range(top) -> Scores] :
           pc' = "hydrate" /\ answer' = answer /\ Result(top, raw, k)
    BY <2>0, <1>2, <1>3, <1>4
  <2>2. PICK o : o = RerankOrder(top, raw)
    OBVIOUS
  <2>3. PICK e : e = final'
    OBVIOUS
  <2>4. e = [i \in 1..Len(FirstOf(o, k)) |-> Entry(o[i], raw[o[i]], FALSE, "reranker")]
    BY <2>1, <2>2, <2>3, Zenon DEF Result
  <2>5. List(top) /\ Range(top) \subseteq Range(s)
    <3>1. s \in Seq(Chunks) /\ Once(s)
      BY DEF Lists
    <3>2. PICK m \in Nat : m = 2 * k
      OBVIOUS
    <3>3. top \in Seq(Chunks) /\ Range(top) \subseteq Range(s) /\ Once(top)
      BY <1>4, <3>1, <3>2, FirstOfFacts
    <3> QED BY <3>3 DEF List
  <2>6. \A c \in Range(top) : raw[c] \in Nat
    BY RetrievalAssumption
  <2>7. List(o) /\ Range(o) = Range(top)
    BY <2>2, <2>5, <2>6, RerankFacts
  <2>8. PICK t : t = FirstOf(o, k)
    OBVIOUS
  <2>9. t \in Seq(Chunks) /\ Len(t) <= Len(o)
    BY <2>7, <2>8, FirstOfFacts DEF List
  <2>10. PICK n \in Nat : n = Len(t) /\ \A i \in 1..n : i \in DOMAIN o
    BY <2>7, <2>9 DEF List
  <2>11. \A i \in 1..n : /\ o[i] \in Range(top) /\ o[i] \in Chunks /\ raw[o[i]] \in Nat
                         /\ o[i] \in Candidates(vec \o fts)
    BY <1>2, <2>5, <2>6, <2>7, <2>10, ListFacts
  <2>12. DOMAIN e = 1..n /\ \A i \in 1..n : e[i] = Entry(o[i], raw[o[i]], FALSE, "reranker")
    BY <2>4, <2>8, <2>10
  <2>13. \A i \in 1..n : /\ e[i] \in Entries /\ e[i].id = o[i] /\ e[i].kind = "reranker"
                         /\ ~e[i].lexical
    <3> SUFFICES ASSUME NEW i \in 1..n
                 PROVE  /\ e[i] \in Entries /\ e[i].id = o[i] /\ e[i].kind = "reranker"
                        /\ ~e[i].lexical
      OBVIOUS
    <3>1. PICK c \in Chunks, m \in Nat : c = o[i] /\ m = raw[o[i]]
      BY <2>11
    <3>2. e[i] = Entry(c, m, FALSE, "reranker")
      BY <2>12, <3>1
    <3>3. /\ Entry(c, m, FALSE, "reranker") \in Entries
          /\ Entry(c, m, FALSE, "reranker").id = c
          /\ Entry(c, m, FALSE, "reranker").kind = "reranker"
          /\ ~Entry(c, m, FALSE, "reranker").lexical
      BY DEF Entry, Entries
    <3> QED BY <3>1, <3>2, <3>3
  <2>14. e \in [1..n -> Entries]
    BY <2>4, <2>8, <2>10, <2>13
  <2>15. e \in Seq(Entries)
    BY <2>14, FunctionIsSeq
  <2> QED BY <1>2, <2>1, <2>3, <2>11, <2>12, <2>13, <2>15
<1> QED BY <1>5, <1>6, Zenon DEF Rerank, Continue, End

LEMMA BaseFuse == ASSUME Types, Phases, Scored, Fuse PROVE Types' /\ Phases'
<1>1. /\ pc = "fuse" /\ pc' = "hydrate" /\ answer' = answer
      /\ UNCHANGED <<conf, req, queries, turn, vec, fts, byId, kept, call, rows, vectors>>
  BY DEF Fuse, Continue, legs, store
<1>2. fused' \in Lists /\ final' \in Seq(Entries)
  BY FuseFinal
<1>3. Types'
  BY <1>1, <1>2 DEF Types
<1>4. Phases'
  BY <1>1 DEF Phases, Start, Legs
<1> QED BY <1>3, <1>4

LEMMA BaseRerank == ASSUME Types, Phases, Rerank PROVE Types' /\ Phases'
<1>1. /\ pc = "fuse"
      /\ UNCHANGED <<conf, req, queries, turn, vec, fts, byId, kept, call, rows, vectors>>
  BY DEF Rerank, legs, store
<1>2. /\ fused' \in Lists
      /\ \/ pc' = "done" /\ final' = final
         \/ pc' = "hydrate" /\ answer' = answer /\ final' \in Seq(Entries)
  BY RerankFinal
<1>3. Types'
  BY <1>1, <1>2 DEF Types
<1>4. Phases'
  BY <1>1, <1>2 DEF Phases, Start, Legs
<1> QED BY <1>3, <1>4

\* Provenance is all that the hydration changes.
LEMMA HydrateFinal ==
  ASSUME Types, HydrateProvenance
  PROVE  /\ final' \in Seq(Entries) /\ DOMAIN final' = DOMAIN final
         /\ \A i \in DOMAIN final : /\ final'[i].id = final[i].id /\ final'[i].kind = final[i].kind
                                    /\ final'[i].score = final[i].score
                                    /\ final'[i].lexical = final[i].lexical
<1>1. PICK s \in Seq(Entries) : s = final
  BY DEF Types
<1>2. CASE final' = final
  BY <1>1, <1>2
<1>3. CASE final' = [i \in DOMAIN final |-> [final[i] EXCEPT !.prov = final[i].id \in rows]]
  <2>1. PICK e : e = final'
    OBVIOUS
  <2>2. PICK n \in Nat : n = Len(s) /\ DOMAIN s = 1..n
    BY <1>1
  <2>3. e = [i \in 1..n |-> [s[i] EXCEPT !.prov = s[i].id \in rows]]
    BY <1>1, <1>3, <2>1, <2>2, Zenon
  <2>4. ASSUME NEW i \in 1..n
        PROVE  /\ e[i] \in Entries /\ e[i].id = s[i].id /\ e[i].kind = s[i].kind
               /\ e[i].score = s[i].score /\ e[i].lexical = s[i].lexical
    <3>1. PICK x \in Entries : x = s[i]
      BY <2>2
    <3>2. e[i] = [x EXCEPT !.prov = x.id \in rows]
      BY <2>3, <3>1, Zenon
    <3>3. (x.id \in rows) \in BOOLEAN
      OBVIOUS
    <3>4. \E b \in BOOLEAN : e[i] = [x EXCEPT !.prov = b]
      BY <3>2, <3>3, Zenon
    <3> QED BY <3>1, <3>4 DEF Entries
  <2>5. e \in [1..n -> Entries] /\ DOMAIN e = 1..n
    BY <2>3, <2>4
  <2>6. e \in Seq(Entries)
    BY <2>5, FunctionIsSeq
  <2> QED BY <1>1, <2>1, <2>2, <2>4, <2>5, <2>6
<1> QED BY <1>2, <1>3 DEF HydrateProvenance

LEMMA BaseHydrate == ASSUME Types, Phases, HydrateProvenance PROVE Types' /\ Phases'
<1>1. /\ pc = "hydrate" /\ pc' = "floor" /\ answer' = answer
      /\ UNCHANGED <<conf, req, queries, turn, vec, fts, byId, fused, kept, call, rows, vectors>>
  BY DEF HydrateProvenance, Continue, legs, store
<1>2. final' \in Seq(Entries)
  BY HydrateFinal
<1>3. Types'
  BY <1>1, <1>2 DEF Types
<1>4. Phases'
  BY <1>1 DEF Phases, Start, Legs
<1> QED BY <1>3, <1>4

-----------------------------------------------------------------------------
(* What fitting the context does.                                           *)

\* The tokens of a prompt, as a sum over its passages.
Costs(s) == [i \in DOMAIN s |-> Tokens[s[i].id]]

\* The prompt's tokens are its base and the sum of its passages.
LEMMA PromptFacts ==
  ASSUME NEW s \in Seq(Entries), NEW f, f = Costs(s)
  PROVE  /\ IsFiniteSet(DOMAIN s) /\ DOMAIN f = DOMAIN s
         /\ \A i \in DOMAIN s : f[i] = Tokens[s[i].id] /\ f[i] \in Nat
         /\ PromptTokens(s) = Base + Total(f, DOMAIN s)
         /\ Total(f, DOMAIN s) \in Nat /\ PromptTokens(s) \in Nat
<1>1. PICK n \in Nat : n = Len(s) /\ DOMAIN s = 1..n
  OBVIOUS
<1>2. IsFiniteSet(DOMAIN s)
  <2>1. 1 \in Int /\ n \in Int
    OBVIOUS
  <2> QED BY <1>1, <2>1, FS_Interval
<1>3. DOMAIN f = DOMAIN s /\ \A i \in DOMAIN s : f[i] = Tokens[s[i].id]
  BY DEF Costs
<1>4. \A i \in DOMAIN s : s[i].id \in Chunks
  <2>1. \A i \in DOMAIN s : s[i] \in Entries
    OBVIOUS
  <2>2. \A e \in Entries : e.id \in Chunks
    BY DEF Entries
  <2> QED BY <2>1, <2>2
<1>5. \A i \in DOMAIN s : f[i] \in Nat
  BY <1>3, <1>4, RetrievalAssumption
<1>6. PromptTokens(s) = Base + Total(f, DOMAIN s)
  <2>1. PromptTokens(s) = Base + SumFunction(f)
    BY Zenon DEF PromptTokens, Costs
  <2> QED BY <1>3, <2>1, SumIs
<1>7. Total(f, DOMAIN s) \in Nat
  BY <1>2, <1>5, SumType
<1>8. PromptTokens(s) \in Nat
  BY <1>6, <1>7, RetrievalAssumption
<1> QED BY <1>2, <1>3, <1>5, <1>6, <1>7, <1>8

\* The first passages of a list.
LEMMA PrefixFacts ==
  ASSUME NEW s \in Seq(Entries), NEW n \in Nat, n <= Len(s)
  PROVE  /\ SubSeq(s, 1, n) \in Seq(Entries) /\ DOMAIN SubSeq(s, 1, n) = 1..n
         /\ Len(SubSeq(s, 1, n)) = n
         /\ \A i \in 1..n : SubSeq(s, 1, n)[i] = s[i]
<1>1. PICK a : a = SubSeq(s, 1, n)
  OBVIOUS
<1>2. a \in Seq(Entries) /\ Len(a) = n /\ \A i \in 1..n : a[i] = s[i]
  BY <1>1
<1>3. DOMAIN a = 1..n
  BY <1>2
<1> QED BY <1>1, <1>2, <1>3

\* Without passages only the base is left.
LEMMA PromptOfNone == PromptTokens(<<>>) = Base
<1>0. <<>> \in Seq(Entries)
  OBVIOUS
<1>1. PICK s \in Seq(Entries) : s = <<>> /\ DOMAIN s = {}
  <2>1. PICK s \in Seq(Entries) : s = <<>>
    BY <1>0
  <2>2. Len(s) = 0 /\ DOMAIN s = 1..Len(s)
    BY <2>1
  <2>3. 1..0 = {}
    OBVIOUS
  <2> QED BY <2>1, <2>2, <2>3
<1>2. PICK f : f = Costs(s)
  OBVIOUS
<1>3. PromptTokens(s) = Base + Total(f, {})
  BY <1>1, <1>2, PromptFacts
<1>4. Total(f, {}) = 0
  BY SumOfNone
<1> QED BY <1>1, <1>3, <1>4, RetrievalAssumption

\* One passage more.
LEMMA PromptGrows ==
  ASSUME NEW s \in Seq(Entries), NEW n \in Nat, n < Len(s)
  PROVE  PromptTokens(SubSeq(s, 1, n + 1)) = PromptTokens(SubSeq(s, 1, n)) + Tokens[s[n + 1].id]
<1>1. PICK a \in Seq(Entries) : a = SubSeq(s, 1, n) /\ DOMAIN a = 1..n /\ \A i \in 1..n : a[i] = s[i]
  <2>1. n <= Len(s)
    OBVIOUS
  <2>2. /\ SubSeq(s, 1, n) \in Seq(Entries) /\ DOMAIN SubSeq(s, 1, n) = 1..n
        /\ \A i \in 1..n : SubSeq(s, 1, n)[i] = s[i]
    BY <2>1, PrefixFacts
  <2> QED BY <2>2
<1>2. PICK b \in Seq(Entries) : /\ b = SubSeq(s, 1, n + 1) /\ DOMAIN b = 1..(n + 1)
                                /\ \A i \in 1..(n + 1) : b[i] = s[i]
  <2>1. PICK m \in Nat : m = n + 1 /\ m <= Len(s)
    OBVIOUS
  <2>2. /\ SubSeq(s, 1, m) \in Seq(Entries) /\ DOMAIN SubSeq(s, 1, m) = 1..m
        /\ \A i \in 1..m : SubSeq(s, 1, m)[i] = s[i]
    BY <2>1, PrefixFacts
  <2> QED BY <2>1, <2>2
<1>3. PICK f, g : f = Costs(a) /\ g = Costs(b)
  OBVIOUS
<1>4. /\ IsFiniteSet(1..n) /\ \A i \in 1..n : f[i] = Tokens[a[i].id] /\ f[i] \in Nat
      /\ PromptTokens(a) = Base + Total(f, 1..n) /\ Total(f, 1..n) \in Nat
  <2>1. /\ IsFiniteSet(DOMAIN a) /\ \A i \in DOMAIN a : f[i] = Tokens[a[i].id] /\ f[i] \in Nat
        /\ PromptTokens(a) = Base + Total(f, DOMAIN a) /\ Total(f, DOMAIN a) \in Nat
    BY <1>3, PromptFacts
  <2> QED BY <1>1, <2>1
<1>5. /\ IsFiniteSet(1..(n + 1)) /\ \A i \in 1..(n + 1) : g[i] = Tokens[b[i].id] /\ g[i] \in Nat
      /\ PromptTokens(b) = Base + Total(g, 1..(n + 1))
  <2>1. /\ IsFiniteSet(DOMAIN b) /\ \A i \in DOMAIN b : g[i] = Tokens[b[i].id] /\ g[i] \in Nat
        /\ PromptTokens(b) = Base + Total(g, DOMAIN b)
    BY <1>3, PromptFacts
  <2> QED BY <1>2, <2>1
<1>6. PICK D : D = 1..(n + 1)
  OBVIOUS
<1>7. PICK k \in D : k = n + 1
  BY <1>6
<1>8. D \ {k} = 1..n
  BY <1>6, <1>7
<1>9. Total(g, D) = g[k] + Total(g, D \ {k})
  <2>1. IsFiniteSet(D) /\ \A i \in D : g[i] \in Nat
    BY <1>5, <1>6
  <2> QED BY <2>1, SumRemove
<1>10. \A i \in 1..n : f[i] \in Nat /\ f[i] = g[i]
  <2> SUFFICES ASSUME NEW i \in 1..n PROVE f[i] \in Nat /\ f[i] = g[i]
    OBVIOUS
  <2>1. i \in 1..(n + 1)
    OBVIOUS
  <2>2. f[i] = Tokens[a[i].id] /\ f[i] \in Nat /\ a[i] = s[i]
    BY <1>1, <1>4
  <2>3. g[i] = Tokens[b[i].id] /\ b[i] = s[i]
    BY <1>2, <1>5, <2>1
  <2> QED BY <2>2, <2>3
<1>11. Total(f, 1..n) = Total(g, 1..n)
  BY <1>4, <1>10, SumEqual
<1>12. PICK x \in Nat, y \in Nat : x = Total(f, 1..n) /\ y = Tokens[s[n + 1].id] /\ g[k] = y
  <2>1. n + 1 \in 1..(n + 1)
    OBVIOUS
  <2>2. g[k] = Tokens[b[n + 1].id] /\ g[k] \in Nat /\ b[n + 1] = s[n + 1]
    BY <1>2, <1>5, <1>7, <2>1
  <2> QED BY <1>4, <2>2
<1>13. PromptTokens(a) = Base + x /\ PromptTokens(b) = Base + (y + x)
  BY <1>4, <1>5, <1>6, <1>8, <1>9, <1>11, <1>12
<1>14. PromptTokens(b) = PromptTokens(a) + y
  BY <1>13, RetrievalAssumption
<1> QED BY <1>1, <1>2, <1>12, <1>14

\* A number of a set that has a bound.
LEMMA MaxIn ==
  ASSUME NEW b \in Nat, NEW T \in SUBSET (0..b), T # {}
  PROVE  \E i \in T : \A j \in T : j <= i
<1> DEFINE D == {c \in Nat : \A i \in T : i <= c}
<1>1. D \subseteq Nat /\ b \in D
  OBVIOUS
<1>2. PICK c \in D : \A d \in D : c <= d
  BY <1>1, NatMin
<1>3. c \in Nat /\ \A i \in T : i <= c
  BY <1>2
<1>4. c \in T
  <2> SUFFICES ASSUME c \notin T PROVE FALSE
    OBVIOUS
  <2>1. PICK i \in T : i \in Nat
    <3> HIDE DEF D
    <3>1. PICK i \in T : TRUE
      OBVIOUS
    <3>2. i \in 0..b
      BY <3>1
    <3> QED BY <3>1, <3>2
  <2>2. c # 0
    BY <1>3, <2>1
  <2>3. c - 1 \in Nat /\ \A j \in T : j <= c - 1
    BY <1>3, <2>2
  <2>4. c - 1 \in D
    BY <2>3
  <2> HIDE DEF D
  <2> QED BY <1>2, <1>3, <2>4
<1> QED BY <1>3, <1>4

\* The room that is left is enough for the answer that is asked for.
LEMMA ClampFacts ==
  ASSUME NEW n \in Nat, NEW max \in Int, Room(n, max)
  PROVE  /\ Clamp(n, max) \in Nat \ {0}
         /\ max > 0 => /\ n + Clamp(n, max) <= NCtx
                       /\ Clamp(n, max) >= Reserve \/ Clamp(n, max) = max
<1>1. NCtx \in Nat /\ Reserve \in Nat \ {0}
  BY RetrievalAssumption
<1>2. PICK m \in Int : m = IF max < NCtx - n THEN max ELSE NCtx - n
  BY <1>1
<1>3. Clamp(n, max) = IF m < 1 THEN 1 ELSE m
  BY <1>2, Zenon DEF Clamp
<1>4. Clamp(n, max) \in Nat \ {0}
  BY <1>3
<1>5. ASSUME max > 0
      PROVE  n + Clamp(n, max) <= NCtx /\ (Clamp(n, max) >= Reserve \/ Clamp(n, max) = max)
  <2>1. /\ n + Reserve <= NCtx \/ n + max <= NCtx
        /\ Reserve < max => n + Reserve <= NCtx
        /\ ~(Reserve < max) => n + max <= NCtx
    BY <1>1 DEF Room
  <2>2. NCtx - n >= 1
    BY <1>1, <1>5, <2>1
  <2>3. Clamp(n, max) = m
    BY <1>1, <1>2, <1>3, <1>5, <2>2
  <2>4. CASE max < NCtx - n
    BY <1>1, <1>2, <2>3, <2>4
  <2>5. CASE ~(max < NCtx - n)
    <3>1. m = NCtx - n
      BY <1>2, <2>5
    <3>2. NCtx - n >= Reserve \/ NCtx - n = max
      BY <1>1, <2>1, <2>5
    <3> QED BY <1>1, <2>3, <3>1, <3>2
  <2> QED BY <2>4, <2>5
<1> QED BY <1>4, <1>5

\* _fit_context keeps as many of the first passages as leave room.
LEMMA FitFacts ==
  ASSUME NEW s \in Seq(Entries), NEW max \in Int, NEW c, c = FitContext(s, max)
  PROVE  \/ c = NoCall /\ ~Room(Base, max)
         \/ \E n \in 0..Len(s) :
               /\ c # NoCall /\ c.chunks = SubSeq(s, 1, n) /\ c.images = 0
               /\ c.max = Clamp(PromptTokens(SubSeq(s, 1, n)), max)
               /\ Room(PromptTokens(SubSeq(s, 1, n)), max)
               /\ n < Len(s) => ~Room(PromptTokens(SubSeq(s, 1, n + 1)), max)
<1>1. PICK F : F = {n \in 0..Len(s) : Room(PromptTokens(SubSeq(s, 1, n)), max)}
  OBVIOUS
<1>2. PICK n : n = CHOOSE i \in F : \A j \in F : j <= i
  OBVIOUS
<1>3. c = IF F = {} THEN NoCall
          ELSE [chunks |-> SubSeq(s, 1, n), images |-> 0,
                max |-> Clamp(PromptTokens(SubSeq(s, 1, n)), max)]
  BY <1>1, <1>2, Zenon DEF FitContext
<1>4. Len(s) \in Nat /\ F \in SUBSET (0..Len(s))
  BY <1>1
<1>5. CASE F = {}
  <2>1. 0 \in 0..Len(s) /\ SubSeq(s, 1, 0) = <<>>
    BY <1>4
  <2>2. ~Room(PromptTokens(SubSeq(s, 1, 0)), max)
    BY <1>1, <1>5, <2>1
  <2> QED BY <1>3, <1>5, <2>1, <2>2, PromptOfNone
<1>6. CASE F # {}
  <2>1. PICK i \in F : \A j \in F : j <= i
    BY <1>4, <1>6, MaxIn
  <2>2. n \in F /\ \A j \in F : j <= n
    BY <1>2, <2>1
  <2>3. n \in 0..Len(s) /\ Room(PromptTokens(SubSeq(s, 1, n)), max)
    BY <1>1, <2>2
  <2>4. n < Len(s) => ~Room(PromptTokens(SubSeq(s, 1, n + 1)), max)
    <3> SUFFICES ASSUME n < Len(s), Room(PromptTokens(SubSeq(s, 1, n + 1)), max) PROVE FALSE
      OBVIOUS
    <3>1. n + 1 \in 0..Len(s)
      BY <1>4, <2>3
    <3>2. n + 1 \in F
      BY <1>1, <3>1
    <3> QED BY <2>2, <2>3, <3>2
  <2>5. c = [chunks |-> SubSeq(s, 1, n), images |-> 0,
             max |-> Clamp(PromptTokens(SubSeq(s, 1, n)), max)]
    BY <1>3, <1>6
  <2>6. PICK a \in Seq(Entries) : a = SubSeq(s, 1, n)
    <3>1. n \in Nat /\ n <= Len(s)
      BY <1>4, <2>3
    <3>2. SubSeq(s, 1, n) \in Seq(Entries)
      BY <3>1, PrefixFacts
    <3> QED BY <3>2
  <2>7. PICK m \in Nat : m = PromptTokens(a)
    BY PromptFacts
  <2>8. Clamp(m, max) # 0
    BY <2>3, <2>6, <2>7, ClampFacts
  <2>9. c # NoCall
    BY <2>5, <2>6, <2>7, <2>8 DEF NoCall
  <2> QED BY <2>3, <2>4, <2>5, <2>9
<1> QED BY <1>5, <1>6

-----------------------------------------------------------------------------
(* Types and phases are preserved: the floor, the call and the whole step.  *)

\* The passages at or above the floor.
Above(s, min) == {i \in DOMAIN s : s[i].lexical \/ s[i].score >= min}

\* What the floor keeps.
LEMMA FloorFacts ==
  ASSUME Types, Floor
  PROVE  /\ kept' \in Seq(Entries)
         /\ conf.min = 0 => kept' = final
         /\ conf.min # 0 => /\ kept' = At(final, Above(final, conf.min))
                            /\ kept' = <<>> <=> Above(final, conf.min) = {}
         /\ \A i \in DOMAIN kept' : \E j \in DOMAIN final : kept'[i] = final[j]
<1>1. PICK s \in Seq(Entries) : s = final
  BY DEF Types
<1>2. PICK t : t = kept'
  OBVIOUS
<1>3. t = IF conf.min = 0 THEN s ELSE At(s, Above(s, conf.min))
  BY <1>1, <1>2, Zenon DEF Floor, ApplyMinScore, Above
<1>4. CASE conf.min = 0
  BY <1>1, <1>2, <1>3, <1>4
<1>5. CASE conf.min # 0
  <2>1. PICK I \in SUBSET DOMAIN s : I = Above(s, conf.min)
    BY DEF Above
  <2>2. t = At(s, I)
    BY <1>3, <1>5, <2>1
  <2>3. t \in Seq(Entries) /\ Range(t) = {s[i] : i \in I} /\ (I = {} <=> t = <<>>)
    BY <2>2, AtFacts
  <2>4. ASSUME NEW i \in DOMAIN t PROVE \E j \in DOMAIN s : t[i] = s[j]
    <3>1. t[i] \in Range(t)
      BY DEF Range
    <3> QED BY <2>3, <3>1
  <2> QED BY <1>1, <1>2, <1>5, <2>1, <2>2, <2>3, <2>4
<1> QED BY <1>4, <1>5

LEMMA BaseFloor == ASSUME Types, Phases, Floor PROVE Types' /\ Phases'
<1>1. /\ pc = "floor"
      /\ UNCHANGED <<conf, req, queries, turn, vec, fts, byId, fused, final, call, rows, vectors>>
      /\ \/ pc' = "done"
         \/ pc' = "fit" /\ answer' = answer
  BY DEF Floor, Continue, End, legs, store
<1>2. kept' \in Seq(Entries)
  BY FloorFacts
<1>3. Types'
  BY <1>1, <1>2 DEF Types
<1>4. Phases'
  BY <1>1 DEF Phases, Start, Legs
<1> QED BY <1>3, <1>4

LEMMA BaseTimeout == ASSUME Types, Phases, RetrieveTimeout PROVE Types' /\ Phases'
<1>1. /\ pc # "idle" /\ pc' = "done"
      /\ UNCHANGED <<conf, req, queries, turn, vec, fts, byId, fused, final, kept, call, rows, vectors>>
  BY DEF RetrieveTimeout, Retrieving, End, legs, ranking, store
<1>2. Types'
  BY <1>1 DEF Types
<1>3. Phases'
  BY <1>1 DEF Phases, Start, Legs
<1> QED BY <1>2, <1>3

\* What fitting the context sends to the model.
LEMMA FitCall ==
  ASSUME Types, Fit
  PROVE  \/ /\ pc' = "done" /\ answer' = "model_error" /\ call' = call
         \/ /\ pc' = "done" /\ answer' = "too_long" /\ call' = NoCall /\ ~Room(Base, req.max)
         \/ /\ pc' = "generate" /\ answer' = answer /\ call' # NoCall
            /\ \E n \in 0..Len(kept) :
                  /\ call'.chunks = SubSeq(kept, 1, n) /\ call'.images = 0
                  /\ call'.max = Clamp(PromptTokens(SubSeq(kept, 1, n)), req.max)
                  /\ Room(PromptTokens(SubSeq(kept, 1, n)), req.max)
                  /\ n < Len(kept) => ~Room(PromptTokens(SubSeq(kept, 1, n + 1)), req.max)
<1>1. PICK s \in Seq(Entries), m \in Int : s = kept /\ m = req.max
  BY DEF Types, Requests
<1>2. PICK c : c = FitContext(s, m)
  OBVIOUS
<1>3. \/ c = NoCall /\ ~Room(Base, m)
      \/ \E n \in 0..Len(s) :
            /\ c # NoCall /\ c.chunks = SubSeq(s, 1, n) /\ c.images = 0
            /\ c.max = Clamp(PromptTokens(SubSeq(s, 1, n)), m)
            /\ Room(PromptTokens(SubSeq(s, 1, n)), m)
            /\ n < Len(s) => ~Room(PromptTokens(SubSeq(s, 1, n + 1)), m)
  BY <1>2, FitFacts
<1>4. \/ pc' = "done" /\ answer' = "model_error" /\ call' = call
      \/ /\ call' = FitContext(kept, req.max)
         /\ IF call' = NoCall THEN pc' = "done" /\ answer' = "too_long"
            ELSE pc' = "generate" /\ answer' = answer
  BY DEF Fit, Continue, End
<1>5. CASE pc' = "done" /\ answer' = "model_error" /\ call' = call
  BY <1>5
<1>6. CASE /\ call' = FitContext(kept, req.max)
           /\ IF call' = NoCall THEN pc' = "done" /\ answer' = "too_long"
              ELSE pc' = "generate" /\ answer' = answer
  <2>1. call' = c
    BY <1>1, <1>2, <1>6
  <2>2. CASE c = NoCall /\ ~Room(Base, m)
    BY <1>1, <1>6, <2>1, <2>2
  <2>3. CASE \E n \in 0..Len(s) :
            /\ c # NoCall /\ c.chunks = SubSeq(s, 1, n) /\ c.images = 0
            /\ c.max = Clamp(PromptTokens(SubSeq(s, 1, n)), m)
            /\ Room(PromptTokens(SubSeq(s, 1, n)), m)
            /\ n < Len(s) => ~Room(PromptTokens(SubSeq(s, 1, n + 1)), m)
    BY <1>1, <1>6, <2>1, <2>3
  <2> QED BY <1>3, <2>2, <2>3
<1> QED BY <1>4, <1>5, <1>6

LEMMA BaseFit == ASSUME Types, Phases, Fit PROVE Types' /\ Phases'
<1>1. /\ pc = "fit"
      /\ UNCHANGED <<conf, req, queries, turn, vec, fts, byId, fused, final, kept, rows, vectors>>
  BY DEF Fit, legs, ranking, store
<1>2. /\ \/ pc' = "done"
         \/ pc' = "generate" /\ answer' = answer
      /\ \/ call' \in {call, NoCall}
         \/ \E n \in 0..Len(kept) : call'.chunks = SubSeq(kept, 1, n)
  BY FitCall
<1>3. kept \in Seq(Entries) /\ call.chunks \in Seq(Entries)
  BY DEF Types
<1>4. \A n \in 0..Len(kept) : SubSeq(kept, 1, n) \in Seq(Entries)
  <2> SUFFICES ASSUME NEW n \in 0..Len(kept) PROVE SubSeq(kept, 1, n) \in Seq(Entries)
    OBVIOUS
  <2>1. n \in Nat /\ n <= Len(kept)
    BY <1>3
  <2> QED BY <1>3, <2>1, PrefixFacts
<1>5. NoCall.chunks \in Seq(Entries)
  BY DEF NoCall
<1>6. call'.chunks \in Seq(Entries)
  BY <1>2, <1>3, <1>4, <1>5
<1>7. Types'
  BY <1>1, <1>6 DEF Types
<1>8. Phases'
  BY <1>1, <1>2 DEF Phases, Start, Legs
<1> QED BY <1>7, <1>8

LEMMA BaseGenerate == ASSUME Types, Phases, Generate PROVE Types' /\ Phases'
<1>1. /\ pc = "generate" /\ pc' = "done"
      /\ UNCHANGED <<conf, req, queries, turn, vec, fts, byId, fused, final, kept, call, rows, vectors>>
  BY DEF Generate, End, legs, ranking, store
<1>2. Types'
  BY <1>1 DEF Types
<1>3. Phases'
  BY <1>1 DEF Phases, Start, Legs
<1> QED BY <1>2, <1>3

\* A vision request ends, or calls the model without passages.
LEMMA VisionCall ==
  ASSUME ChatVision
  PROVE  \/ pc' = "done" /\ answer' \in {"invalid_image", "model_error"} /\ call' = call
         \/ /\ pc' = "done" /\ answer' = "too_long" /\ call' = call
            /\ ~Room(Base + AllImageTokens(req.images), req.max)
         \/ /\ pc' = "generate" /\ answer' = answer
            /\ Room(Base + AllImageTokens(req.images), req.max)
            /\ call' = [chunks |-> <<>>, images |-> AllImageTokens(req.images),
                        max |-> Clamp(Base + AllImageTokens(req.images), req.max)]
<1>1. PICK n : n = Base + AllImageTokens(req.images)
  OBVIOUS
<1>2. \/ pc' = "done" /\ answer' = "invalid_image" /\ call' = call
      \/ pc' = "done" /\ answer' = "model_error" /\ call' = call
      \/ ~Room(n, req.max) /\ pc' = "done" /\ answer' = "too_long" /\ call' = call
      \/ /\ Room(n, req.max) /\ pc' = "generate" /\ answer' = answer
         /\ call' = [chunks |-> <<>>, max |-> Clamp(n, req.max),
                     images |-> AllImageTokens(req.images)]
  BY <1>1 DEF ChatVision, Continue, End
<1> QED BY <1>1, <1>2

LEMMA BaseVision == ASSUME Types, Phases, ChatVision PROVE Types' /\ Phases'
<1>1. /\ pc = "vision"
      /\ UNCHANGED <<conf, req, queries, turn, vec, fts, byId, fused, final, kept, rows, vectors>>
  BY DEF ChatVision, legs, ranking, store
<1>2. /\ \/ pc' = "done"
         \/ pc' = "generate" /\ answer' = answer
      /\ call' = call \/ call'.chunks = <<>>
  BY VisionCall
<1>3. call'.chunks \in Seq(Entries)
  <2>1. <<>> \in Seq(Entries) /\ call.chunks \in Seq(Entries)
    BY DEF Types
  <2> QED BY <1>2, <2>1
<1>4. Types'
  BY <1>1, <1>3 DEF Types
<1>5. Phases'
  BY <1>1, <1>2 DEF Phases, Start, Legs
<1> QED BY <1>4, <1>5

\* A deletion of a file changes only what is stored.
LEMMA BaseDrop ==
  ASSUME Types, Phases, NEW f, DropVectors(f) \/ DropRows(f) PROVE Types' /\ Phases'
<1>1. UNCHANGED <<conf, req, pc, queries, turn, vec, fts, byId, fused, final, kept, call, answer>>
  BY DEF DropVectors, DropRows, legs, ranking
<1>2. rows' \in SUBSET rows /\ vectors' \in SUBSET vectors
  BY DEF DropVectors, DropRows
<1>3. Types'
  BY <1>1, <1>2 DEF Types
<1>4. Phases'
  BY <1>1 DEF Phases, Start, Legs
<1> QED BY <1>3, <1>4

LEMMA BaseStutter == ASSUME Types, Phases, UNCHANGED vars PROVE Types' /\ Phases'
<1>1. UNCHANGED <<conf, req, pc, queries, turn, vec, fts, byId, fused, final, kept, call, answer,
                  rows, vectors>>
  BY DEF vars
<1>2. Types'
  BY <1>1 DEF Types
<1>3. Phases'
  BY <1>1 DEF Phases, Start, Legs
<1> QED BY <1>2, <1>3

LEMMA BaseStep == Types /\ Phases /\ Scored /\ [Next]_vars => Types' /\ Phases'
<1> SUFFICES ASSUME Types, Phases, Scored, [Next]_vars PROVE Types' /\ Phases'
  OBVIOUS
<1> QED BY BaseArrive, BaseRawQuery, BaseCondenseQuery, BaseResolveTopK, BaseOpenCollection,
           BaseVectorLeg, BaseFilter, BaseFts, BaseFuse, BaseRerank, BaseHydrate, BaseFloor,
           BaseTimeout, BaseFit, BaseGenerate, BaseVision, BaseDrop, BaseStutter DEF Next

-----------------------------------------------------------------------------
(* by_id holds the best evidence while the legs run.                        *)

\* What the next vector list is does not matter until by_id takes it in.
LEMMA SameKeywords ==
  ASSUME NEW c, NEW v, NEW w, NEW n \in Nat, NEW f, DOMAIN f = 1..n,
         \A j \in 1..n : w[j] = v[j]
  PROVE  KeywordFirst(c, w, f) <=> KeywordFirst(c, v, f)
<1>1. \A i \in DOMAIN f : \A j \in 1..i : w[j] = v[j]
  OBVIOUS
<1> QED BY <1>1 DEF KeywordFirst

\* Evidence depends only on the lists it names.
LEMMA EvidenceSame ==
  ASSUME NEW m, NEW q, NEW v, NEW w, NEW n \in Nat, NEW f, DOMAIN f = 1..n,
         \A j \in 1..n : w[j] = v[j], Evidence(m, q, v, n, f)
  PROVE  Evidence(m, q, w, n, f)
<1>1. \A c : KeywordFirst(c, w, f) <=> KeywordFirst(c, v, f)
  BY SameKeywords
<1> QED BY <1>1 DEF Evidence

\* by_id takes in the list t of the next query.
LEMMA EvidenceKeep ==
  ASSUME NEW m, DOMAIN m \subseteq Chunks, NEW q, NEW v, NEW w, NEW n \in Nat,
         NEW f, DOMAIN f = 1..n, Evidence(m, q, v, n, f),
         \A j \in 1..(n + 1) : \A c \in Chunks : q[j].sim[c] \in Nat,
         NEW t, Range(t) \subseteq Chunks, \A j \in 1..n : w[j] = v[j], w[n + 1] = t,
         NEW p, p = KeepBest(m, q[n + 1], t)
  PROVE  DOMAIN p \subseteq Chunks /\ Evidence(p, q, w, n + 1, f)
<1>1. \A c : KeywordFirst(c, w, f) <=> KeywordFirst(c, v, f)
  BY SameKeywords
<1>2. n + 1 \in 1..(n + 1) /\ \A j \in 1..(n + 1) : j \in 1..n \/ j = n + 1
  OBVIOUS
<1>3. \A j \in 1..n : j \in 1..(n + 1)
  OBVIOUS
<1>4. DOMAIN p = DOMAIN m \cup Range(t)
  BY DEF KeepBest
<1>5. \A c \in DOMAIN p :
         p[c] = IF c \in Range(t) /\ (c \notin DOMAIN m \/ q[n + 1].sim[c] > m[c].score)
                THEN [score |-> q[n + 1].sim[c], lexical |-> FALSE] ELSE m[c]
  BY DEF KeepBest
<1>6. \A c \in Chunks : c \in DOMAIN m <=>
          \/ \E j \in 1..n : c \in Range(v[j])
          \/ \E i \in DOMAIN f : c \in Range(f[i])
  BY DEF Evidence
<1>7. ASSUME NEW c \in Chunks
      PROVE  c \in DOMAIN p <=> \/ \E j \in 1..(n + 1) : c \in Range(w[j])
                                \/ \E i \in DOMAIN f : c \in Range(f[i])
  <2>1. (\E j \in 1..(n + 1) : c \in Range(w[j])) <=>
           (\E j \in 1..n : c \in Range(v[j])) \/ c \in Range(t)
    BY <1>2, <1>3
  <2> QED BY <1>4, <1>6, <2>1
<1>8. ASSUME NEW c \in DOMAIN p
      PROVE  /\ p[c].score \in Nat /\ p[c].lexical \in BOOLEAN
             /\ \A j \in 1..(n + 1) : c \in Range(w[j]) => q[j].sim[c] <= p[c].score
             /\ \/ p[c].score = 0
                \/ \E j \in 1..(n + 1) : c \in Range(w[j]) /\ q[j].sim[c] = p[c].score
             /\ p[c].lexical <=> p[c].score = 0 /\ KeywordFirst(c, w, f)
  <2>1. c \in Chunks
    BY <1>4
  <2>2. PICK x \in Nat : x = q[n + 1].sim[c]
    BY <1>2, <2>1
  <2>3. CASE c \in Range(t) /\ (c \notin DOMAIN m \/ x > m[c].score)
    <3>1. p[c] = [score |-> x, lexical |-> FALSE]
      BY <1>5, <2>2, <2>3
    <3>2. p[c].score = x /\ ~p[c].lexical /\ p[c].lexical \in BOOLEAN
      BY <3>1
    <3>3. ASSUME NEW j \in 1..(n + 1), c \in Range(w[j]) PROVE q[j].sim[c] <= x
      <4>1. CASE j = n + 1
        BY <2>2, <4>1
      <4>2. CASE j \in 1..n
        <5>1. c \in Range(v[j]) /\ c \in DOMAIN m
          BY <1>6, <2>1, <3>3, <4>2
        <5>2. q[j].sim[c] <= m[c].score /\ m[c].score \in Nat
          BY <4>2, <5>1 DEF Evidence
        <5>3. q[j].sim[c] \in Nat
          BY <2>1
        <5> QED BY <2>3, <5>1, <5>2, <5>3
      <4> QED BY <1>2, <4>1, <4>2
    <3>4. c \in Range(w[n + 1]) /\ q[n + 1].sim[c] = x
      BY <2>2, <2>3
    <3>5. ~(x = 0 /\ KeywordFirst(c, v, f))
      <4> SUFFICES ASSUME x = 0, KeywordFirst(c, v, f) PROVE FALSE
        OBVIOUS
      <4>1. \E i \in DOMAIN f : c \in Range(f[i])
        BY DEF KeywordFirst
      <4>2. c \in DOMAIN m
        BY <1>6, <2>1, <4>1
      <4>3. m[c].score \in Nat
        BY <4>2 DEF Evidence
      <4> QED BY <2>3, <4>2, <4>3
    <3>6. \E j \in 1..(n + 1) : c \in Range(w[j]) /\ q[j].sim[c] = x
      BY <1>2, <3>4
    <3> QED BY <1>1, <2>2, <3>2, <3>3, <3>5, <3>6
  <2>4. CASE ~(c \in Range(t) /\ (c \notin DOMAIN m \/ x > m[c].score))
    <3>1. p[c] = m[c] /\ c \in DOMAIN m
      BY <1>4, <1>5, <2>2, <2>4
    <3>2. /\ m[c].score \in Nat /\ m[c].lexical \in BOOLEAN
          /\ \A j \in 1..n : c \in Range(v[j]) => q[j].sim[c] <= m[c].score
          /\ \/ m[c].score = 0
             \/ \E j \in 1..n : c \in Range(v[j]) /\ q[j].sim[c] = m[c].score
          /\ m[c].lexical <=> m[c].score = 0 /\ KeywordFirst(c, v, f)
      BY <3>1 DEF Evidence
    <3>3. ASSUME NEW j \in 1..(n + 1), c \in Range(w[j]) PROVE q[j].sim[c] <= m[c].score
      <4>1. CASE j = n + 1
        BY <2>2, <2>4, <3>1, <3>2, <3>3, <4>1
      <4>2. CASE j \in 1..n
        BY <3>2, <3>3, <4>2
      <4> QED BY <1>2, <4>1, <4>2
    <3>4. \/ m[c].score = 0
          \/ \E j \in 1..(n + 1) : c \in Range(w[j]) /\ q[j].sim[c] = m[c].score
      BY <1>3, <3>2
    <3> QED BY <1>1, <3>1, <3>2, <3>3, <3>4
  <2> QED BY <2>3, <2>4
<1>9. Evidence(p, q, w, n + 1, f)
  BY <1>7, <1>8 DEF Evidence
<1> QED BY <1>4, <1>9

\* by_id takes in the hits s of the other leg.
LEMMA EvidenceHits ==
  ASSUME NEW m, DOMAIN m \subseteq Chunks, NEW q, NEW v, NEW n \in Nat, DOMAIN v = 1..(n + 1),
         NEW f, DOMAIN f = 1..n, Evidence(m, q, v, n + 1, f),
         NEW s, Range(s) \subseteq Chunks,
         NEW g, DOMAIN g = 1..(n + 1), \A i \in 1..n : g[i] = f[i], g[n + 1] = s,
         NEW p, p = AddHits(m, s)
  PROVE  DOMAIN p \subseteq Chunks /\ Evidence(p, q, v, n + 1, g)
<1>1. n + 1 \in 1..(n + 1) /\ \A j \in 1..(n + 1) : j \in 1..n \/ j = n + 1
  OBVIOUS
<1>2. \A j \in 1..n : j \in 1..(n + 1)
  OBVIOUS
<1>3. DOMAIN p = DOMAIN m \cup Range(s)
  BY DEF AddHits
<1>4. \A c \in DOMAIN p : p[c] = IF c \in DOMAIN m THEN m[c] ELSE [score |-> 0, lexical |-> TRUE]
  BY DEF AddHits
<1>5. \A c \in Chunks : c \in DOMAIN m <=>
          \/ \E j \in 1..(n + 1) : c \in Range(v[j])
          \/ \E i \in DOMAIN f : c \in Range(f[i])
  BY DEF Evidence
<1>6. \A c : KeywordFirst(c, v, g) <=>
                \/ KeywordFirst(c, v, f)
                \/ c \in Range(s) /\ \A j \in 1..(n + 1) : c \notin Range(v[j])
  BY <1>1, <1>2 DEF KeywordFirst
<1>7. ASSUME NEW c \in Chunks
      PROVE  c \in DOMAIN p <=> \/ \E j \in 1..(n + 1) : c \in Range(v[j])
                                \/ \E i \in DOMAIN g : c \in Range(g[i])
  <2>1. (\E i \in DOMAIN g : c \in Range(g[i])) <=>
           (\E i \in DOMAIN f : c \in Range(f[i])) \/ c \in Range(s)
    BY <1>1, <1>2
  <2> QED BY <1>3, <1>5, <2>1
<1>8. ASSUME NEW c \in DOMAIN p
      PROVE  /\ p[c].score \in Nat /\ p[c].lexical \in BOOLEAN
             /\ \A j \in 1..(n + 1) : c \in Range(v[j]) => q[j].sim[c] <= p[c].score
             /\ \/ p[c].score = 0
                \/ \E j \in 1..(n + 1) : c \in Range(v[j]) /\ q[j].sim[c] = p[c].score
             /\ p[c].lexical <=> p[c].score = 0 /\ KeywordFirst(c, v, g)
  <2>1. c \in Chunks
    BY <1>3
  <2>2. CASE c \in DOMAIN m
    <3>1. p[c] = m[c]
      BY <1>4, <2>2
    <3>2. /\ m[c].score \in Nat /\ m[c].lexical \in BOOLEAN
          /\ \A j \in 1..(n + 1) : c \in Range(v[j]) => q[j].sim[c] <= m[c].score
          /\ \/ m[c].score = 0
             \/ \E j \in 1..(n + 1) : c \in Range(v[j]) /\ q[j].sim[c] = m[c].score
          /\ m[c].lexical <=> m[c].score = 0 /\ KeywordFirst(c, v, f)
      BY <2>2 DEF Evidence
    <3>3. KeywordFirst(c, v, g) <=> KeywordFirst(c, v, f)
      <4> SUFFICES ASSUME c \in Range(s), \A j \in 1..(n + 1) : c \notin Range(v[j])
                   PROVE  KeywordFirst(c, v, f)
        BY <1>6
      <4>1. PICK i \in DOMAIN f : c \in Range(f[i])
        BY <1>5, <2>1, <2>2
      <4>2. \A j \in 1..i : j \in 1..(n + 1)
        BY <4>1
      <4> QED BY <4>1, <4>2 DEF KeywordFirst
    <3> QED BY <3>1, <3>2, <3>3
  <2>3. CASE c \notin DOMAIN m
    <3>1. p[c] = [score |-> 0, lexical |-> TRUE] /\ c \in Range(s)
      BY <1>3, <1>4, <2>3
    <3>2. p[c].score = 0 /\ p[c].lexical /\ p[c].lexical \in BOOLEAN
      BY <3>1
    <3>3. \A j \in 1..(n + 1) : c \notin Range(v[j])
      BY <1>5, <2>1, <2>3
    <3>4. KeywordFirst(c, v, g)
      BY <1>6, <3>1, <3>3
    <3> QED BY <3>2, <3>3, <3>4
  <2> QED BY <2>2, <2>3
<1>9. Evidence(p, q, v, n + 1, g)
  BY <1>7, <1>8 DEF Evidence
<1> QED BY <1>3, <1>9

LEMMA ScoredOpen == ASSUME Types, Phases, OpenCollection PROVE Scored'
<1>1. /\ vec' = <<>> /\ fts' = <<>> /\ byId' = <<>>
      /\ pc' \in {"vector", "floor", "done"}
  BY DEF OpenCollection, Continue, End, legs, Phases, Start
<1>2. DOMAIN <<>> = {} /\ Len(<<>>) = 0 /\ 1..0 = {}
  OBVIOUS
<1>3. Evidence(<<>>, queries', <<>>, 0, <<>>)
  BY <1>2 DEF Evidence
<1>4. (IF pc' = "filter" THEN turn' - 1 ELSE Len(vec')) = 0
  BY <1>1, <1>2
<1> QED BY <1>1, <1>2, <1>3, <1>4 DEF Scored

LEMMA ScoredVector == ASSUME Types, Phases, Scored, VectorLeg PROVE Scored'
<1>1. /\ pc = "vector" /\ queries' = queries /\ turn' = turn /\ fts' = fts /\ byId' = byId
  BY DEF VectorLeg
<1>2. CASE pc' = "done"
  BY <1>2 DEF Scored, Legs
<1>3. CASE pc' = "filter" /\ \E s \in DenseLists(queries[turn]) : vec' = Append(vec, s)
  <2>1. PICK n \in Nat : n = turn - 1 /\ n = Len(vec) /\ n = Len(fts)
    BY <1>1 DEF Types, Phases
  <2>2. PICK s \in Lists : vec' = Append(vec, s)
    BY <1>3, DenseFacts
  <2>3. \A j \in 1..n : vec'[j] = vec[j]
    <3>1. PICK v \in Seq(Lists) : v = vec /\ n = Len(v)
      BY <2>1 DEF Types
    <3>2. \A j \in 1..n : Append(v, s)[j] = v[j]
      BY <3>1
    <3> QED BY <2>2, <3>1, <3>2
  <2>4. DOMAIN fts = 1..n
    BY <2>1 DEF Types
  <2>5. Evidence(byId, queries, vec, n, fts) /\ DOMAIN byId \subseteq Chunks
    BY <1>1, <2>1 DEF Scored, Legs
  <2>6. Evidence(byId, queries, vec', n, fts)
    BY <2>3, <2>4, <2>5, EvidenceSame
  <2>7. (IF pc' = "filter" THEN turn' - 1 ELSE Len(vec')) = n
    BY <1>1, <1>3, <2>1
  <2> QED BY <1>1, <2>5, <2>6, <2>7 DEF Scored
<1> QED BY <1>2, <1>3 DEF VectorLeg, Continue, End

LEMMA ScoredFilter == ASSUME Types, Phases, Scored, FilterVectorIds PROVE Scored'
<1>1. pc = "filter" /\ queries' = queries /\ turn' = turn /\ fts' = fts
  BY DEF FilterVectorIds
<1>2. CASE pc' = "done"
  BY <1>2 DEF Scored, Legs
<1>3. CASE LET s == At(vec[turn], {i \in DOMAIN vec[turn] : Selected(vec[turn][i])})
           IN  /\ pc' = "sparse" /\ vec' = [vec EXCEPT ![turn] = s]
               /\ byId' = KeepBest(byId, queries[turn], s)
  <2>1. PICK n \in Nat : n = turn - 1 /\ Len(vec) = n + 1 /\ n = Len(fts) /\ n + 1 = turn
    BY <1>1 DEF Types, Phases
  <2>2. PICK t : /\ t = At(vec[turn], {i \in DOMAIN vec[turn] : Selected(vec[turn][i])})
                 /\ pc' = "sparse" /\ vec' = [vec EXCEPT ![turn] = t]
                 /\ byId' = KeepBest(byId, queries[turn], t)
    BY <1>3
  <2>3. vec \in Seq(Lists) /\ DOMAIN vec = 1..(n + 1)
    BY <2>1 DEF Types
  <2>4. PICK s \in Lists : s = vec[turn]
    BY <2>1, <2>3
  <2>5. t \in Lists
    BY <2>2, <2>4, SelectedFacts
  <2>6. Range(t) \subseteq Chunks
    BY <2>5, InLists, ListFacts
  <2>7. \A j \in 1..n : vec'[j] = vec[j]
    BY <2>1, <2>2, <2>3
  <2>8. vec'[n + 1] = t /\ Len(vec') = n + 1
    BY <2>1, <2>2, <2>3
  <2>9. DOMAIN fts = 1..n
    BY <2>1 DEF Types
  <2>10. Evidence(byId, queries, vec, n, fts) /\ DOMAIN byId \subseteq Chunks
    BY <1>1, <2>1 DEF Scored, Legs
  <2>11. \A j \in 1..(n + 1) : \A c \in Chunks : queries[j].sim[c] \in Nat
    <3>1. \A j \in 1..(n + 1) : queries[j] \in Queries
      BY <1>1, <2>1 DEF Types, Phases, Legs
    <3> QED BY <3>1, RetrievalAssumption
  <2>12. byId' = KeepBest(byId, queries[n + 1], t)
    BY <2>1, <2>2
  <2>13. DOMAIN byId' \subseteq Chunks /\ Evidence(byId', queries, vec', n + 1, fts)
    BY <2>6, <2>7, <2>8, <2>9, <2>10, <2>11, <2>12, EvidenceKeep
  <2>14. (IF pc' = "filter" THEN turn' - 1 ELSE Len(vec')) = n + 1
    BY <2>2, <2>8
  <2> QED BY <1>1, <2>13, <2>14 DEF Scored
<1> QED BY <1>2, <1>3, Zenon DEF FilterVectorIds, Continue, End

LEMMA ScoredFts == ASSUME Types, Phases, Scored, FtsSearch PROVE Scored'
<1>0. CASE FtsEnds
  BY <1>0 DEF FtsEnds, Scored, Legs
<1> SUFFICES ASSUME FtsGoesOn PROVE Scored'
  BY <1>0, FtsCases
<1>1. /\ pc = "sparse" /\ queries' = queries /\ vec' = vec /\ pc' \in {"vector", "fuse"}
  BY FtsCases DEF FtsGoesOn
<1>2. PICK s : /\ s \in {<<>>} \cup SparseLists(queries[turn])
               /\ fts' = Append(fts, s) /\ byId' = AddHits(byId, s)
  BY DEF FtsGoesOn
<1>3. s \in Lists
  BY <1>2, SparseFacts, EmptyList, InLists
<1>4. Range(s) \subseteq Chunks
  BY <1>3, InLists, ListFacts
<1>5. PICK n \in Nat : n = turn - 1 /\ Len(vec) = n + 1 /\ n = Len(fts)
  BY <1>1 DEF Types, Phases
<1>6. DOMAIN vec = 1..(n + 1) /\ DOMAIN fts = 1..n
  BY <1>5 DEF Types
<1>7. PICK g : g = fts' /\ DOMAIN g = 1..(n + 1) /\ g[n + 1] = s /\ \A i \in 1..n : g[i] = fts[i]
  <2>1. fts \in Seq(Lists)
    BY DEF Types
  <2>2. PICK g \in Seq(Lists) : g = fts' /\ g = Append(fts, s)
    BY <1>2, <1>3, <2>1
  <2>3. Len(g) = n + 1 /\ g[n + 1] = s /\ \A i \in 1..n : g[i] = fts[i]
    BY <1>3, <1>5, <2>1, <2>2
  <2> QED BY <2>2, <2>3
<1>8. Evidence(byId, queries, vec, n + 1, fts) /\ DOMAIN byId \subseteq Chunks
  BY <1>1, <1>5 DEF Scored, Legs
<1>9. PICK p : p = byId' /\ p = AddHits(byId, s)
  BY <1>2
<1>10. DOMAIN p \subseteq Chunks /\ Evidence(p, queries, vec, n + 1, g)
  BY <1>4, <1>6, <1>7, <1>8, <1>9, EvidenceHits
<1>11. (IF pc' = "filter" THEN turn' - 1 ELSE Len(vec')) = n + 1
  BY <1>1, <1>5
<1> QED BY <1>1, <1>7, <1>9, <1>10, <1>11 DEF Scored

LEMMA ScoredStep == Types /\ Phases /\ Scored /\ [Next]_vars => Scored'
<1> SUFFICES ASSUME Types, Phases, Scored, [Next]_vars PROVE Scored'
  OBVIOUS
<1>1. ASSUME pc' \notin Legs PROVE Scored'
  BY <1>1 DEF Scored
<1>2. ASSUME UNCHANGED <<pc, queries, turn, vec, fts, byId>> PROVE Scored'
  BY <1>2 DEF Scored
<1>3. CASE Arrive
  BY <1>1, <1>3 DEF Arrive, Continue, Legs
<1>4. CASE RawQuery
  BY <1>1, <1>4 DEF RawQuery, Continue, Legs
<1>5. CASE CondenseQuery
  BY <1>1, <1>5 DEF CondenseQuery, Continue, End, Legs
<1>6. CASE ResolveTopK
  BY <1>1, <1>6 DEF ResolveTopK, Continue, End, Legs
<1>7. CASE Fuse
  BY <1>1, <1>7 DEF Fuse, Continue, Legs
<1>8. CASE Rerank
  BY <1>1, <1>8, RerankFinal DEF Legs
<1>9. CASE HydrateProvenance
  BY <1>1, <1>9 DEF HydrateProvenance, Continue, Legs
<1>10. CASE Floor
  BY <1>1, <1>10 DEF Floor, Continue, End, Legs
<1>11. CASE RetrieveTimeout
  BY <1>1, <1>11 DEF RetrieveTimeout, End, Legs
<1>12. CASE Fit
  BY <1>1, <1>12, FitCall DEF Legs
<1>13. CASE Generate
  BY <1>1, <1>13 DEF Generate, End, Legs
<1>14. CASE ChatVision
  BY <1>1, <1>14, VisionCall DEF Legs
<1>15. CASE \E f \in Files : DropVectors(f) \/ DropRows(f)
  BY <1>2, <1>15 DEF DropVectors, DropRows, legs
<1>16. CASE UNCHANGED vars
  BY <1>2, <1>16 DEF vars
<1> QED BY <1>3, <1>4, <1>5, <1>6, <1>7, <1>8, <1>9, <1>10, <1>11, <1>12, <1>13, <1>14,
           <1>15, <1>16, ScoredOpen, ScoredVector, ScoredFilter, ScoredFts DEF Next

-----------------------------------------------------------------------------
(* The filters.                                                             *)

BaseInv == Types /\ Phases /\ Scored

LEMMA BaseInvStep == BaseInv /\ [Next]_vars => BaseInv'
BY BaseStep, ScoredStep DEF BaseInv

LEMMA BaseInvInit == Init => BaseInv
<1> SUFFICES ASSUME Init PROVE BaseInv
  OBVIOUS
<1>1. Scored
  BY DEF Init, Scored, Legs
<1> QED BY <1>1, BaseInit DEF BaseInv

LEMMA BaseInvAlways == Spec => []BaseInv
BY BaseInvInit, BaseInvStep, PTL DEF Spec

-----------------------------------------------------------------------------
(* The filters of the request.                                              *)

\* An empty list has no places.
LEMMA NoneIsEmpty ==
  ASSUME NEW s, s = <<>> PROVE DOMAIN s = {} /\ Range(s) = {}
<1>1. DOMAIN s = {}
  OBVIOUS
<1> QED BY <1>1 DEF Range

LEMMA FilteredInit == Init => Filtered
<1> SUFFICES ASSUME Init PROVE Filtered
  OBVIOUS
<1>1. pc = "idle" /\ final = <<>> /\ kept = <<>> /\ call.chunks = <<>>
  BY DEF Init, NoCall
<1>2. DOMAIN final = {} /\ DOMAIN kept = {} /\ DOMAIN call.chunks = {}
  BY <1>1, NoneIsEmpty
<1> QED BY <1>1, <1>2 DEF Filtered, IdsPass, Legs

\* A step that touches no list and leaves the legs as they are.
LEMMA FilteredSame ==
  ASSUME Filtered, req'.filter = req.filter, UNCHANGED <<vec, fts, turn>>,
         pc' = pc \/ pc' \notin Legs,
         IdsPass(final)', IdsPass(kept)', IdsPass(call.chunks)'
  PROVE  Filtered'
BY DEF Filtered, AllPass, Legs

\* Passages that pass go on passing while they and the filter stay.
LEMMA IdsSame ==
  ASSUME Filtered, req'.filter = req.filter
  PROVE  /\ final' = final => IdsPass(final)'
         /\ kept' = kept => IdsPass(kept)'
         /\ call' = call => IdsPass(call.chunks)'
BY DEF Filtered, IdsPass

LEMMA FilteredArrive == ASSUME Phases, Arrive PROVE Filtered'
<1>1. /\ pc' \notin Legs
      /\ final' = <<>> /\ kept' = <<>> /\ call' = NoCall
  BY DEF Arrive, Continue, Legs, Phases, Start, ranking
<1>2. call'.chunks = <<>>
  BY <1>1 DEF NoCall
<1>3. DOMAIN final' = {} /\ DOMAIN kept' = {} /\ DOMAIN call'.chunks = {}
  BY <1>1, <1>2, NoneIsEmpty
<1> QED BY <1>1, <1>3 DEF Filtered, IdsPass, Legs

LEMMA FilteredOpen == ASSUME Types, Phases, Filtered, OpenCollection PROVE Filtered'
<1>1. /\ pc' \in {"vector", "floor", "done"} /\ vec' = <<>> /\ fts' = <<>>
      /\ UNCHANGED <<req, final, kept, call>>
  BY DEF OpenCollection, Continue, End, legs, ranking, Phases, Start
<1>2. DOMAIN vec' = {} /\ DOMAIN fts' = {}
  BY <1>1, NoneIsEmpty
<1>3. IdsPass(final)' /\ IdsPass(kept)' /\ IdsPass(call.chunks)'
  BY <1>1, IdsSame
<1> QED BY <1>1, <1>2, <1>3 DEF Filtered, Legs

LEMMA FilteredVector == ASSUME Types, Phases, Filtered, VectorLeg PROVE Filtered'
<1>1. pc = "vector" /\ UNCHANGED <<req, turn, fts, final, kept, call>>
  BY DEF VectorLeg, ranking
<1>2. IdsPass(final)' /\ IdsPass(kept)' /\ IdsPass(call.chunks)'
  BY <1>1, IdsSame
<1>3. CASE pc' = "done"
  BY <1>2, <1>3 DEF Filtered, Legs
<1>4. CASE pc' = "filter" /\ \E s \in DenseLists(queries[turn]) : vec' = Append(vec, s)
  <2>1. PICK s \in DenseLists(queries[turn]) : vec' = Append(vec, s)
    BY <1>4
  <2>2. s \in Lists /\ \A c \in Range(s) : InFiles(c, req.filter)
    BY DenseFacts
  <2>3. PICK v \in Seq(Lists) : v = vec /\ turn = Len(v) + 1
    BY <1>1 DEF Types, Phases
  <2>4. PICK w \in Seq(Lists) : w = vec' /\ w = Append(v, s)
    BY <2>1, <2>2, <2>3
  <2>5. w[turn] = s /\ \A j \in DOMAIN w : j < turn => j \in DOMAIN v /\ w[j] = v[j]
    BY <2>2, <2>3, <2>4
  <2>6. \A j \in DOMAIN vec : AllPass(vec[j])
    BY <1>1 DEF Filtered
  <2>7. \A j \in DOMAIN fts : AllPass(fts[j])
    BY <1>1 DEF Filtered, Legs
  <2>8. \A j \in DOMAIN vec' : j < turn' => AllPass(vec[j])'
    BY <1>1, <2>3, <2>4, <2>5, <2>6 DEF AllPass
  <2>9. \A c \in Range(vec'[turn']) : InFiles(c, req'.filter)
    BY <1>1, <2>2, <2>4, <2>5
  <2>10. \A j \in DOMAIN fts' : AllPass(fts[j])'
    BY <1>1, <2>7 DEF AllPass
  <2> QED BY <1>2, <1>4, <2>8, <2>9, <2>10 DEF Filtered
<1> QED BY <1>3, <1>4 DEF VectorLeg, Continue, End

LEMMA FilteredFilter == ASSUME Types, Phases, Filtered, FilterVectorIds PROVE Filtered'
<1>1. pc = "filter" /\ UNCHANGED <<req, turn, fts, final, kept, call>>
  BY DEF FilterVectorIds, ranking
<1>2. IdsPass(final)' /\ IdsPass(kept)' /\ IdsPass(call.chunks)'
  BY <1>1, IdsSame
<1>3. CASE pc' = "done"
  BY <1>2, <1>3 DEF Filtered, Legs
<1>4. CASE /\ pc' = "sparse"
           /\ vec' = [vec EXCEPT ![turn] =
                        At(vec[turn], {i \in DOMAIN vec[turn] : Selected(vec[turn][i])})]
  <2>1. PICK v \in Seq(Lists) : v = vec /\ turn = Len(v) /\ turn \in DOMAIN v
    BY <1>1 DEF Types, Phases
  <2>2. PICK s \in Lists : s = v[turn]
    BY <2>1
  <2>3. PICK t : t = At(s, {i \in DOMAIN s : Selected(s[i])})
    OBVIOUS
  <2>4. t \in Lists /\ Range(t) = {c \in Range(s) : Selected(c)}
    BY <2>3, SelectedFacts
  <2>5. vec' = [v EXCEPT ![turn] = t]
    BY <1>4, <2>1, <2>2, <2>3
  <2>6. \A c \in Range(s) : InFiles(c, req.filter)
    BY <1>1, <2>1, <2>2 DEF Filtered
  <2>7. \A c \in Range(t) : Passes(c, req.filter)
    BY <2>4, <2>6 DEF Selected, Passes
  <2>8. \A j \in DOMAIN v : j < turn => AllPass(v[j])
    BY <1>1, <2>1 DEF Filtered
  <2>9. \A j \in DOMAIN fts : AllPass(fts[j])
    BY <1>1 DEF Filtered, Legs
  <2>10. \A j \in DOMAIN v : j = turn \/ j < turn
    BY <2>1
  <2>11. \A j \in DOMAIN vec' : AllPass(vec[j])'
    <3> SUFFICES ASSUME NEW j \in DOMAIN v PROVE \A c \in Range(vec'[j]) : Passes(c, req'.filter)
      BY <2>5 DEF AllPass
    <3>1. CASE j = turn
      BY <1>1, <2>1, <2>5, <2>7, <3>1
    <3>2. CASE j < turn
      <4>1. vec'[j] = v[j]
        BY <2>1, <2>5, <3>2
      <4> QED BY <1>1, <2>8, <3>2, <4>1 DEF AllPass
    <3> QED BY <2>10, <3>1, <3>2
  <2>12. \A j \in DOMAIN fts' : AllPass(fts[j])'
    BY <1>1, <2>9 DEF AllPass
  <2> QED BY <1>2, <1>4, <2>11, <2>12 DEF Filtered
<1>5. \/ pc' = "done"
      \/ /\ pc' = "sparse"
         /\ vec' = [vec EXCEPT ![turn] =
                        At(vec[turn], {i \in DOMAIN vec[turn] : Selected(vec[turn][i])})]
  BY Zenon DEF FilterVectorIds, Continue, End
<1> QED BY <1>3, <1>4, <1>5

LEMMA FilteredFts == ASSUME Types, Phases, Filtered, FtsSearch PROVE Filtered'
<1>0. UNCHANGED <<req, final, kept, call>>
  BY FtsCases
<1>2. IdsPass(final)' /\ IdsPass(kept)' /\ IdsPass(call.chunks)'
  BY <1>0, IdsSame
<1>a. CASE FtsEnds
  BY <1>2, <1>a DEF FtsEnds, Filtered, Legs
<1> SUFFICES ASSUME FtsGoesOn PROVE Filtered'
  BY <1>a, FtsCases
<1>1. pc = "sparse" /\ UNCHANGED <<req, vec, final, kept, call>> /\ pc' \in {"vector", "fuse"}
  BY FtsCases DEF FtsGoesOn
<1>3. PICK s \in {<<>>} \cup SparseLists(queries[turn]) : fts' = Append(fts, s)
  BY DEF FtsGoesOn
<1>4. s \in Lists /\ \A c \in Range(s) : Passes(c, req.filter)
  <2>1. CASE s = <<>>
    BY <2>1, NoneIsEmpty, EmptyList, InLists
  <2>2. CASE s \in SparseLists(queries[turn])
    BY <2>2, SparseFacts
  <2> QED BY <1>3, <2>1, <2>2
<1>5. PICK f \in Seq(Lists), g \in Seq(Lists) : f = fts /\ g = fts' /\ g = Append(f, s)
  <2>1. PICK f \in Seq(Lists) : f = fts
    BY DEF Types
  <2>2. Append(f, s) \in Seq(Lists)
    BY <1>4, <2>1
  <2> QED BY <1>3, <2>1, <2>2
<1>6. \A j \in DOMAIN g : g[j] = s \/ (j \in DOMAIN f /\ g[j] = f[j])
  BY <1>4, <1>5
<1>7. \A j \in DOMAIN f : AllPass(f[j])
  BY <1>1, <1>5 DEF Filtered, Legs
<1>8. \A j \in DOMAIN fts' : AllPass(fts[j])'
  BY <1>1, <1>4, <1>5, <1>6, <1>7 DEF AllPass
<1>9. \A j \in DOMAIN vec' : AllPass(vec[j])'
  BY <1>1 DEF Filtered, AllPass
<1> QED BY <1>1, <1>2, <1>8, <1>9 DEF Filtered

\* Candidates of lists that pass, pass.
LEMMA CandidatesPass ==
  ASSUME Types, Filtered, pc = "fuse"
  PROVE  \A c \in Candidates(vec \o fts) : Passes(c, req.filter)
<1>1. /\ \A j \in DOMAIN vec : AllPass(vec[j])
      /\ \A j \in DOMAIN fts : AllPass(fts[j])
  BY DEF Filtered, Legs
<1> QED BY <1>1, CandidateFacts DEF AllPass

LEMMA FilteredFuse == ASSUME Types, Phases, Scored, Filtered, Fuse \/ Rerank PROVE Filtered'
<1>1. /\ pc = "fuse" /\ pc' \notin Legs /\ UNCHANGED <<req, vec, fts, turn, kept, call>>
  <2>1. CASE Fuse
    BY <2>1 DEF Fuse, Continue, Legs, legs
  <2>2. CASE Rerank
    BY <2>2, RerankFinal DEF Rerank, Legs, legs
  <2> QED BY <2>1, <2>2
<1>2. final' = final \/ \A i \in DOMAIN final' : final'[i].id \in Candidates(vec \o fts)
  BY FuseFinal, RerankFinal
<1>3. IdsPass(kept)' /\ IdsPass(call.chunks)' /\ (final' = final => IdsPass(final)')
  BY <1>1, IdsSame
<1>4. IdsPass(final)'
  <2>1. CASE \A i \in DOMAIN final' : final'[i].id \in Candidates(vec \o fts)
    BY <1>1, <2>1, CandidatesPass DEF IdsPass
  <2> QED BY <1>2, <1>3, <2>1
<1> QED BY <1>1, <1>3, <1>4, FilteredSame

LEMMA FilteredHydrate == ASSUME Types, Phases, Filtered, HydrateProvenance PROVE Filtered'
<1>1. pc' \notin Legs /\ UNCHANGED <<req, vec, fts, turn, kept, call>>
  BY DEF HydrateProvenance, Continue, Legs, legs
<1>2. IdsPass(kept)' /\ IdsPass(call.chunks)'
  BY <1>1, IdsSame
<1>3. IdsPass(final)'
  <2>1. DOMAIN final' = DOMAIN final /\ \A i \in DOMAIN final : final'[i].id = final[i].id
    BY HydrateFinal
  <2> QED BY <1>1, <2>1 DEF Filtered, IdsPass
<1> QED BY <1>1, <1>2, <1>3, FilteredSame

LEMMA FilteredFloor == ASSUME Types, Phases, Filtered, Floor PROVE Filtered'
<1>1. pc' \notin Legs /\ UNCHANGED <<req, vec, fts, turn, final, call>>
  BY DEF Floor, Continue, End, Legs, legs
<1>2. IdsPass(final)' /\ IdsPass(call.chunks)'
  BY <1>1, IdsSame
<1>3. IdsPass(kept)'
  <2>1. \A i \in DOMAIN kept' : \E j \in DOMAIN final : kept'[i] = final[j]
    BY FloorFacts
  <2>2. IdsPass(final)
    BY DEF Filtered
  <2> QED BY <1>1, <2>1, <2>2 DEF IdsPass
<1> QED BY <1>1, <1>2, <1>3, FilteredSame

LEMMA FilteredFit == ASSUME Types, Phases, Filtered, Fit PROVE Filtered'
<1>1. UNCHANGED <<req, vec, fts, turn, final, kept>>
  BY DEF Fit, legs, ranking
<1>2. /\ pc' \notin Legs
      /\ \/ call' = call
         \/ call' = NoCall
         \/ \E n \in 0..Len(kept) : call'.chunks = SubSeq(kept, 1, n)
  BY FitCall DEF Legs
<1>3. IdsPass(final)' /\ IdsPass(kept)' /\ (call' = call => IdsPass(call.chunks)')
  BY <1>1, IdsSame
<1>4. IdsPass(call.chunks)'
  <2>1. CASE call' = NoCall
    <3>1. DOMAIN call'.chunks = {}
      BY <2>1, NoneIsEmpty DEF NoCall
    <3> QED BY <3>1 DEF IdsPass
  <2>2. CASE \E n \in 0..Len(kept) : call'.chunks = SubSeq(kept, 1, n)
    <3>1. PICK s \in Seq(Entries) : s = kept
      BY DEF Types
    <3>2. PICK n \in Nat : n <= Len(s) /\ call'.chunks = SubSeq(s, 1, n)
      BY <2>2, <3>1
    <3>3. PICK t : t = SubSeq(s, 1, n) /\ DOMAIN t = 1..n /\ \A i \in 1..n : t[i] = s[i]
      BY <3>2, PrefixFacts
    <3>4. \A i \in 1..n : i \in DOMAIN s
      BY <3>2
    <3>5. \A i \in DOMAIN s : Passes(s[i].id, req.filter)
      BY <3>1 DEF Filtered, IdsPass
    <3> QED BY <1>1, <3>2, <3>3, <3>4, <3>5 DEF IdsPass
  <2> QED BY <1>2, <1>3, <2>1, <2>2
<1> QED BY <1>1, <1>2, <1>3, <1>4, FilteredSame

LEMMA FilteredVision == ASSUME Types, Phases, Filtered, ChatVision PROVE Filtered'
<1>1. UNCHANGED <<req, vec, fts, turn, final, kept>>
  BY DEF ChatVision, legs, ranking
<1>2. /\ pc' \notin Legs
      /\ call' = call \/ call'.chunks = <<>>
  BY VisionCall DEF Legs
<1>3. IdsPass(final)' /\ IdsPass(kept)' /\ (call' = call => IdsPass(call.chunks)')
  BY <1>1, IdsSame
<1>4. IdsPass(call.chunks)'
  BY <1>2, <1>3, NoneIsEmpty DEF IdsPass
<1> QED BY <1>1, <1>2, <1>3, <1>4, FilteredSame

LEMMA FilteredStep == BaseInv /\ Filtered /\ [Next]_vars => Filtered'
<1> SUFFICES ASSUME Types, Phases, Scored, Filtered, [Next]_vars PROVE Filtered'
  BY DEF BaseInv
<1>1. ASSUME req'.filter = req.filter, pc' = pc \/ pc' \notin Legs,
             UNCHANGED <<vec, fts, turn, final, kept, call>>
      PROVE  Filtered'
  BY <1>1, IdsSame, FilteredSame
<1>2. CASE RawQuery
  BY <1>1, <1>2 DEF RawQuery, Continue, Legs, ranking
<1>3. CASE CondenseQuery
  BY <1>1, <1>3 DEF CondenseQuery, Continue, End, Legs, ranking
<1>4. CASE ResolveTopK
  <2>1. pc' \notin Legs /\ UNCHANGED <<vec, fts, turn, final, kept, call>>
    BY <1>4 DEF ResolveTopK, Continue, End, Legs, legs, ranking
  <2>2. req' = req \/ \E k \in TopKs : req' = [req EXCEPT !.topK = k]
    BY <1>4 DEF ResolveTopK
  <2>3. req'.filter = req.filter
    BY <2>2 DEF Types, Requests
  <2> QED BY <1>1, <2>1, <2>3
<1>5. CASE RetrieveTimeout
  BY <1>1, <1>5 DEF RetrieveTimeout, End, Legs, legs, ranking
<1>6. CASE Generate
  BY <1>1, <1>6 DEF Generate, End, Legs, legs, ranking
<1>7. CASE \E f \in Files : DropVectors(f) \/ DropRows(f)
  BY <1>1, <1>7 DEF DropVectors, DropRows, legs, ranking
<1>8. CASE UNCHANGED vars
  BY <1>1, <1>8 DEF vars
<1> QED BY <1>2, <1>3, <1>4, <1>5, <1>6, <1>7, <1>8, FilteredArrive, FilteredOpen, FilteredVector,
           FilteredFilter, FilteredFts, FilteredFuse, FilteredHydrate, FilteredFloor, FilteredFit,
           FilteredVision DEF Next

\* Every passage in the prompt satisfies the filters of the request.  Only the
\* list Chroma has just given is unfiltered, and no step but _filter_vector_ids
\* leaves it for another.
THEOREM OnlyFilteredPassages == Spec => []FilteredOnly
<1>1. Filtered => FilteredOnly
  BY DEF Filtered, IdsPass, FilteredOnly
<1> QED BY <1>1, FilteredInit, FilteredStep, BaseInvAlways, PTL DEF Spec

-----------------------------------------------------------------------------
(* The fusion.                                                              *)

LEMMA OrderedStep == BaseInv /\ Ordered /\ [Next]_vars => Ordered'
<1> SUFFICES ASSUME Types, Phases, Ordered, [Next]_vars PROVE Ordered'
  BY DEF BaseInv
<1>1. ASSUME UNCHANGED <<vec, fts, fused>>, pc' = pc \/ pc' \notin Start \cup Legs PROVE Ordered'
  BY <1>1 DEF Ordered
<1>2. ASSUME fused' = fused, pc \in Start \cup Legs PROVE Ordered'
  BY <1>2 DEF Ordered, Phases
<1>3. CASE Arrive
  BY <1>2, <1>3 DEF Arrive, Start, ranking
<1>4. CASE RawQuery
  BY <1>2, <1>4 DEF RawQuery, Start, ranking
<1>5. CASE CondenseQuery
  BY <1>2, <1>5 DEF CondenseQuery, Start, ranking
<1>6. CASE ResolveTopK
  BY <1>2, <1>6 DEF ResolveTopK, Start, ranking
<1>7. CASE OpenCollection
  BY <1>2, <1>7 DEF OpenCollection, Start, ranking
<1>8. CASE VectorLeg
  BY <1>2, <1>8 DEF VectorLeg, Legs, ranking
<1>9. CASE FilterVectorIds
  <2>1. pc = "filter" /\ fused' = fused
    BY <1>9, Zenon DEF FilterVectorIds, ranking
  <2> QED BY <1>2, <2>1 DEF Legs
<1>10. CASE FtsSearch
  BY <1>2, <1>10, FtsCases DEF Legs
<1>11. CASE Fuse \/ Rerank
  <2>1. fused' = RrfFuse(vec \o fts) /\ UNCHANGED <<vec, fts>>
    BY <1>11 DEF Fuse, Rerank, legs
  <2>2. pc' \in {"hydrate", "done"}
    BY <1>11, RerankFinal DEF Fuse, Continue
  <2> QED BY <2>1, <2>2 DEF Ordered, Start, Legs
<1>12. CASE HydrateProvenance
  BY <1>1, <1>12 DEF HydrateProvenance, Continue, legs, Start, Legs
<1>13. CASE Floor
  BY <1>1, <1>13 DEF Floor, Continue, End, legs, Start, Legs
<1>14. CASE RetrieveTimeout
  BY <1>1, <1>14 DEF RetrieveTimeout, End, legs, ranking, Start, Legs
<1>15. CASE Fit
  <2>1. UNCHANGED <<vec, fts, fused>>
    BY <1>15 DEF Fit, legs, ranking
  <2>2. pc' \in {"generate", "done"}
    BY <1>15, FitCall
  <2> QED BY <1>1, <2>1, <2>2 DEF Start, Legs
<1>16. CASE Generate
  BY <1>1, <1>16 DEF Generate, End, legs, ranking, Start, Legs
<1>17. CASE ChatVision
  BY <1>2, <1>17 DEF ChatVision, Start, ranking
<1>18. CASE \E f \in Files : DropVectors(f) \/ DropRows(f)
  BY <1>1, <1>18 DEF DropVectors, DropRows, legs, ranking
<1>19. CASE UNCHANGED vars
  BY <1>1, <1>19 DEF vars
<1> QED BY <1>3, <1>4, <1>5, <1>6, <1>7, <1>8, <1>9, <1>10, <1>11, <1>12, <1>13, <1>14, <1>15,
           <1>16, <1>17, <1>18, <1>19 DEF Next

\* _rrf_fuse is fair to its lists, whatever they are: it ranks every candidate
\* once, never puts a chunk before one that no list puts behind it and one puts
\* before it, and orders by content those that have every rank equally often.
THEOREM FusionIsFair == Spec => []RankedFairly
<1>1. Init => Ordered
  BY DEF Init, Ordered
<1>2. BaseInv /\ Ordered => RankedFairly
  <2> SUFFICES ASSUME Types, Ordered, fused # <<>> PROVE RankedFairly
    BY DEF BaseInv, RankedFairly
  <2>1. PICK lists \in Seq(Lists) : lists = vec \o fts
    BY BothLists
  <2>2. fused = RrfFuse(lists)
    BY <2>1 DEF Ordered
  <2>3. /\ Range(fused) = Candidates(lists)
        /\ \A i, j \in DOMAIN fused : i < j =>
              /\ fused[i] # fused[j]
              /\ \/ \E l \in DOMAIN lists : Behind(fused[j], fused[i], lists[l])
                 \/ \A l \in DOMAIN lists : ~Behind(fused[i], fused[j], lists[l])
              /\ SameRanks(fused[i], fused[j], lists) => Key[fused[i]] <= Key[fused[j]]
    BY <2>2, FairFusion
  <2> QED BY <2>1, <2>3, Zenon DEF RankedFairly
<1> QED BY <1>1, <1>2, OrderedStep, BaseInvAlways, PTL DEF Spec

-----------------------------------------------------------------------------
(* The prompt.                                                              *)

\* The tokens of an image are a natural.
LEMMA ImageTokensType ==
  ASSUME NEW images \in Seq(Pictures) PROVE AllImageTokens(images) \in Nat
<1>1. PICK f : f = [i \in DOMAIN images |-> ImageTokens(images[i])]
  OBVIOUS
<1>2. ASSUME NEW p \in Pictures PROVE ImageTokens(p) \in Nat
  <2>1. PICK w \in Nat, h \in Nat : w = p.width + 55 /\ h = p.height + 55
    BY DEF Pictures
  <2>2. PICK a \in Nat, b \in Nat : a = w \div 56 /\ b = h \div 56
    OBVIOUS
  <2>3. a * b + 8 \in Nat
    OBVIOUS
  <2> QED BY <2>1, <2>2, <2>3 DEF ImageTokens
<1>3. DOMAIN f = DOMAIN images /\ \A i \in DOMAIN images : f[i] \in Nat
  <2>1. \A i \in DOMAIN images : images[i] \in Pictures
    OBVIOUS
  <2> QED BY <1>1, <1>2, <2>1
<1>4. IsFiniteSet(DOMAIN images)
  <2>1. 1 \in Int /\ Len(images) \in Int /\ DOMAIN images = 1..Len(images)
    OBVIOUS
  <2> QED BY <2>1, FS_Interval
<1>5. AllImageTokens(images) = Total(f, DOMAIN images)
  <2>1. AllImageTokens(images) = SumFunction(f)
    BY <1>1, Zenon DEF AllImageTokens
  <2> QED BY <1>3, <2>1, SumIs
<1> QED BY <1>3, <1>4, <1>5, SumType

\* No images cost nothing.
LEMMA NoImageTokens == AllImageTokens(<<>>) = 0
<1>1. PICK f : f = [i \in DOMAIN <<>> |-> ImageTokens(<<>>[i])]
  OBVIOUS
<1>2. DOMAIN f = {}
  BY <1>1, NoneIsEmpty
<1>3. AllImageTokens(<<>>) = SumFunction(f)
  BY <1>1, Zenon DEF AllImageTokens
<1> QED BY <1>2, <1>3, SumIs, SumOfNone

\* The prompt of the chat fits.
LEMMA FittedFit == ASSUME Types, Phases, Fitted, Fit PROVE Fitted'
<1>1. pc = "fit" /\ UNCHANGED <<req, kept>>
  BY DEF Fit, legs, ranking
<1>2. req.images = <<>> /\ call = NoCall
  BY <1>1 DEF Fitted, ByText, Phases
<1>3. \/ /\ pc' = "done" /\ answer' = "model_error" /\ call' = call
      \/ /\ pc' = "done" /\ answer' = "too_long" /\ call' = NoCall /\ ~Room(Base, req.max)
      \/ /\ pc' = "generate" /\ answer' = answer /\ call' # NoCall
         /\ \E n \in 0..Len(kept) :
               /\ call'.chunks = SubSeq(kept, 1, n) /\ call'.images = 0
               /\ call'.max = Clamp(PromptTokens(SubSeq(kept, 1, n)), req.max)
               /\ Room(PromptTokens(SubSeq(kept, 1, n)), req.max)
               /\ n < Len(kept) => ~Room(PromptTokens(SubSeq(kept, 1, n + 1)), req.max)
  BY FitCall
<1>4. pc' \notin ByText
  BY <1>3 DEF ByText, Legs
<1>5. CASE pc' = "done" /\ answer' = "model_error" /\ call' = call
  BY <1>2, <1>4, <1>5 DEF Fitted, PromptFits
<1>6. CASE pc' = "done" /\ answer' = "too_long" /\ call' = NoCall /\ ~Room(Base, req.max)
  <2>1. Base + AllImageTokens(req'.images) = Base
    BY <1>1, <1>2, NoImageTokens, RetrievalAssumption
  <2>2. ~Room(Base + AllImageTokens(req'.images), req'.max)
    BY <1>1, <1>6, <2>1
  <2> QED BY <1>4, <1>6, <2>2 DEF Fitted, PromptFits
<1>7. CASE /\ pc' = "generate" /\ answer' = answer /\ call' # NoCall
           /\ \E n \in 0..Len(kept) :
                 /\ call'.chunks = SubSeq(kept, 1, n) /\ call'.images = 0
                 /\ call'.max = Clamp(PromptTokens(SubSeq(kept, 1, n)), req.max)
                 /\ Room(PromptTokens(SubSeq(kept, 1, n)), req.max)
                 /\ n < Len(kept) => ~Room(PromptTokens(SubSeq(kept, 1, n + 1)), req.max)
  <2>1. PICK s \in Seq(Entries), max \in Int : s = kept /\ max = req.max
    BY DEF Types, Requests
  <2>2. PICK n \in 0..Len(s) :
                 /\ call'.chunks = SubSeq(s, 1, n) /\ call'.images = 0
                 /\ call'.max = Clamp(PromptTokens(SubSeq(s, 1, n)), max)
                 /\ Room(PromptTokens(SubSeq(s, 1, n)), max)
                 /\ n < Len(s) => ~Room(PromptTokens(SubSeq(s, 1, n + 1)), max)
    BY <1>7, <2>1
  <2>3. n \in Nat /\ n <= Len(s)
    BY <2>1, <2>2
  <2>4. PICK t \in Seq(Entries) : t = SubSeq(s, 1, n) /\ Len(t) = n
    <3>1. SubSeq(s, 1, n) \in Seq(Entries) /\ Len(SubSeq(s, 1, n)) = n
      BY <2>3, PrefixFacts
    <3> QED BY <3>1
  <2>5. PICK p \in Nat : p = PromptTokens(t)
    BY PromptFacts
  <2>6. PICK c \in Nat \ {0} :
          /\ c = Clamp(p, max)
          /\ max > 0 => p + c <= NCtx /\ (c >= Reserve \/ c = max)
    <3>1. Room(p, max)
      BY <2>2, <2>4, <2>5
    <3> QED BY <3>1, ClampFacts
  <2>7. PromptTokens(call'.chunks) + call'.images = p
    BY <2>2, <2>4, <2>5
  <2>8. call'.max = c /\ Len(call'.chunks) = n
    BY <2>2, <2>4, <2>5, <2>6
  <2>9. n < Len(s) => ~Room(p + Tokens[s[n + 1].id], max)
    BY <2>2, <2>3, <2>4, <2>5, PromptGrows
  <2>10. /\ req'.max > 0 => /\ PromptTokens(call'.chunks) + call'.images + call'.max <= NCtx
                            /\ call'.max >= Reserve \/ call'.max = req'.max
         /\ call'.chunks = SubSeq(kept', 1, Len(call'.chunks))
         /\ Len(call'.chunks) < Len(kept') =>
              ~Room(PromptTokens(call'.chunks) + call'.images
                      + Tokens[kept'[Len(call'.chunks) + 1].id], req'.max)
    <3>1. kept' = s /\ req'.max = max
      BY <1>1, <2>1
    <3>2. call'.chunks = SubSeq(s, 1, n)
      BY <2>2
    <3> QED BY <2>6, <2>7, <2>8, <2>9, <3>1, <3>2
  <2>11. answer' # "too_long"
    BY <1>1, <1>7 DEF Phases
  <2> QED BY <1>4, <2>10, <2>11 DEF Fitted, PromptFits
<1> QED BY <1>3, <1>5, <1>6, <1>7

\* And that of an image.
LEMMA FittedVision == ASSUME Types, Phases, Fitted, ChatVision PROVE Fitted'
<1>1. pc = "vision" /\ UNCHANGED <<req, kept>>
  BY DEF ChatVision, legs, ranking
<1>2. kept = <<>> /\ call = NoCall
  BY <1>1 DEF Phases, Start
<1>3. PICK i \in Nat, max \in Int : i = AllImageTokens(req.images) /\ max = req.max
  BY ImageTokensType DEF Types, Requests
<1>4. \/ pc' = "done" /\ answer' \in {"invalid_image", "model_error"} /\ call' = call
      \/ pc' = "done" /\ answer' = "too_long" /\ call' = call /\ ~Room(Base + i, max)
      \/ /\ pc' = "generate" /\ answer' = answer /\ Room(Base + i, max)
         /\ call' = [chunks |-> <<>>, images |-> i, max |-> Clamp(Base + i, max)]
  BY <1>3, VisionCall
<1>5. pc' \notin ByText
  BY <1>4 DEF ByText, Legs
<1>6. CASE pc' = "done" /\ answer' \in {"invalid_image", "model_error"} /\ call' = call
  BY <1>2, <1>5, <1>6 DEF Fitted, PromptFits
<1>7. CASE pc' = "done" /\ answer' = "too_long" /\ call' = call /\ ~Room(Base + i, max)
  BY <1>1, <1>2, <1>3, <1>5, <1>7 DEF Fitted, PromptFits
<1>8. CASE /\ pc' = "generate" /\ answer' = answer /\ Room(Base + i, max)
           /\ call' = [chunks |-> <<>>, images |-> i, max |-> Clamp(Base + i, max)]
  <2>1. PICK p \in Nat : p = Base + i
    BY RetrievalAssumption
  <2>2. PICK c \in Nat \ {0} :
          /\ c = Clamp(p, max)
          /\ max > 0 => p + c <= NCtx /\ (c >= Reserve \/ c = max)
    BY <1>8, <2>1, ClampFacts
  <2>3. call'.chunks = <<>> /\ call'.images = i /\ call'.max = c
    BY <1>8, <2>1, <2>2
  <2>4. PromptTokens(call'.chunks) + call'.images = p
    BY <2>1, <2>3, PromptOfNone
  <2>5. Len(call'.chunks) = 0 /\ Len(kept') = 0 /\ SubSeq(kept', 1, 0) = <<>>
    BY <1>1, <1>2, <2>3
  <2>6. /\ req'.max > 0 => /\ PromptTokens(call'.chunks) + call'.images + call'.max <= NCtx
                           /\ call'.max >= Reserve \/ call'.max = req'.max
        /\ call'.chunks = SubSeq(kept', 1, Len(call'.chunks))
        /\ ~(Len(call'.chunks) < Len(kept'))
    BY <1>1, <1>3, <2>2, <2>3, <2>4, <2>5
  <2>7. answer' # "too_long"
    BY <1>1, <1>8 DEF Phases
  <2> QED BY <1>5, <2>6, <2>7 DEF Fitted, PromptFits
<1> QED BY <1>4, <1>6, <1>7, <1>8

LEMMA FittedStep == BaseInv /\ Fitted /\ [Next]_vars => Fitted'
<1> SUFFICES ASSUME Types, Phases, Fitted, [Next]_vars PROVE Fitted'
  BY DEF BaseInv
<1>1. ASSUME call' = NoCall, answer' # "too_long", pc' \in ByText => req'.images = <<>>
      PROVE  Fitted'
  BY <1>1 DEF Fitted, PromptFits
<1>2. ASSUME UNCHANGED <<call, req, kept>>, answer' = answer \/ answer' # "too_long",
             pc' = pc \/ pc' \notin ByText
      PROVE  Fitted'
  BY <1>2 DEF Fitted, PromptFits
<1>3. CASE Arrive
  <2>1. pc = "idle" /\ call' = call /\ answer' = answer
    BY <1>3 DEF Arrive, Continue
  <2>2. PICK i : req'.images = i /\ pc' = IF i = <<>> THEN "condense" ELSE "vision"
    BY <1>3 DEF Arrive, Continue
  <2>3. call' = NoCall /\ answer' = "none"
    BY <2>1 DEF Phases
  <2>4. pc' \in ByText => req'.images = <<>>
    BY <2>2 DEF ByText, Legs
  <2> QED BY <1>1, <2>3, <2>4
<1>4. ASSUME pc \in ByText \ {"fit"}, req'.images = req.images, call' = call,
             answer' = answer \/ answer' # "too_long"
      PROVE  Fitted'
  <2>1. call = NoCall /\ answer = "none" /\ req.images = <<>>
    BY <1>4 DEF Fitted, Phases, ByText, Legs
  <2> QED BY <1>1, <1>4, <2>1
<1>5. CASE RawQuery
  BY <1>4, <1>5 DEF RawQuery, Continue, ByText
<1>6. CASE CondenseQuery
  BY <1>4, <1>6 DEF CondenseQuery, Continue, End, ByText
<1>7. CASE ResolveTopK
  <2>1. req' = req \/ \E k \in TopKs : req' = [req EXCEPT !.topK = k]
    BY <1>7 DEF ResolveTopK
  <2>2. req'.images = req.images
    BY <2>1 DEF Types, Requests
  <2> QED BY <1>4, <1>7, <2>2 DEF ResolveTopK, Continue, End, ByText
<1>8. CASE OpenCollection
  BY <1>4, <1>8 DEF OpenCollection, Continue, End, ByText
<1>9. CASE VectorLeg
  BY <1>4, <1>9 DEF VectorLeg, Continue, End, ByText, Legs
<1>10. CASE FilterVectorIds
  <2>1. /\ pc = "filter" /\ req' = req /\ call' = call
        /\ answer' = answer \/ answer' = "retrieval_error"
    BY <1>10, Zenon DEF FilterVectorIds, Continue, End
  <2> QED BY <1>4, <2>1 DEF ByText, Legs
<1>11. CASE FtsSearch
  BY <1>4, <1>11, FtsCases DEF FtsGoesOn, FtsEnds, ByText, Legs
<1>12. CASE Fuse
  BY <1>4, <1>12 DEF Fuse, Continue, ByText, Legs
<1>13. CASE Rerank
  <2>1. /\ pc = "fuse" /\ req' = req /\ call' = call
        /\ answer' = answer \/ answer' = "retrieval_error"
    BY <1>13, Zenon DEF Rerank, Continue, End
  <2> QED BY <1>4, <2>1 DEF ByText, Legs
<1>14. CASE HydrateProvenance
  BY <1>4, <1>14 DEF HydrateProvenance, Continue, ByText
<1>15. CASE Floor
  BY <1>4, <1>15 DEF Floor, Continue, End, ByText
<1>16. CASE RetrieveTimeout
  BY <1>4, <1>16 DEF RetrieveTimeout, Retrieving, End, ByText, Legs
<1>17. CASE Generate
  BY <1>2, <1>17 DEF Generate, End, ByText, Legs, ranking
<1>18. CASE \E f \in Files : DropVectors(f) \/ DropRows(f)
  BY <1>2, <1>18 DEF DropVectors, DropRows, ranking
<1>19. CASE UNCHANGED vars
  BY <1>2, <1>19 DEF vars
<1> QED BY <1>3, <1>5, <1>6, <1>7, <1>8, <1>9, <1>10, <1>11, <1>12, <1>13, <1>14, <1>15,
           <1>16, <1>17, <1>18, <1>19, FittedFit, FittedVision DEF Next

\* A call of the model fits: prompt and answer are within the window, with the
\* reserve or all the tokens asked for left; _fit_context drops no passage that
\* would have fitted; and only a request that does not fit without any is
\* rejected as too long.
THEOREM CallsFit == Spec => []PromptFits
<1>1. Init => Fitted
  BY DEF Init, Fitted, PromptFits, ByText, Legs
<1>2. Fitted => PromptFits
  BY DEF Fitted
<1> QED BY <1>1, <1>2, FittedStep, BaseInvAlways, PTL DEF Spec

-----------------------------------------------------------------------------
(* The floor.                                                               *)

\* The best cosine is the one by_id holds.
LEMMA BestIs ==
  ASSUME NEW c, NEW b \in Nat,
         \A j \in DOMAIN vec : c \in Range(vec[j]) =>
            queries[j].sim[c] \in Nat /\ queries[j].sim[c] <= b,
         b = 0 \/ \E j \in DOMAIN vec : c \in Range(vec[j]) /\ queries[j].sim[c] = b
  PROVE  Best(c) = b
<1>1. PICK S : S = {queries[i].sim[c] : i \in {j \in DOMAIN vec : c \in Range(vec[j])}}
  OBVIOUS
<1>2. \A x \in S : x \in Nat /\ x <= b
  BY <1>1
<1>3. b \in S \cup {0}
  BY <1>1
<1>4. Best(c) = CHOOSE n \in S \cup {0} : \A m \in S : m <= n
  BY <1>1, Zenon DEF Best
<1>5. PICK n : n = Best(c) /\ n \in S \cup {0} /\ \A m \in S : m <= n
  BY <1>2, <1>3, <1>4
<1>6. n \in Nat /\ n <= b
  BY <1>2, <1>5
<1>7. b <= n
  BY <1>3, <1>5, <1>6
<1> QED BY <1>5, <1>6, <1>7

\* Best evidence depends only on the queries and the lists.
LEMMA SameEvidence ==
  ASSUME UNCHANGED <<queries, vec, fts>>
  PROVE  \A e : Judged(e)' <=> Judged(e)
<1>1. \A c : Best(c)' = Best(c)
  BY DEF Best
<1>2. \A c : KeywordFirst(c, vec, fts)' <=> KeywordFirst(c, vec, fts)
  BY DEF KeywordFirst
<1> QED BY <1>1, <1>2 DEF Judged

\* So does what is relevant.
LEMMA SameRelevance ==
  ASSUME UNCHANGED <<conf, queries, vec, fts>>
  PROVE  \A e : Relevant(e)' <=> Relevant(e)
<1>1. \A c : Best(c)' = Best(c)
  BY DEF Best
<1> QED BY <1>1 DEF Relevant

\* The floor keeps what is relevant.
LEMMA FloorIsRelevance ==
  ASSUME NEW e, Judged(e), conf.min \in Nat \ {0}
  PROVE  (e.lexical \/ e.score >= conf.min) <=> Relevant(e)
<1>1. CASE e.kind = "reranker" /\ ~e.lexical
  BY <1>1 DEF Relevant
<1>2. CASE /\ e.kind = "vector" /\ e.score = Best(e.id)
           /\ e.lexical <=> Best(e.id) = 0 /\ KeywordFirst(e.id, vec, fts)
  BY <1>2 DEF Relevant, KeywordFirst
<1> QED BY <1>1, <1>2 DEF Judged

LEMMA JudgingFuse == ASSUME Types, Phases, Scored, Judging, Fuse PROVE Judging'
<1>1. /\ pc = "fuse" /\ pc' = "hydrate" /\ answer' = answer
      /\ UNCHANGED <<conf, queries, vec, fts>>
  BY DEF Fuse, Continue, legs
<1>2. \A i \in DOMAIN final' :
         /\ final'[i].id \in DOMAIN byId
         /\ final'[i].kind = "vector" /\ final'[i].score = byId[final'[i].id].score
         /\ final'[i].lexical = byId[final'[i].id].lexical
  BY FuseFinal
<1>3. PICK n \in Nat : n = Len(vec) /\ DOMAIN vec = 1..n /\ n <= Len(queries)
  BY <1>1 DEF Types, Phases, Legs
<1>4. Evidence(byId, queries, vec, n, fts) /\ DOMAIN byId \subseteq Chunks
  BY <1>1, <1>3 DEF Scored, Legs
<1>5. \A j \in 1..n : queries[j] \in Queries
  BY <1>3 DEF Types
<1>6. \A j \in 1..n : \A c \in Chunks : queries[j].sim[c] \in Nat
  BY <1>5, RetrievalAssumption
<1>7. ASSUME NEW c \in DOMAIN byId
      PROVE  /\ byId[c].score = Best(c)
             /\ byId[c].lexical <=> Best(c) = 0 /\ KeywordFirst(c, vec, fts)
  <2>1. /\ byId[c].score \in Nat
        /\ \A j \in 1..n : c \in Range(vec[j]) => queries[j].sim[c] <= byId[c].score
        /\ \/ byId[c].score = 0
           \/ \E j \in 1..n : c \in Range(vec[j]) /\ queries[j].sim[c] = byId[c].score
        /\ byId[c].lexical <=> byId[c].score = 0 /\ KeywordFirst(c, vec, fts)
    BY <1>4 DEF Evidence
  <2>2. PICK b \in Nat : b = byId[c].score
    BY <2>1
  <2>3. /\ \A j \in DOMAIN vec : c \in Range(vec[j]) =>
              queries[j].sim[c] \in Nat /\ queries[j].sim[c] <= b
        /\ b = 0 \/ \E j \in DOMAIN vec : c \in Range(vec[j]) /\ queries[j].sim[c] = b
    BY <1>3, <1>4, <1>6, <2>1, <2>2
  <2>4. Best(c) = b
    BY <2>3, BestIs
  <2> QED BY <2>1, <2>2, <2>4
<1>8. \A i \in DOMAIN final' : Judged(final'[i])
  BY <1>2, <1>7 DEF Judged
<1>9. \A i \in DOMAIN final' : Judged(final[i])'
  BY <1>1, <1>8, SameEvidence
<1>10. answer = "none"
  BY <1>1 DEF Phases
<1> QED BY <1>1, <1>9, <1>10 DEF Judging, JudgedOnBestEvidence

LEMMA JudgingRerank == ASSUME Types, Phases, Judging, Rerank PROVE Judging'
<1>1. pc = "fuse"
  BY DEF Rerank
<1>2. answer' \in {answer, "retrieval_error"}
  BY Zenon DEF Rerank, Continue, End
<1>3. \/ pc' = "done"
      \/ /\ pc' = "hydrate"
         /\ \A i \in DOMAIN final' : final'[i].kind = "reranker" /\ ~final'[i].lexical
  BY RerankFinal
<1>4. answer' # "abstained"
  BY <1>1, <1>2 DEF Phases
<1>5. pc' = "hydrate" => \A i \in DOMAIN final' : Judged(final[i])'
  BY <1>3 DEF Judged
<1> QED BY <1>3, <1>4, <1>5 DEF Judging, JudgedOnBestEvidence

LEMMA JudgingHydrate == ASSUME Types, Phases, Judging, HydrateProvenance PROVE Judging'
<1>1. /\ pc = "hydrate" /\ pc' = "floor" /\ answer' = answer
      /\ UNCHANGED <<queries, vec, fts>>
  BY DEF HydrateProvenance, Continue, legs
<1>2. /\ DOMAIN final' = DOMAIN final
      /\ \A i \in DOMAIN final : /\ final'[i].id = final[i].id /\ final'[i].kind = final[i].kind
                                 /\ final'[i].score = final[i].score
                                 /\ final'[i].lexical = final[i].lexical
  BY HydrateFinal
<1>3. \A i \in DOMAIN final : Judged(final[i])
  BY <1>1 DEF Judging
<1>4. \A i \in DOMAIN final' : Judged(final'[i])
  BY <1>2, <1>3 DEF Judged
<1>5. \A i \in DOMAIN final' : Judged(final[i])'
  BY <1>1, <1>4, SameEvidence
<1>6. answer' = "none"
  BY <1>1 DEF Phases
<1> QED BY <1>1, <1>5, <1>6 DEF Judging, JudgedOnBestEvidence

RelevantIn(s) == {i \in DOMAIN s : Relevant(s[i])}

LEMMA JudgingFloor == ASSUME Types, Phases, Judging, Floor PROVE Judging'
<1>1. /\ pc = "floor" /\ UNCHANGED <<conf, queries, vec, fts, final>>
      /\ IF kept' = <<>> THEN pc' = "done" /\ answer' = "abstained"
         ELSE pc' = "fit" /\ answer' = answer
  BY DEF Floor, Continue, End, legs
<1>2. \A i \in DOMAIN final : Judged(final[i])
  BY <1>1 DEF Judging
<1>3. PICK s \in Seq(Entries) : s = final
  BY DEF Types
<1>4. conf.min \in Nat
  BY DEF Types
<1>5. answer = "none"
  BY <1>1 DEF Phases
<1>6. kept' = At(s, RelevantIn(s)) /\ (kept' = <<>> <=> RelevantIn(s) = {})
  <2>1. CASE conf.min = 0
    <3>1. RelevantIn(s) = DOMAIN s
      BY <2>1 DEF RelevantIn, Relevant
    <3>2. kept' = s
      BY <1>3, <2>1, FloorFacts
    <3>3. s = <<>> <=> DOMAIN s = {}
      OBVIOUS
    <3> QED BY <3>1, <3>2, <3>3, AtAll
  <2>2. CASE conf.min # 0
    <3>1. /\ kept' = At(s, Above(s, conf.min))
          /\ kept' = <<>> <=> Above(s, conf.min) = {}
      BY <1>3, <2>2, FloorFacts
    <3>2. \A i \in DOMAIN s : (s[i].lexical \/ s[i].score >= conf.min) <=> Relevant(s[i])
      BY <1>2, <1>3, <1>4, <2>2, FloorIsRelevance
    <3>3. Above(s, conf.min) = RelevantIn(s)
      BY <3>2 DEF Above, RelevantIn
    <3> QED BY <3>1, <3>3
  <2> QED BY <2>1, <2>2
<1>7. \A e : Relevant(e)' <=> Relevant(e)
  BY <1>1, SameRelevance
<1>8. {i \in DOMAIN final' : Relevant(final[i])'} = RelevantIn(s)
  BY <1>1, <1>3, <1>7 DEF RelevantIn
<1>9. CASE kept' = <<>>
  <2>1. \A i \in DOMAIN final' : ~Relevant(final[i])'
    BY <1>6, <1>8, <1>9
  <2> QED BY <1>1, <1>9, <2>1 DEF Judging, JudgedOnBestEvidence
<1>10. CASE kept' # <<>>
  <2>1. pc' = "fit" /\ answer' = "none"
    BY <1>1, <1>5, <1>10
  <2>2. kept' = At(final', {i \in DOMAIN final' : Relevant(final[i])'})
    BY <1>1, <1>3, <1>6, <1>8
  <2> QED BY <2>1, <2>2 DEF Judging, JudgedOnBestEvidence
<1> QED BY <1>9, <1>10

\* A step that neither retrieves nor judges.
LEMMA JudgingSame ==
  ASSUME Judging, UNCHANGED <<conf, queries, vec, fts, final, kept>>,
         \/ pc' = pc /\ answer' = answer
         \/ pc' = "done" /\ answer' # "abstained"
         \/ pc = "fit" /\ pc' = "generate" /\ answer' = answer
  PROVE  Judging'
<1>1. \A e : (Relevant(e)' <=> Relevant(e)) /\ (Judged(e)' <=> Judged(e))
  BY SameRelevance, SameEvidence
<1>2. {i \in DOMAIN final' : Relevant(final[i])'} = {i \in DOMAIN final : Relevant(final[i])}
  BY <1>1
<1>3. pc' \in {"hydrate", "floor"} => \A i \in DOMAIN final' : Judged(final[i])'
  BY <1>1 DEF Judging
<1>4. pc' \in {"fit", "generate"} =>
         kept' = At(final', {i \in DOMAIN final' : Relevant(final[i])'})
  BY <1>2 DEF Judging, JudgedOnBestEvidence
<1>5. answer' = "abstained" => \A i \in DOMAIN final' : ~Relevant(final[i])'
  BY <1>1 DEF Judging, JudgedOnBestEvidence
<1> QED BY <1>3, <1>4, <1>5 DEF Judging, JudgedOnBestEvidence

LEMMA JudgingVision == ASSUME Types, Phases, Judging, ChatVision PROVE Judging'
<1>1. pc = "vision" /\ UNCHANGED <<conf, queries, vec, fts, final, kept>>
  BY DEF ChatVision, legs, ranking
<1>2. final' = <<>> /\ kept' = <<>> /\ answer = "none"
  BY <1>1 DEF Phases, Start
<1>3. /\ pc' \in {"done", "generate"}
      /\ answer' = answer \/ answer' \in {"invalid_image", "model_error", "too_long"}
  BY VisionCall
<1>4. kept' = At(final', {i \in DOMAIN final' : Relevant(final[i])'})
  <2>0. PICK s \in Seq(Entries) : s = <<>>
    BY <1>1, <1>2 DEF Types
  <2>1. s = final' /\ DOMAIN s = {}
    BY <1>2, <2>0, NoneIsEmpty
  <2>2. PICK I \in SUBSET DOMAIN s : I = {} /\ I = {i \in DOMAIN final' : Relevant(final[i])'}
    BY <2>1
  <2>3. At(s, I) = <<>>
    BY <2>2, AtFacts
  <2> QED BY <1>2, <2>0, <2>1, <2>2, <2>3
<1>5. answer' # "abstained"
  BY <1>2, <1>3
<1> QED BY <1>3, <1>4, <1>5 DEF Judging, JudgedOnBestEvidence

LEMMA JudgingStep == BaseInv /\ Judging /\ [Next]_vars => Judging'
<1> SUFFICES ASSUME Types, Phases, Scored, Judging, [Next]_vars PROVE Judging'
  BY DEF BaseInv
<1>1. ASSUME pc \in Start \cup Legs, answer' = answer \/ answer' # "abstained",
             \/ pc' \notin {"hydrate", "floor", "fit", "generate"}
             \/ pc' = "floor" /\ final' = final
      PROVE  Judging'
  <2>1. answer' # "abstained" /\ final = <<>>
    BY <1>1 DEF Phases, Start, Legs
  <2>2. pc' = "floor" => DOMAIN final' = {}
    BY <1>1, <2>1, NoneIsEmpty
  <2> QED BY <1>1, <2>1, <2>2 DEF Judging, JudgedOnBestEvidence
<1>2. CASE Arrive
  BY <1>1, <1>2 DEF Arrive, Continue, Start
<1>3. CASE RawQuery
  BY <1>1, <1>3 DEF RawQuery, Continue, Start
<1>4. CASE CondenseQuery
  BY <1>1, <1>4 DEF CondenseQuery, Continue, End, Start
<1>5. CASE ResolveTopK
  BY <1>1, <1>5 DEF ResolveTopK, Continue, End, Start
<1>6. CASE OpenCollection
  BY <1>1, <1>6 DEF OpenCollection, Continue, End, Start, ranking
<1>7. CASE VectorLeg
  BY <1>1, <1>7 DEF VectorLeg, Continue, End, Legs
<1>8. CASE FilterVectorIds
  <2>1. /\ pc = "filter" /\ pc' \in {"sparse", "done"}
        /\ answer' = answer \/ answer' = "retrieval_error"
    BY <1>8, Zenon DEF FilterVectorIds, Continue, End
  <2> QED BY <1>1, <2>1 DEF Legs
<1>9. CASE FtsSearch
  BY <1>1, <1>9, FtsCases DEF FtsGoesOn, FtsEnds, Legs
<1>10. CASE RetrieveTimeout
  BY <1>10, JudgingSame DEF RetrieveTimeout, End, legs, ranking
<1>11. CASE Fit
  <2>1. pc = "fit" /\ UNCHANGED <<conf, queries, vec, fts, final, kept>>
    BY <1>11 DEF Fit, legs, ranking
  <2>2. \/ pc' = "done" /\ answer' \in {"model_error", "too_long"}
        \/ pc' = "generate" /\ answer' = answer
    BY <1>11, FitCall
  <2> QED BY <2>1, <2>2, JudgingSame
<1>12. CASE Generate
  BY <1>12, JudgingSame DEF Generate, End, legs, ranking
<1>13. CASE \E f \in Files : DropVectors(f) \/ DropRows(f)
  BY <1>13, JudgingSame DEF DropVectors, DropRows, legs, ranking
<1>14. CASE UNCHANGED vars
  BY <1>14, JudgingSame DEF vars
<1> QED BY <1>2, <1>3, <1>4, <1>5, <1>6, <1>7, <1>8, <1>9, <1>10, <1>11, <1>12, <1>13, <1>14,
           JudgingFuse, JudgingRerank, JudgingHydrate, JudgingFloor, JudgingVision DEF Next

\* The floor judges every passage by the best evidence of all queries and legs,
\* keeps exactly the relevant ones in their order, and the request abstains
\* without calling the model only when none is.
THEOREM FloorJudgesBestEvidence == Spec => []JudgedOnBestEvidence
<1>1. Init => Judging
  BY DEF Init, Judging, JudgedOnBestEvidence
<1>2. Judging => JudgedOnBestEvidence
  BY DEF Judging
<1> QED BY <1>1, <1>2, JudgingStep, BaseInvAlways, PTL DEF Spec

=============================================================================
