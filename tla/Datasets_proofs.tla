---------------------------- MODULE Datasets_proofs ----------------------------
(***************************************************************************)
(* Proofs about module Datasets, for any uploads, curations, chunks,       *)
(* answers of the teacher and disturbances: a valid dataset is usable, and *)
(* synthesis keeps one of each group of duplicates.  Both follow from one  *)
(* invariant, DInv, about each dataset with its file and its task.         *)
(***************************************************************************)
EXTENDS Datasets, FiniteSetTheorems, WellFoundedInduction, TLAPS

-----------------------------------------------------------------------------
(* Numbers.                                                                 *)

\* A set of numbers that is not empty has a least one.
LEMMA NatMin ==
  ASSUME NEW T, T \subseteq Nat, T # {}
  PROVE  \E n \in T : \A k \in T : n <= k
<1> DEFINE R == {ss \in Nat \X Nat : ss[1] < ss[2]}
<1>1. IsWellFoundedOn(R, Nat)
  BY NatLessThanWellFounded DEF OpToRel
<1> HIDE DEF R
<1>2. PICK n \in T : \A k \in T : ~(<<k, n>> \in R)
  BY <1>1, WFMin
<1>3. \A k \in T : ~(k < n)
  BY <1>2 DEF R
<1> QED BY <1>2, <1>3

\* Division by m: the quotient and its remainder, and that there is only one.
LEMMA Quotient ==
  ASSUME NEW a \in Nat, NEW m \in Nat \ {0}
  PROVE  /\ a \div m \in Nat
         /\ m * (a \div m) <= a /\ a < m * (a \div m) + m
OBVIOUS

LEMMA QuotientUnique ==
  ASSUME NEW a \in Nat, NEW m \in Nat \ {0}, NEW q \in Nat, m * q <= a, a < m * q + m
  PROVE  a \div m = q
<1>1. PICK p \in Nat : p = a \div m /\ m * p <= a /\ a < m * p + m
  BY Quotient
<1>2. ~(p < q)
  <2> SUFFICES ASSUME p < q PROVE FALSE
    OBVIOUS
  <2>1. PICK d \in Nat : q = p + 1 + d
    <3>1. q - p - 1 \in Nat /\ q = p + 1 + (q - p - 1)
      OBVIOUS
    <3> QED BY <3>1
  <2>2. m * q = m * p + m + m * d /\ m * d >= 0
    BY <2>1
  <2> QED BY <1>1, <2>2
<1>3. ~(q < p)
  <2> SUFFICES ASSUME q < p PROVE FALSE
    OBVIOUS
  <2>1. PICK d \in Nat : p = q + 1 + d
    <3>1. p - q - 1 \in Nat /\ p = q + 1 + (p - q - 1)
      OBVIOUS
    <3> QED BY <3>1
  <2>2. m * p = m * q + m + m * d /\ m * d >= 0
    BY <2>1
  <2> QED BY <1>1, <2>2
<1> QED BY <1>1, <1>2, <1>3

\* A stride of n is n \div m, or one more.
LEMMA Stride ==
  ASSUME NEW a \in Nat, NEW n \in Nat, NEW m \in Nat \ {0}
  PROVE  (a + n) \div m - a \div m - n \div m \in {0, 1}
<1>1. PICK p \in Nat : p = a \div m /\ m * p <= a /\ a < m * p + m
  BY Quotient
<1>2. PICK q \in Nat : q = n \div m /\ m * q <= n /\ n < m * q + m
  BY Quotient
<1>3. m * (p + q) = m * p + m * q /\ m * (p + q + 1) = m * p + m * q + m
  OBVIOUS
<1>4. CASE a + n < m * (p + q) + m
  <2>1. m * (p + q) <= a + n /\ p + q \in Nat /\ a + n \in Nat
    BY <1>1, <1>2, <1>3
  <2>2. (a + n) \div m = p + q
    BY <1>4, <2>1, QuotientUnique
  <2> QED BY <1>1, <1>2, <2>2
<1>5. CASE ~(a + n < m * (p + q) + m)
  <2>1. m * (p + q + 1) <= a + n /\ p + q + 1 \in Nat /\ a + n \in Nat
        /\ a + n < m * (p + q + 1) + m
    BY <1>1, <1>2, <1>3, <1>5
  <2>2. (a + n) \div m = p + q + 1
    BY <2>1, QuotientUnique
  <2> QED BY <1>1, <1>2, <2>2
<1> QED BY <1>4, <1>5

\* What load_chunks samples: distinct chunks, from the first on, spread evenly.
Spread(s, n) ==
    /\ s \in Seq(Nat)
    /\ \A i, j \in 1..Len(s)-1 :
          /\ s[i+1] > s[i]
          /\ (s[i+1] - s[i]) - (s[j+1] - s[j]) \in -1..1
    /\ Len(s) > 0 => s[1] = 0 /\ s[Len(s)] < n

LEMMA SampleSpreads ==
  ASSUME NEW n \in Nat \ {0}, NEW max \in Nat \ {0}
  PROVE  Spread(Sample(n, max), n)
<1> DEFINE s == Sample(n, max)
<1>1. CASE n <= max
  <2>1. s = [i \in 1..n |-> i - 1]
    BY <1>1 DEF Sample
  <2>2. s \in Seq(Nat) /\ Len(s) = n /\ \A i \in 1..n : s[i] = i - 1
    BY <2>1
  <2> HIDE DEF s
  <2>3. \A i \in 1..n-1 : s[i+1] = i /\ s[i] = i - 1
    BY <2>2
  <2>4. s[1] = 0 /\ s[n] < n
    BY <2>2
  <2>5. \A i, j \in 1..n-1 : s[i+1] > s[i] /\ (s[i+1] - s[i]) - (s[j+1] - s[j]) \in -1..1
    BY <2>3
  <2> QED BY <2>2, <2>4, <2>5 DEF Spread, s
<1>2. CASE n > max
  <2>1. s = [i \in 1..max |-> ((i - 1) * n) \div max]
    BY <1>2 DEF Sample
  <2>2. \A i \in 1..max : ((i - 1) * n) \in Nat /\ ((i - 1) * n) \div max \in Nat
    <3> SUFFICES ASSUME NEW i \in 1..max
                 PROVE ((i - 1) * n) \in Nat /\ ((i - 1) * n) \div max \in Nat
      OBVIOUS
    <3>1. i - 1 \in Nat
      OBVIOUS
    <3>2. (i - 1) * n \in Nat
      BY <3>1
    <3> QED BY <3>2, Quotient
  <2>3. s \in Seq(Nat) /\ Len(s) = max /\ \A i \in 1..max : s[i] = ((i - 1) * n) \div max
    <3> DEFINE e(i) == ((i - 1) * n) \div max
    <3>1. s = [i \in 1..max |-> e(i)] /\ \A i \in 1..max : e(i) \in Nat
      BY <2>1, <2>2
    <3> HIDE DEF e, s
    <3>2. s \in Seq(Nat) /\ Len(s) = max /\ \A i \in 1..max : s[i] = e(i)
      BY <3>1
    <3> QED BY <3>2 DEF e
  <2> HIDE DEF s
  <2>4. PICK q \in Nat : q = n \div max /\ max * q <= n /\ n < max * q + max
    BY Quotient
  <2>5. q >= 1
    BY <1>2, <2>4
  <2>6. ASSUME NEW i \in 1..max-1 PROVE s[i] \in Nat /\ s[i+1] - s[i] \in {q, q + 1}
    <3>1. PICK a \in Nat : a = (i - 1) * n
      BY <2>2
    <3>2. i * n = a + n
      BY <3>1
    <3>3. i \in 1..max /\ i + 1 \in 1..max /\ (i + 1) - 1 = i
      OBVIOUS
    <3>4. s[i] = a \div max /\ s[i+1] = (a + n) \div max
      BY <2>3, <3>1, <3>2, <3>3
    <3>5. s[i] \in Nat /\ s[i+1] \in Nat
      BY <2>2, <2>3, <3>3
    <3>6. (a + n) \div max - a \div max - q \in {0, 1}
      BY <2>4, Stride
    <3> QED BY <3>4, <3>5, <3>6
  <2>7. s[1] = 0
    <3>1. 1 \in 1..max /\ (1 - 1) * n = 0
      OBVIOUS
    <3>2. s[1] = 0 \div max
      BY <2>3, <3>1
    <3>3. 0 \div max = 0
      BY QuotientUnique
    <3> QED BY <3>2, <3>3
  <2>8. s[max] < n
    <3>1. PICK p \in Nat : p = ((max - 1) * n) \div max /\ max * p <= (max - 1) * n
      BY Quotient, max \in 1..max, <2>2
    <3>2. s[max] = p
      BY <2>3, <3>1
    <3>3. ~(p >= n)
      <4> SUFFICES ASSUME p >= n PROVE FALSE
        OBVIOUS
      <4>1. PICK d \in Nat : p = n + d
        <5>1. p - n \in Nat /\ p = n + (p - n)
          OBVIOUS
        <5> QED BY <5>1
      <4>2. max * p = max * n + max * d /\ max * d >= 0 /\ (max - 1) * n = max * n - n
        BY <4>1
      <4> QED BY <3>1, <4>2
    <3> QED BY <3>2, <3>3
  <2>9. ASSUME NEW i \in 1..max-1, NEW j \in 1..max-1
        PROVE  s[i+1] > s[i] /\ (s[i+1] - s[i]) - (s[j+1] - s[j]) \in -1..1
    <3>1. s[i] \in Nat /\ s[i+1] \in Nat /\ s[j] \in Nat /\ s[j+1] \in Nat
      BY <2>3
    <3>2. s[i+1] - s[i] \in {q, q + 1} /\ s[j+1] - s[j] \in {q, q + 1}
      BY <2>6
    <3> QED BY <2>5, <3>1, <3>2
  <2> QED BY <2>3, <2>7, <2>8, <2>9 DEF Spread, s
<1> QED BY <1>1, <1>2

-----------------------------------------------------------------------------
(* What near_duplicate_mask keeps.                                          *)

\* An item passes a set of kept ones.
Passing(items, i, S) ==
    i \in FirstOfForm(items) /\ \A j \in S : {items[i], items[j]} \notin Near

Greedy(g, items, n) ==
    g = [i \in 0..n |-> IF i = 0 THEN {}
                        ELSE IF Passing(items, i, g[i-1]) THEN g[i-1] \cup {i} ELSE g[i-1]]

LEMMA KeptIsGreedy ==
  ASSUME NEW items PROVE Kept(items) = (CHOOSE g : Greedy(g, items, Len(items)))[Len(items)]
BY Zenon DEF Kept, Greedy, Passing

LEMMA GreedyExists ==
  ASSUME NEW items, NEW len \in Nat PROVE \E g : Greedy(g, items, len)
<1> DEFINE Bad == {n \in Nat : ~ \E g : Greedy(g, items, n)}
<1>1. 0 \notin Bad
  <2>1. Greedy([i \in 0..0 |-> {}], items, 0)
    BY DEF Greedy
  <2> QED BY <2>1
<1>2. ASSUME NEW n \in Nat, n \notin Bad PROVE n + 1 \notin Bad
  <2>1. PICK g : Greedy(g, items, n)
    BY <1>2
  <2>2. PICK h : h = [i \in 0..n+1 |-> IF i = 0 THEN {}
                        ELSE IF Passing(items, i, g[i-1]) THEN g[i-1] \cup {i} ELSE g[i-1]]
    OBVIOUS
  <2>3. \A i \in 0..n : g[i] = IF i = 0 THEN {}
                        ELSE IF Passing(items, i, g[i-1]) THEN g[i-1] \cup {i} ELSE g[i-1]
    BY <2>1, Zenon DEF Greedy
  <2>4. \A i \in 0..n : i \in 0..n+1
    OBVIOUS
  <2>5. \A i \in 0..n : h[i] = g[i]
    BY <2>2, <2>3, <2>4, Zenon
  <2>6. \A i \in 0..n+1 : i # 0 => i - 1 \in 0..n
    OBVIOUS
  <2>7. \A i \in 0..n+1 : i # 0 => h[i-1] = g[i-1]
    BY <2>5, <2>6
  <2>8. Greedy(h, items, n + 1)
    BY <2>2, <2>7 DEF Greedy
  <2> QED BY <2>8
<1>3. Bad = {}
  <2> SUFFICES ASSUME Bad # {} PROVE FALSE
    OBVIOUS
  <2>1. PICK n \in Bad : \A k \in Bad : n <= k
    BY NatMin, Bad \subseteq Nat
  <2>2. n \in Nat /\ n # 0
    BY <1>1
  <2>3. n - 1 \in Nat /\ n - 1 \notin Bad /\ n - 1 + 1 = n
    <3> HIDE DEF Bad
    <3> QED BY <2>1, <2>2
  <2> QED BY <1>2, <2>3
<1> QED BY <1>3

\* The kept items, told from the items before each: it takes an induction to see
\* that what is kept of the first i is what is kept of all of them, up to i.
LEMMA KeptFixpoint ==
  ASSUME NEW items, NEW len \in Nat, Len(items) = len
  PROVE  \A i : i \in Kept(items) <=>
            /\ i \in 1..len
            /\ i \in FirstOfForm(items)
            /\ \A j \in Kept(items) : j < i => {items[i], items[j]} \notin Near
<1>1. PICK g : Greedy(g, items, len) /\ Kept(items) = g[len]
  <2>1. PICK g : g = CHOOSE f : Greedy(f, items, len)
    OBVIOUS
  <2>2. Greedy(g, items, len)
    BY <2>1, GreedyExists
  <2>3. Kept(items) = g[len]
    BY <2>1, KeptIsGreedy
  <2> QED BY <2>2, <2>3
<1> DEFINE Bad == {n \in Nat : n <= len /\ ~ \A i : i \in g[n] <=>
                    /\ i \in 1..n /\ Passing(items, i, g[i-1])}
<1>2. /\ g[0] = {}
      /\ \A i \in 1..len : g[i] = IF Passing(items, i, g[i-1]) THEN g[i-1] \cup {i} ELSE g[i-1]
  <2>1. \A i \in 0..len : g[i] = IF i = 0 THEN {}
                        ELSE IF Passing(items, i, g[i-1]) THEN g[i-1] \cup {i} ELSE g[i-1]
    BY <1>1, Zenon DEF Greedy
  <2>2. 0 \in 0..len /\ \A i \in 1..len : i \in 0..len /\ i # 0
    OBVIOUS
  <2> QED BY <2>1, <2>2, Zenon
<1>3. 0 \notin Bad
  BY <1>2
<1>4. ASSUME NEW n \in Nat, n \notin Bad PROVE n + 1 \notin Bad
  <2> SUFFICES ASSUME n + 1 <= len, NEW i
               PROVE  i \in g[n+1] <=> i \in 1..n+1 /\ Passing(items, i, g[i-1])
    OBVIOUS
  <2>1. i \in g[n] <=> i \in 1..n /\ Passing(items, i, g[i-1])
    BY <1>4
  <2>2. /\ n + 1 \in 1..len /\ (n + 1) - 1 = n /\ n + 1 \notin 1..n
        /\ i \in 1..n+1 <=> (i \in 1..n \/ i = n + 1)
    OBVIOUS
  <2>3. g[n+1] = IF Passing(items, n + 1, g[n]) THEN g[n] \cup {n + 1} ELSE g[n]
    BY <1>2, <2>2
  <2> QED BY <2>1, <2>2, <2>3
<1>5. Bad = {}
  <2> SUFFICES ASSUME Bad # {} PROVE FALSE
    OBVIOUS
  <2>1. PICK n \in Bad : \A k \in Bad : n <= k
    BY NatMin, Bad \subseteq Nat
  <2>2. n \in Nat /\ n # 0
    BY <1>3
  <2>3. n - 1 \in Nat /\ n - 1 \notin Bad /\ n - 1 + 1 = n
    <3> HIDE DEF Bad
    <3> QED BY <2>1, <2>2
  <2> QED BY <1>4, <2>3
<1>6. ASSUME NEW n \in 0..len, NEW i PROVE i \in g[n] <=> i \in 1..n /\ Passing(items, i, g[i-1])
  <2>1. n \in Nat /\ n <= len /\ n \notin Bad
    BY <1>5
  <2> QED BY <2>1
<1> SUFFICES ASSUME NEW i
             PROVE i \in g[len] <=>
                     /\ i \in 1..len /\ i \in FirstOfForm(items)
                     /\ \A j \in g[len] : j < i => {items[i], items[j]} \notin Near
  BY <1>1
<1>7. CASE i \notin 1..len
  BY <1>6, <1>7
<1>8. CASE i \in 1..len
  <2>1. len \in 0..len /\ i - 1 \in 0..len
    BY <1>8
  <2>2. i \in g[len] <=> Passing(items, i, g[i-1])
    BY <1>6, <1>8, <2>1
  <2>3. \A j : j \in g[i-1] <=> j \in 1..i-1 /\ Passing(items, j, g[j-1])
    BY <1>6, <2>1
  <2>4. \A j : j \in g[len] <=> j \in 1..len /\ Passing(items, j, g[j-1])
    BY <1>6, <2>1
  <2>5. \A j : j \in 1..i-1 <=> j \in 1..len /\ j < i
    BY <1>8
  <2>6. \A j : j \in g[i-1] <=> j \in g[len] /\ j < i
    BY <2>3, <2>4, <2>5
  <2>7. Passing(items, i, g[i-1]) <=>
          i \in FirstOfForm(items) /\ \A j \in g[len] : j < i => {items[i], items[j]} \notin Near
    BY <2>6 DEF Passing
  <2> QED BY <1>8, <2>2, <2>7
<1> QED BY <1>7, <1>8

LEMMA KeptWithin ==
  ASSUME NEW items, NEW len \in Nat, Len(items) = len PROVE Kept(items) \subseteq 1..len
BY KeptFixpoint

\* dedup_exact: every item has a first of its form.
LEMMA FirstExists ==
  ASSUME NEW items, NEW len \in Nat, DOMAIN items = 1..len, NEW i \in 1..len
  PROVE  \E j \in FirstOfForm(items) : j \in 1..i /\ Norm[items[j]] = Norm[items[i]]
<1> DEFINE S == {j \in 1..i : Norm[items[j]] = Norm[items[i]]}
<1>1. S \subseteq Nat /\ i \in S
  OBVIOUS
<1>2. PICK j \in S : \A k \in S : j <= k
  BY <1>1, NatMin, S # {}
<1>3. j \in 1..i /\ j \in 1..len /\ Norm[items[j]] = Norm[items[i]]
  BY <1>2
<1>4. ASSUME NEW k \in 1..j-1, Norm[items[k]] = Norm[items[j]] PROVE FALSE
  <2>1. k \in S /\ k < j
    BY <1>3, <1>4
  <2> HIDE DEF S
  <2> QED BY <1>2, <1>3, <2>1
<1>5. j \in FirstOfForm(items)
  BY <1>3, <1>4 DEF FirstOfForm
<1> QED BY <1>3, <1>5

\* The kept items stand for all of them, and no two for the same.
KeepsOne(items) ==
    LET kept == Kept(items)
        same(i, j) == Norm[items[i]] = Norm[items[j]]
        near(i, j) == {items[i], items[j]} \in Near
    IN  /\ \A i, j \in kept : i # j => ~same(i, j) /\ ~near(i, j)
        /\ \A i \in DOMAIN items : \E j \in 1..i :
              same(i, j) /\ (j \in kept \/ \E k \in kept : near(j, k))

LEMMA KeptKeepsOne ==
  ASSUME NEW items, NEW len \in Nat, DOMAIN items = 1..len, Len(items) = len
  PROVE  KeepsOne(items)
<1> DEFINE kept == Kept(items)
           same(i, j) == Norm[items[i]] = Norm[items[j]]
           near(i, j) == {items[i], items[j]} \in Near
<1>1. \A i : i \in kept <=>
            /\ i \in 1..len
            /\ i \in FirstOfForm(items)
            /\ \A j \in kept : j < i => ~near(i, j)
  BY KeptFixpoint
<1> HIDE DEF kept
<1>2. ASSUME NEW i \in kept, NEW j \in kept, j < i PROVE ~same(i, j) /\ ~near(i, j)
  <2>1. i \in FirstOfForm(items) /\ i \in 1..len /\ j \in 1..len /\ ~near(i, j)
    BY <1>1, <1>2
  <2>2. j \in 1..i-1
    BY <1>2, <2>1
  <2> QED BY <2>1, <2>2 DEF FirstOfForm
<1>3. ASSUME NEW i \in kept, NEW j \in kept, i # j PROVE ~same(i, j) /\ ~near(i, j)
  <2>1. i \in 1..len /\ j \in 1..len /\ (i < j \/ j < i)
    BY <1>1, <1>3
  <2>2. {items[i], items[j]} = {items[j], items[i]}
    OBVIOUS
  <2>3. CASE j < i
    BY <1>2, <2>3
  <2>4. CASE i < j
    <3>1. ~same(j, i) /\ ~near(j, i)
      BY <1>2, <2>4
    <3> QED BY <2>2, <3>1
  <2> QED BY <2>1, <2>3, <2>4
<1>4. ASSUME NEW i \in 1..len
      PROVE  \E j \in 1..i : same(i, j) /\ (j \in kept \/ \E k \in kept : near(j, k))
  <2>1. PICK j \in FirstOfForm(items) : j \in 1..i /\ same(j, i)
    BY FirstExists
  <2>2. j \in 1..len
    BY <2>1
  <2>3. j \in kept \/ \E k \in kept : near(j, k)
    BY <1>1, <2>2
  <2> QED BY <2>1, <2>3
<1> QED BY <1>3, <1>4 DEF KeepsOne, kept

\* Synthesis that has items writes some.
LEMMA KeptSome ==
  ASSUME NEW items, NEW len \in Nat \ {0}, DOMAIN items = 1..len, Len(items) = len
  PROVE  Cardinality(Kept(items)) \in Nat \ {0}
<1>1. 1 \in FirstOfForm(items)
  BY DEF FirstOfForm
<1>2. Kept(items) \subseteq 1..len
  BY KeptWithin
<1>3. 1 \in Kept(items)
  <2>1. \A j \in Kept(items) : ~(j < 1)
    BY <1>2
  <2>2. 1 \in 1..len
    OBVIOUS
  <2> QED BY <1>1, <2>1, <2>2, KeptFixpoint
<1>4. IsFiniteSet(Kept(items))
  BY <1>2, FS_Interval, FS_Subset, 1 \in Int, len \in Int
<1> QED BY <1>3, <1>4, FS_EmptySet, FS_CardinalityType

-----------------------------------------------------------------------------
(* A dataset, its file and its task.                                        *)

DatasetRow ==
    [status : {"absent", "validating", "valid", "invalid"},
     kind : {"upload", "rag_eval", "behavior"},
     task : Tasks \cup {None}, n : Nat, source : Ids \cup {None}]

Saving == [pc : {"commit"}, task : Tasks]
Curating == [pc : {"rename", "commit_curated"}, source : Ids,
             content : Seq(Shapes) \ {<<>>}]
Loading == [pc : {"load"}, max : Nat \ {0}]
Asking == [pc : {"generate", "record"}, sample : Seq(Nat), at : Nat, errors : Nat,
           items : Seq(DOMAIN Norm)]

\* The file f has the shape row x asks for.
HasShape(x, f) ==
    \A i \in DOMAIN f : IF x.kind = "rag_eval" THEN f[i] = "question"
                        ELSE RowFits(f[i], x.task)

Usable(x, f) ==
    /\ f \in Seq(Shapes) /\ Len(f) = x.n /\ x.n > 0
    /\ x.source = None => HasShape(x, f)

\* What each task has prepared.  A row with a task is not valid yet, so that no
\* task ever rewrites the file of a dataset that is in use.
Prepared(x, f, t) ==
    /\ t.pc \in {"none", "commit", "validate", "giveup", "rename", "commit_curated",
                 "load", "generate", "record"}
    /\ t.pc = "none" => t = NoTask
    /\ t.pc # "none" => x.status # "valid"
    /\ t.pc \in {"validate", "load", "generate", "record"} => x.source = None
    /\ t.pc = "commit" => t \in Saving /\ f \in Seq(Shapes)
    /\ t.pc = "validate" => f \in Seq(Shapes) /\ x.kind = "upload"
    /\ t.pc \in {"rename", "commit_curated"} => t \in Curating
    /\ t.pc = "commit_curated" => f = t.content
    /\ t.pc = "load" => t \in Loading
    /\ t.pc \in {"generate", "record"} => t \in Asking
    /\ t.pc \in {"load", "generate"} => x.kind # "upload"
    /\ t.pc = "generate" => Spread(t.sample, NumChunks)
    /\ t.pc = "record" => f \in Seq(Shapes) \ {<<>>} /\ HasShape(x, f)

OK(x, f, t) ==
    /\ x \in DatasetRow
    /\ f \in Seq(Shapes) \cup {None}
    /\ x.status = "valid" => Usable(x, f)
    /\ Prepared(x, f, t)

DInv ==
    /\ DOMAIN ds = Ids /\ DOMAIN disk = Ids /\ DOMAIN task = Ids
    /\ ds = [d \in Ids |-> ds[d]] /\ disk = [d \in Ids |-> disk[d]]
    /\ task = [d \in Ids |-> task[d]]
    /\ \A d \in Ids : OK(ds[d], disk[d], task[d])
    /\ chunks \in 0..NumChunks

LEMMA DInit == Init => DInv
<1> SUFFICES ASSUME Init PROVE DInv
  OBVIOUS
<1>1. OK(Absent, None, NoTask)
  BY DatasetsAssumption DEF OK, Absent, NoTask, DatasetRow, Prepared
<1> QED BY <1>1, DatasetsAssumption DEF Init, DInv

\* A step that concerns dataset d only.
LEMMA Local ==
  ASSUME DInv, NEW d \in Ids, NEW x, NEW f, NEW t,
         ds' = [ds EXCEPT ![d] = x], disk' = [disk EXCEPT ![d] = f],
         task' = [task EXCEPT ![d] = t], chunks' = chunks, OK(x, f, t)
  PROVE  DInv'
<1>1. \A e \in Ids : ds'[e] = (IF e = d THEN x ELSE ds[e])
                     /\ disk'[e] = (IF e = d THEN f ELSE disk[e])
                     /\ task'[e] = (IF e = d THEN t ELSE task[e])
  BY Zenon DEF DInv
<1>2. \A e \in Ids : OK(ds'[e], disk'[e], task'[e])
  BY <1>1 DEF DInv
<1>3. /\ DOMAIN ds' = Ids /\ DOMAIN disk' = Ids /\ DOMAIN task' = Ids
      /\ ds' = [e \in Ids |-> ds'[e]] /\ disk' = [e \in Ids |-> disk'[e]]
      /\ task' = [e \in Ids |-> task'[e]]
  BY Zenon DEF DInv
<1> QED BY <1>2, <1>3 DEF DInv

\* A component that stays.
LEMMA Same ==
  ASSUME DInv, NEW d \in Ids
  PROVE  /\ ds = [ds EXCEPT ![d] = ds[d]] /\ disk = [disk EXCEPT ![d] = disk[d]]
         /\ task = [task EXCEPT ![d] = task[d]]
<1>1. ds = [ds EXCEPT ![d] = ds[d]]
  BY Zenon DEF DInv
<1>2. disk = [disk EXCEPT ![d] = disk[d]]
  BY Zenon DEF DInv
<1>3. task = [task EXCEPT ![d] = task[d]]
  BY Zenon DEF DInv
<1> QED BY <1>1, <1>2, <1>3

LEMMA UploadStep ==
  ASSUME DInv, NEW d \in Ids,
         \/ \E c \in Contents, t \in Tasks : SaveUpload(d, c, t)
         \/ CommitUpload(d) \/ CommitUploadRaises(d) \/ Validate(d) \/ ValidateRaises(d)
         \/ MarkInvalid(d) \/ MarkInvalidRaises(d)
  PROVE  DInv'
<1> USE DatasetsAssumption DEF NoEvent
<1>0. OK(ds[d], disk[d], task[d])
  BY DEF DInv
<1>1. ASSUME NEW c \in Contents, NEW t \in Tasks, SaveUpload(d, c, t) PROVE DInv'
  <2>1. OK(ds[d], c, [pc |-> "commit", task |-> t])
    BY <1>0, <1>1 DEF SaveUpload, Unused, OK, Prepared, Saving
  <2>2. /\ disk' = [disk EXCEPT ![d] = c] /\ ds' = ds /\ chunks' = chunks
        /\ task' = [task EXCEPT ![d] = [pc |-> "commit", task |-> t]]
    BY <1>1 DEF SaveUpload
  <2> QED BY <2>1, <2>2, Local, Same
<1>2. CASE CommitUpload(d)
  <2> DEFINE x == UploadedRow(d)
  <2>1. /\ ds' = [ds EXCEPT ![d] = x] /\ disk' = disk /\ chunks' = chunks
        /\ task' = [task EXCEPT ![d] = [pc |-> "validate"]] /\ task[d].pc = "commit"
    BY <1>2 DEF CommitUpload
  <2>2. task[d] \in Saving /\ disk[d] \in Seq(Shapes)
    BY <1>0, <2>1 DEF OK, Prepared
  <2>3. /\ x \in DatasetRow /\ x.status = "validating" /\ x.kind = "upload"
        /\ x.source = None
    BY <2>2 DEF Absent, DatasetRow, Saving, UploadedRow
  <2> HIDE DEF x
  <2>4. OK(x, disk[d], [pc |-> "validate"])
    BY <2>2, <2>3 DEF OK, Prepared
  <2> QED BY <2>1, <2>4, Local, Same
<1>2a. CASE CommitUploadRaises(d)
  <2>1. PICK x \in {ds[d], UploadedRow(d)} : ds' = [ds EXCEPT ![d] = x]
    BY <1>2a DEF CommitUploadRaises
  <2>2. /\ disk' = disk /\ chunks' = chunks /\ task[d].pc = "commit"
        /\ task' = [task EXCEPT ![d] = NoTask]
    BY <1>2a DEF CommitUploadRaises
  <2>3. task[d] \in Saving /\ disk[d] \in Seq(Shapes)
    BY <1>0, <2>2 DEF OK, Prepared
  <2>4. CASE x = ds[d]
    <3>1. OK(x, disk[d], NoTask)
      BY <1>0, <2>2, <2>4 DEF OK, Prepared, NoTask
    <3> QED BY <2>1, <2>2, <3>1, Local, Same
  <2>5. CASE x = UploadedRow(d)
    <3>1. /\ x \in DatasetRow /\ x.status = "validating" /\ x.kind = "upload"
          /\ x.source = None
      BY <2>3, <2>5 DEF Absent, DatasetRow, Saving, UploadedRow
    <3>2. OK(x, disk[d], NoTask)
      BY <2>3, <3>1 DEF OK, Prepared, NoTask
    <3> QED BY <2>1, <2>2, <3>2, Local, Same
  <2> QED BY <2>4, <2>5
<1>3. CASE Validate(d)
  <2> DEFINE ok == Validates(disk[d], ds[d].task)
             x == [ds[d] EXCEPT !.status = IF ok THEN "valid" ELSE "invalid",
                                !.n = IF ok THEN Len(disk[d]) ELSE 0]
  <2>1. /\ ds' = [ds EXCEPT ![d] = x] /\ disk' = disk /\ chunks' = chunks
        /\ task' = [task EXCEPT ![d] = NoTask] /\ task[d].pc = "validate"
    BY <1>3 DEF Validate, DInv
  <2>2. /\ disk[d] \in Seq(Shapes) /\ ds[d].kind = "upload" /\ ds[d].source = None
        /\ ds[d] \in DatasetRow
    BY <1>0, <2>1 DEF OK, Prepared
  <2>3. /\ x \in DatasetRow /\ x.kind = "upload" /\ x.task = ds[d].task
        /\ x.source = None
        /\ x.status = "valid" => ok /\ x.n = Len(disk[d])
    <3>1. Len(disk[d]) \in Nat
      BY <2>2
    <3> HIDE DEF ok
    <3> QED BY <2>2, <3>1 DEF DatasetRow
  <2> HIDE DEF x
  <2>4. x.status = "valid" => Usable(x, disk[d])
    BY <2>2, <2>3 DEF Validates, Usable, HasShape
  <2>5. OK(x, disk[d], NoTask)
    BY <2>2, <2>3, <2>4 DEF OK, Prepared, NoTask
  <2> QED BY <2>1, <2>5, Local, Same
<1>4. CASE ValidateRaises(d)
  <2> DEFINE t == [pc |-> "giveup"]
  <2>1. /\ ds' = ds /\ disk' = disk /\ chunks' = chunks
        /\ task' = [task EXCEPT ![d] = t] /\ task[d].pc = "validate"
    BY <1>4 DEF ValidateRaises
  <2>2. OK(ds[d], disk[d], t)
    BY <1>0, <2>1 DEF OK, Prepared
  <2> HIDE DEF t
  <2> QED BY <2>1, <2>2, Local, Same
<1>5. CASE MarkInvalid(d)
  <2> DEFINE x == [ds[d] EXCEPT !.status = "invalid"]
  <2>1. /\ ds' = [ds EXCEPT ![d] = x] /\ disk' = disk /\ chunks' = chunks
        /\ task' = [task EXCEPT ![d] = NoTask] /\ task[d].pc = "giveup"
    BY <1>5 DEF MarkInvalid, DInv
  <2>2. x \in DatasetRow /\ x.status = "invalid"
    BY <1>0 DEF OK, DatasetRow
  <2> HIDE DEF x
  <2>3. OK(x, disk[d], NoTask)
    BY <1>0, <2>1, <2>2 DEF OK, Prepared, NoTask
  <2> QED BY <2>1, <2>3, Local, Same
<1>6. CASE MarkInvalidRaises(d)
  <2>1. /\ ds' = ds /\ disk' = disk /\ chunks' = chunks
        /\ task' = [task EXCEPT ![d] = NoTask] /\ task[d].pc = "giveup"
    BY <1>6 DEF MarkInvalidRaises
  <2>2. OK(ds[d], disk[d], NoTask)
    BY <1>0, <2>1 DEF OK, Prepared, NoTask
  <2> QED BY <2>1, <2>2, Local, Same
<1> QED BY <1>1, <1>2, <1>2a, <1>3, <1>4, <1>5, <1>6

LEMMA CurationStep ==
  ASSUME DInv, NEW d \in Ids,
         \/ \E s \in Ids, c \in Contents : WriteCurated(d, s, c)
         \/ RenameCurated(d) \/ CommitCurated(d)
  PROVE  DInv'
<1> USE DatasetsAssumption DEF NoEvent
<1>0. OK(ds[d], disk[d], task[d])
  BY DEF DInv
<1>1. ASSUME NEW s \in Ids, NEW c \in Contents, WriteCurated(d, s, c) PROVE DInv'
  <2> DEFINE t == [pc |-> "rename", source |-> s, content |-> c]
  <2>1. t \in Curating /\ t.pc = "rename"
    BY <1>1 DEF WriteCurated, Validates, Curating
  <2>2. /\ ds' = ds /\ disk' = disk /\ chunks' = chunks
        /\ task' = [task EXCEPT ![d] = t] /\ ds[d].status = "absent"
    BY <1>1 DEF WriteCurated, Unused
  <2> HIDE DEF t
  <2>3. OK(ds[d], disk[d], t)
    BY <1>0, <2>1, <2>2 DEF OK, Prepared
  <2> QED BY <2>2, <2>3, Local, Same
<1>2. CASE RenameCurated(d)
  <2> DEFINE t == [task[d] EXCEPT !.pc = "commit_curated"]
  <2>1. /\ ds' = ds /\ disk' = [disk EXCEPT ![d] = task[d].content] /\ chunks' = chunks
        /\ task' = [task EXCEPT ![d] = t] /\ task[d].pc = "rename"
    BY <1>2 DEF RenameCurated, DInv
  <2>2. task[d] \in Curating /\ ds[d].status # "valid"
    BY <1>0, <2>1 DEF OK, Prepared
  <2>3. t \in Curating /\ t.pc = "commit_curated" /\ t.content = task[d].content
        /\ task[d].content \in Seq(Shapes)
    BY <2>2 DEF Curating
  <2> HIDE DEF t
  <2>4. OK(ds[d], task[d].content, t)
    BY <1>0, <2>2, <2>3 DEF OK, Prepared
  <2> QED BY <2>1, <2>4, Local, Same
<1>3. CASE CommitCurated(d)
  <2> DEFINE s == task[d].source
             x == [status |-> "valid", kind |-> ds[s].kind, task |-> ds[s].task,
                   n |-> Len(disk[d]), source |-> s]
  <2>1. /\ ds' = [ds EXCEPT ![d] = x] /\ disk' = disk /\ chunks' = chunks
        /\ task' = [task EXCEPT ![d] = NoTask] /\ task[d].pc = "commit_curated"
    BY <1>3 DEF CommitCurated
  <2>2. task[d] \in Curating /\ disk[d] = task[d].content
    BY <1>0, <2>1 DEF OK, Prepared
  <2>3. s \in Ids /\ disk[d] \in Seq(Shapes) \ {<<>>}
    BY <2>2 DEF Curating
  <2>4. ds[s] \in DatasetRow
    BY <2>3 DEF DInv, OK
  <2>5. x \in DatasetRow /\ x.source # None /\ x.n = Len(disk[d]) /\ x.n > 0
    BY <2>3, <2>4 DEF DatasetRow
  <2> HIDE DEF x, s
  <2>6. OK(x, disk[d], NoTask)
    BY <2>3, <2>5 DEF OK, Usable, Prepared, NoTask
  <2> QED BY <2>1, <2>6, Local, Same
<1> QED BY <1>1, <1>2, <1>3

\* A task after one chunk more.
OneMore(y, a, e, i) == [y EXCEPT !.at = a, !.errors = e, !.items = i]

LEMMA Asked ==
  ASSUME NEW y \in Asking, NEW a \in Nat, NEW e \in Nat, NEW i \in Seq(DOMAIN Norm)
  PROVE  /\ OneMore(y, a, e, i) \in Asking
         /\ OneMore(y, a, e, i).pc = y.pc /\ OneMore(y, a, e, i).sample = y.sample
BY DEF Asking, OneMore

Answered(y, out) ==
    OneMore(y, y.at + 1, IF out = None THEN y.errors + 1 ELSE y.errors,
            IF out = None THEN y.items ELSE y.items \o out)

LEMMA AnsweredAsks ==
  ASSUME NEW y \in Asking, NEW out \in Outputs \cup {None}
  PROVE  /\ Answered(y, out) \in Asking
         /\ Answered(y, out).pc = y.pc /\ Answered(y, out).sample = y.sample
<1>1. PICK a \in Nat : a = y.at + 1
  BY DEF Asking
<1>2. PICK e \in Nat : e = IF out = None THEN y.errors + 1 ELSE y.errors
  BY DEF Asking
<1>3. PICK i \in Seq(DOMAIN Norm) : i = IF out = None THEN y.items ELSE y.items \o out
  <2>1. y.items \in Seq(DOMAIN Norm)
    BY DEF Asking
  <2>2. out # None => out \in Seq(DOMAIN Norm)
    BY DatasetsAssumption
  <2>3. out # None => y.items \o out \in Seq(DOMAIN Norm)
    BY <2>1, <2>2
  <2> QED BY <2>1, <2>3
<1>4. Answered(y, out) = OneMore(y, a, e, i)
  BY <1>1, <1>2, <1>3, Zenon DEF Answered
<1>5. PICK z : z = OneMore(y, a, e, i)
  OBVIOUS
<1>6. z \in Asking
  BY <1>5, Asked
<1>7. z.pc = y.pc
  BY <1>5, Asked
<1>8. z.sample = y.sample
  BY <1>5, Asked
<1> QED BY <1>4, <1>5, <1>6, <1>7, <1>8

LEMMA SynthesisStep ==
  ASSUME DInv, NEW d \in Ids,
         \/ \E m \in {"rag_eval", "behavior"}, t \in Tasks, k \in MaxChunks :
               Synthesize(d, m, t, k)
         \/ \E m \in {"rag_eval", "behavior"}, t \in Tasks : SynthesizeReplyLost(d, m, t)
         \/ LoadChunks(d)
         \/ \E out \in Outputs \cup {None} : Generate(d, out)
         \/ WriteRows(d) \/ RecordRows(d) \/ SynthesisRaises(d) \/ SynthesisSessionLost(d)
  PROVE  DInv'
<1> USE DatasetsAssumption DEF NoEvent
<1>0. OK(ds[d], disk[d], task[d]) /\ chunks \in 0..NumChunks
  BY DEF DInv
<1>1. ASSUME NEW m \in {"rag_eval", "behavior"}, NEW t \in Tasks, NEW k \in MaxChunks,
             Synthesize(d, m, t, k)
      PROVE  DInv'
  <2> DEFINE x == SynthesizedRow(m, t)
             y == [pc |-> "load", max |-> k]
  <2>1. /\ ds' = [ds EXCEPT ![d] = x] /\ disk' = disk /\ chunks' = chunks
        /\ task' = [task EXCEPT ![d] = y] /\ ds[d].status = "absent"
    BY <1>1 DEF Synthesize, Unused
  <2>2. /\ x \in DatasetRow /\ x.status = "validating" /\ x.kind = m /\ x.source = None
    BY DEF DatasetRow, Absent, SynthesizedRow
  <2>3. y \in Loading /\ y.pc = "load"
    BY DEF Loading
  <2> HIDE DEF x, y
  <2>4. OK(x, disk[d], y)
    BY <1>0, <2>2, <2>3 DEF OK, Prepared
  <2> QED BY <2>1, <2>4, Local, Same
<1>1a. ASSUME NEW m \in {"rag_eval", "behavior"}, NEW t \in Tasks, SynthesizeReplyLost(d, m, t)
       PROVE  DInv'
  <2> DEFINE x == SynthesizedRow(m, t)
  <2>1. /\ ds' = [ds EXCEPT ![d] = x] /\ disk' = disk /\ chunks' = chunks
        /\ task' = task /\ ds[d].status = "absent" /\ task[d] = NoTask
    BY <1>1a DEF SynthesizeReplyLost, Unused
  <2>2. /\ x \in DatasetRow /\ x.status = "validating" /\ x.kind = m /\ x.source = None
    BY DEF DatasetRow, Absent, SynthesizedRow
  <2> HIDE DEF x
  <2>3. OK(x, disk[d], task[d])
    BY <1>0, <2>1, <2>2 DEF OK, Prepared, NoTask
  <2> QED BY <2>1, <2>3, Local, Same
<1>2. ASSUME task[d].pc \in {"validate", "load", "generate", "record", "giveup"},
             UNCHANGED <<ds, disk, chunks>>,
             \/ task' = [task EXCEPT ![d] = [pc |-> "giveup"]]
             \/ task' = [task EXCEPT ![d] = NoTask]
      PROVE  DInv'
  <2>1. PICK t : task' = [task EXCEPT ![d] = t] /\ t \in {[pc |-> "giveup"], NoTask}
    BY <1>2
  <2>2. OK(ds[d], disk[d], t)
    BY <1>0, <1>2, <2>1 DEF OK, Prepared, NoTask
  <2> QED BY <1>2, <2>1, <2>2, Local, Same
<1>3. CASE LoadChunks(d)
  <2>1. task[d].pc = "load" /\ UNCHANGED <<ds, disk, chunks>>
    BY <1>3 DEF LoadChunks
  <2>2. CASE chunks = 0
    <3>1. task' = [task EXCEPT ![d] = [pc |-> "giveup"]]
      BY <1>3, <2>2 DEF LoadChunks
    <3> QED BY <1>2, <2>1, <3>1
  <2>3. CASE chunks # 0
    <3> DEFINE s == Sample(chunks, task[d].max)
               t == [pc |-> "generate", sample |-> s, at |-> 0, errors |-> 0, items |-> <<>>]
    <3>1. task' = [task EXCEPT ![d] = t]
      BY <1>3, <2>3 DEF LoadChunks
    <3>2. task[d] \in Loading /\ ds[d].source = None /\ ds[d].kind # "upload"
          /\ ds[d].status # "valid"
      BY <1>0, <2>1 DEF OK, Prepared
    <3>3. task[d].max \in Nat \ {0} /\ chunks \in Nat \ {0} /\ chunks <= NumChunks
      BY <1>0, <2>3, <3>2 DEF Loading
    <3>4. Spread(s, chunks)
      BY <3>3, SampleSpreads
    <3> HIDE DEF s
    <3>5. s \in Seq(Nat)
      BY <3>4 DEF Spread
    <3>6. Spread(s, NumChunks)
      <4>1. Len(s) > 0 => Len(s) \in 1..Len(s) /\ s[Len(s)] \in Nat
        BY <3>5
      <4> QED BY <3>3, <3>4, <4>1 DEF Spread
    <3>7. t \in Asking /\ t.pc = "generate" /\ t.sample = s
      BY <3>5 DEF Asking
    <3> HIDE DEF t
    <3>8. OK(ds[d], disk[d], t)
      BY <1>0, <3>2, <3>6, <3>7 DEF OK, Prepared
    <3> QED BY <2>1, <3>1, <3>8, Local, Same
  <2> QED BY <2>2, <2>3
<1>4. ASSUME NEW out \in Outputs \cup {None}, Generate(d, out) PROVE DInv'
  <2> DEFINE t == Answered(task[d], out)
  <2>1. task[d].pc = "generate" /\ UNCHANGED <<ds, disk, chunks>>
    BY <1>4 DEF Generate
  <2>2. task' = [task EXCEPT ![d] = t]
    BY <1>4, Zenon DEF Generate, DInv, Answered, OneMore
  <2>3. task[d] \in Asking /\ Spread(task[d].sample, NumChunks) /\ ds[d].status # "valid"
        /\ ds[d].source = None /\ ds[d].kind # "upload"
    BY <1>0, <2>1 DEF OK, Prepared
  <2>4. t \in Asking /\ t.pc = "generate" /\ t.sample = task[d].sample
    BY <2>1, <2>3, AnsweredAsks
  <2> HIDE DEF t
  <2>5. OK(ds[d], disk[d], t)
    BY <1>0, <2>3, <2>4 DEF OK, Prepared
  <2> QED BY <2>1, <2>2, <2>5, Local, Same
<1>5. CASE WriteRows(d)
  <2> DEFINE kept == Cardinality(Kept(task[d].items))
             size == IF ds[d].kind = "behavior" /\ kept > MaxRows THEN MaxRows ELSE kept
             row == RowOf(ds[d].kind, ds[d].task)
             f == [i \in 1..size |-> row]
             t == [task[d] EXCEPT !.pc = "record"]
  <2>1. task[d].pc = "generate" /\ UNCHANGED <<ds, chunks>>
    BY <1>5 DEF WriteRows
  <2>2. CASE task[d].items = <<>> \/ 2 * task[d].errors > Len(task[d].sample)
    <3>1. task' = [task EXCEPT ![d] = [pc |-> "giveup"]] /\ disk' = disk
      BY <1>5, <2>2 DEF WriteRows
    <3> QED BY <1>2, <2>1, <3>1
  <2>3. CASE ~(task[d].items = <<>> \/ 2 * task[d].errors > Len(task[d].sample))
    <3>1. disk' = [disk EXCEPT ![d] = f]
      BY <1>5, <2>3 DEF WriteRows
    <3>2. task' = [task EXCEPT ![d] = t]
      BY <1>5, <2>3 DEF WriteRows, DInv
    <3>3. /\ task[d] \in Asking /\ ds[d].status # "valid" /\ ds[d].kind # "upload"
          /\ ds[d] \in DatasetRow /\ ds[d].source = None
      BY <1>0, <2>1 DEF OK, Prepared
    <3>4. task[d].items \in Seq(DOMAIN Norm) \ {<<>>}
      BY <2>3, <3>3 DEF Asking
    <3>5. kept \in Nat \ {0}
      <4>1. PICK items : items = task[d].items /\ items \in Seq(DOMAIN Norm) \ {<<>>}
        BY <3>4
      <4>2. Len(items) \in Nat \ {0} /\ DOMAIN items = 1..Len(items)
        BY <4>1
      <4> QED BY <4>1, <4>2, KeptSome
    <3> HIDE DEF kept
    <3>6. size \in Nat \ {0}
      BY <3>5
    <3>7. /\ row \in Shapes
          /\ IF ds[d].kind = "rag_eval" THEN row = "question" ELSE RowFits(row, ds[d].task)
      BY <3>3 DEF RowOf, RowFits, Shapes
    <3> HIDE DEF size, row
    <3>8. f \in Seq(Shapes) /\ f # <<>> /\ \A i \in DOMAIN f : f[i] = row
      BY <3>6, <3>7
    <3> HIDE DEF f
    <3>9. HasShape(ds[d], f)
      BY <3>7, <3>8 DEF HasShape
    <3>10. t \in Asking /\ t.pc = "record"
      BY <3>3 DEF Asking
    <3> HIDE DEF t
    <3>11. OK(ds[d], f, t)
      BY <1>0, <3>3, <3>8, <3>9, <3>10 DEF OK, Prepared
    <3> QED BY <2>1, <3>1, <3>2, <3>11, Local, Same
  <2> QED BY <2>2, <2>3
<1>6. CASE RecordRows(d)
  <2> DEFINE x == [ds[d] EXCEPT !.status = "valid", !.n = Len(disk[d])]
  <2>1. /\ ds' = [ds EXCEPT ![d] = x] /\ disk' = disk /\ chunks' = chunks
        /\ task' = [task EXCEPT ![d] = NoTask] /\ task[d].pc = "record"
    BY <1>6 DEF RecordRows, DInv
  <2>2. /\ disk[d] \in Seq(Shapes) \ {<<>>} /\ HasShape(ds[d], disk[d])
        /\ ds[d] \in DatasetRow /\ ds[d].source = None
    BY <1>0, <2>1 DEF OK, Prepared
  <2>3. PICK n \in Nat \ {0} : n = Len(disk[d])
    BY <2>2
  <2>4. /\ x \in DatasetRow /\ x.n = n /\ x.kind = ds[d].kind /\ x.task = ds[d].task
    BY <2>2, <2>3 DEF DatasetRow
  <2> HIDE DEF x
  <2>5. Usable(x, disk[d])
    BY <2>2, <2>3, <2>4 DEF Usable, HasShape
  <2>6. OK(x, disk[d], NoTask)
    BY <2>2, <2>4, <2>5 DEF OK, Prepared, NoTask
  <2> QED BY <2>1, <2>6, Local, Same
<1>7. CASE SynthesisRaises(d)
  BY <1>2, <1>7 DEF SynthesisRaises
<1>8. CASE SynthesisSessionLost(d)
  BY <1>2, <1>8 DEF SynthesisSessionLost
<1> QED BY <1>1, <1>1a, <1>3, <1>4, <1>5, <1>6, <1>7, <1>8

LEMMA ProcessStep ==
  ASSUME DInv,
         \/ \E left \in {0, 1} : DeleteFiles(left)
         \/ Crash \/ Restart \/ RestartUnswept
  PROVE  DInv'
<1> USE DatasetsAssumption DEF NoEvent
<1>1. ASSUME NEW left \in {0, 1}, DeleteFiles(left) PROVE DInv'
  <2>1. UNCHANGED <<ds, disk, task>> /\ chunks' \in 0..NumChunks
    BY <1>1 DEF DeleteFiles, DInv
  <2> QED BY <2>1 DEF DInv
<1>2. CASE Crash
  <2>1. UNCHANGED <<ds, disk, chunks>> /\ task' = [d \in Ids |-> NoTask]
    BY <1>2 DEF Crash
  <2>2. ASSUME NEW d \in Ids PROVE OK(ds[d], disk[d], NoTask)
    BY DEF DInv, OK, Prepared, NoTask
  <2> QED BY <2>1, <2>2 DEF DInv
<1>3. CASE Restart
  <2> DEFINE x(d) == IF ds[d].status = "validating"
                     THEN [ds[d] EXCEPT !.status = "invalid"] ELSE ds[d]
  <2>1. UNCHANGED <<disk, task, chunks>> /\ ds' = [d \in Ids |-> x(d)]
    BY <1>3 DEF Restart
  <2>2. ASSUME NEW d \in Ids PROVE OK(x(d), disk[d], task[d])
    <3>1. OK(ds[d], disk[d], task[d])
      BY DEF DInv
    <3>2. CASE ds[d].status = "validating"
      <4>1. PICK y : y = [ds[d] EXCEPT !.status = "invalid"]
        OBVIOUS
      <4>2. /\ y \in DatasetRow /\ y.status = "invalid" /\ y.kind = ds[d].kind
            /\ y.task = ds[d].task /\ y.source = ds[d].source
        BY <3>1, <4>1 DEF OK, DatasetRow
      <4>3. HasShape(ds[d], disk[d]) => HasShape(y, disk[d])
        BY <4>2 DEF HasShape
      <4>4. OK(y, disk[d], task[d])
        BY <3>1, <4>2, <4>3 DEF OK, Prepared
      <4> QED BY <3>2, <4>1, <4>4
    <3> QED BY <3>1, <3>2
  <2> HIDE DEF x
  <2> QED BY <2>1, <2>2 DEF DInv
<1>4. CASE RestartUnswept
  <2>1. UNCHANGED <<ds, disk, task, chunks>>
    BY <1>4 DEF RestartUnswept
  <2> QED BY <2>1 DEF DInv
<1> QED BY <1>1, <1>2, <1>3, <1>4

LEMMA DStep == DInv /\ [Next]_vars => DInv'
<1> SUFFICES ASSUME DInv, [Next]_vars PROVE DInv'
  OBVIOUS
<1>1. CASE UNCHANGED vars
  BY <1>1 DEF DInv, vars
<1>2. CASE Next
  <2>1. ASSUME NEW d \in Ids, RequestStep(d) \/ TaskStep(d) PROVE DInv'
    BY <2>1, UploadStep, CurationStep, SynthesisStep DEF RequestStep, TaskStep
  <2>2. ASSUME NEW d \in Ids,
               \/ \E c \in Contents, t \in Tasks : SaveUpload(d, c, t)
               \/ CommitUploadRaises(d) \/ ValidateRaises(d) \/ MarkInvalidRaises(d)
        PROVE  DInv'
    BY <2>2, UploadStep
  <2>3. ASSUME NEW d \in Ids, \E s \in Ids, c \in Contents : WriteCurated(d, s, c)
        PROVE  DInv'
    BY <2>3, CurationStep
  <2>4. ASSUME NEW d \in Ids,
               \/ \E m \in {"rag_eval", "behavior"}, t \in Tasks, k \in MaxChunks :
                     Synthesize(d, m, t, k)
               \/ \E m \in {"rag_eval", "behavior"}, t \in Tasks : SynthesizeReplyLost(d, m, t)
               \/ SynthesisRaises(d) \/ SynthesisSessionLost(d)
        PROVE  DInv'
    BY <2>4, SynthesisStep
  <2> QED BY <1>2, <2>1, <2>2, <2>3, <2>4, ProcessStep, Zenon DEF Next
<1> QED BY <1>1, <1>2

LEMMA DAlways == Spec => []DInv
<1>1. Init => DInv
  BY DInit
<1>2. DInv /\ [Next]_vars => DInv'
  BY DStep
<1> QED BY <1>1, <1>2, PTL DEF Spec

\* A valid dataset is usable, whatever was uploaded, curated or synthesized beside
\* it and wherever the app died: its file is there, its count is the file's, and
\* every row has the shape of its kind and task.
THEOREM ValidSetsUsable == Spec => []ValidIsUsable
<1>1. DInv => ValidIsUsable
  <2> SUFFICES ASSUME DInv, NEW d \in Ids, Valid(d)
               PROVE  /\ disk[d] # None
                      /\ Len(disk[d]) = ds[d].n
                      /\ ds[d].n > 0
                      /\ ds[d].source = None =>
                            \A i \in DOMAIN disk[d] :
                                IF ds[d].kind = "rag_eval" THEN disk[d][i] = "question"
                                ELSE RowFits(disk[d][i], ds[d].task)
    BY DEF ValidIsUsable
  <2>1. Usable(ds[d], disk[d])
    BY DEF DInv, OK, Valid
  <2> QED BY <2>1, DatasetsAssumption DEF Usable, HasShape
<1> QED BY <1>1, DAlways, PTL

\* Synthesis keeps one of each group of duplicates and samples the chunks evenly,
\* for any number of items, whatever embeddings make near, and any number of chunks.
THEOREM SynthesisSound == Spec => []SynthesisKeepsOne
<1>1. DInv => SynthesisKeepsOne
  <2> SUFFICES ASSUME DInv, NEW d \in Ids, task[d].pc = "generate"
               PROVE  KeepsOne(task[d].items) /\ Spread(task[d].sample, NumChunks)
    BY DEF SynthesisKeepsOne, KeepsOne, Spread
  <2>1. task[d] \in Asking /\ Spread(task[d].sample, NumChunks)
    BY DEF DInv, OK, Prepared
  <2>2. PICK items \in Seq(DOMAIN Norm) : items = task[d].items
    BY <2>1 DEF Asking
  <2>3. Len(items) \in Nat /\ DOMAIN items = 1..Len(items)
    OBVIOUS
  <2>4. KeepsOne(items)
    BY <2>3, KeptKeepsOne
  <2> QED BY <2>1, <2>2, <2>4
<1> QED BY <1>1, DAlways, PTL
================================================================================
