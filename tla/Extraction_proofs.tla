--------------------------- MODULE Extraction_proofs ---------------------------
(***************************************************************************)
(* Proofs about Extraction: the pages of a file stay whole, and its        *)
(* vectors follow its rows, whatever the number of pages, chunks, pieces   *)
(* and jobs.                                                               *)
(*                                                                         *)
(* EInv says that what a job has selected of a page stays true until it    *)
(* commits, that a file without a row has no chunks, and that every page   *)
(* is one whole reading.  It needs that the indexes given to a page's new  *)
(* pieces are distinct and meet no other page's (IndexesFresh).  VecInv    *)
(* says what the vectors are between the two vector calls of a page and    *)
(* the commit of its rows.  Both are about a file whose jobs run one after *)
(* the other: Alone gives them up once a second job runs beside the first. *)
(***************************************************************************)
EXTENDS Extraction, FiniteSetTheorems, WellFoundedInduction, TLAPS

-----------------------------------------------------------------------------
(* Least and greatest numbers.                                              *)

\* A set of numbers that is not empty has a least one.
LEMMA NatMin ==
  ASSUME NEW T, T \subseteq Nat, T # {}
  PROVE  \E n \in T : \A k \in T : n <= k
<1> DEFINE R == {ss \in Nat \X Nat : ss[1] < ss[2]}
<1>1. IsWellFoundedOn(R, Nat)
  BY NatLessThanWellFounded DEF OpToRel
<1> HIDE DEF R
<1>2. PICK n \in T : \A k \in T : ~(<<k, n>> \in R)
  BY <1>1, WFMin
<1>3. \A k \in T : ~(k < n)
  BY <1>2 DEF R
<1> QED BY <1>2, <1>3

LEMMA MinIn ==
  ASSUME NEW T, T \subseteq Nat, T # {}
  PROVE  Min(T) \in T
BY NatMin DEF Min

\* A finite set of numbers has an upper bound ...
LEMMA Bounded ==
  ASSUME NEW S, IsFiniteSet(S), S \subseteq Nat
  PROVE  \E b \in Nat : S \subseteq 0..b
<1> DEFINE Bad == {n \in Nat : \E T \in SUBSET S :
                      Cardinality(T) = n /\ ~ \E b \in Nat : T \subseteq 0..b}
<1>1. Bad = {}
  <2> SUFFICES ASSUME Bad # {} PROVE FALSE
    OBVIOUS
  <2>1. PICK n \in Bad : \A k \in Bad : n <= k
    BY NatMin, Bad \subseteq Nat
  <2>2. PICK T \in SUBSET S : Cardinality(T) = n /\ ~ \E b \in Nat : T \subseteq 0..b
    BY <2>1
  <2>3. T # {}
    <3> SUFFICES ASSUME T = {} PROVE FALSE
      OBVIOUS
    <3>1. T \subseteq 0..0
      OBVIOUS
    <3> QED BY <2>2, <3>1
  <2>4. PICK x \in T : x \in Nat
    BY <2>3
  <2>5. IsFiniteSet(T) /\ IsFiniteSet(T \ {x}) /\ Cardinality(T) \in Nat
        /\ Cardinality(T \ {x}) = Cardinality(T) - 1 /\ Cardinality(T \ {x}) \in Nat
    BY <2>4, FS_Subset, FS_RemoveElement, FS_CardinalityType
  <2>6. Cardinality(T \ {x}) \notin Bad
    <3> HIDE DEF Bad
    <3> QED BY <2>1, <2>2, <2>5
  <2>7. PICK b \in Nat : T \ {x} \subseteq 0..b
    BY <2>5, <2>6
  <2>8. PICK c \in Nat : c >= b /\ c >= x
    BY <2>4
  <2>9. T \subseteq 0..c
    BY <2>4, <2>7, <2>8
  <2> QED BY <2>2, <2>9
<1>2. Cardinality(S) \notin Bad /\ Cardinality(S) \in Nat
  BY <1>1, FS_CardinalityType
<1> QED BY <1>2

\* ... and a greatest element.
LEMMA MaxOf ==
  ASSUME NEW S, S # {}, NEW b \in Nat, S \subseteq 0..b
  PROVE  Max(S) \in S /\ \A i \in S : i <= Max(S)
<1> DEFINE D == {c \in Nat : S \subseteq 0..c}
<1>1. PICK c \in D : \A d \in D : c <= d
  BY NatMin, b \in D, D \subseteq Nat
<1>2. c \in Nat /\ S \subseteq 0..c
  BY <1>1
<1>3. c \in S
  <2> SUFFICES ASSUME c \notin S PROVE FALSE
    OBVIOUS
  <2>1. c # 0
    <3>1. PICK i \in S : i \in 0..c /\ i # c
      BY <1>2, S # {}
    <3> QED BY <1>2, <3>1
  <2>2. c - 1 \in D
    BY <1>2, <2>1
  <2> HIDE DEF D
  <2> QED BY <1>1, <1>2, <2>2
<1>4. \A i \in S : c >= i
  BY <1>2
<1>5. Max(S) \in S /\ \A i \in S : Max(S) >= i
  BY <1>3, <1>4 DEF Max
<1> QED BY <1>2, <1>5

-----------------------------------------------------------------------------
(* The indexes of new pieces.                                               *)

\* The index of piece k when those in S are taken.
Taken(old, top, k, S) ==
    IF old \ S # {} THEN Min(old \ S) ELSE top + k - Cardinality(old)

Orders(g, old, top, n) ==
    g = [k \in 0..n |-> IF k = 0 THEN {} ELSE g[k-1] \cup {Taken(old, top, k, g[k-1])}]

LEMMA IndexesOrder ==
  ASSUME NEW old, NEW top, NEW n
  PROVE  Indexes(old, top, n) =
            [k \in 1..n |-> CHOOSE i \in (CHOOSE f : Orders(f, old, top, n))[k] :
                               i \notin (CHOOSE f : Orders(f, old, top, n))[k-1]]
BY Zenon DEF Indexes, Orders, Taken

LEMMA OrderExists ==
  ASSUME NEW old, NEW top, NEW n \in Nat PROVE \E g : Orders(g, old, top, n)
<1> DEFINE Bad == {m \in Nat : ~ \E g : Orders(g, old, top, m)}
<1>1. 0 \notin Bad
  <2>1. Orders([i \in 0..0 |-> {}], old, top, 0)
    BY DEF Orders
  <2> QED BY <2>1
<1>2. ASSUME NEW m \in Nat, m \notin Bad PROVE m + 1 \notin Bad
  <2>1. PICK g : Orders(g, old, top, m)
    BY <1>2
  <2>2. PICK h : h = [k \in 0..m+1 |-> IF k = 0 THEN {}
                                       ELSE g[k-1] \cup {Taken(old, top, k, g[k-1])}]
    OBVIOUS
  <2>3. \A k \in 0..m : g[k] = IF k = 0 THEN {}
                               ELSE g[k-1] \cup {Taken(old, top, k, g[k-1])}
    BY <2>1, Zenon DEF Orders
  <2>4. \A k \in 0..m : k \in 0..m+1
    OBVIOUS
  <2>5. \A k \in 0..m : h[k] = g[k]
    BY <2>2, <2>3, <2>4, Zenon
  <2>6. \A k \in 0..m+1 : k # 0 => k - 1 \in 0..m
    OBVIOUS
  <2>7. \A k \in 0..m+1 : k # 0 => h[k-1] = g[k-1]
    BY <2>5, <2>6
  <2>8. Orders(h, old, top, m + 1)
    BY <2>2, <2>7 DEF Orders
  <2> QED BY <2>8
<1>3. Bad = {}
  <2> SUFFICES ASSUME Bad # {} PROVE FALSE
    OBVIOUS
  <2>1. PICK m \in Bad : \A k \in Bad : m <= k
    BY NatMin, Bad \subseteq Nat
  <2>2. m \in Nat /\ m # 0
    BY <1>1
  <2>3. m - 1 \in Nat /\ m - 1 \notin Bad /\ m - 1 + 1 = m
    <3> HIDE DEF Bad
    <3> QED BY <2>1, <2>2
  <2> QED BY <1>2, <2>3
<1> QED BY <1>3

\* The set of the first k indexes has k elements, old ones and, once the old ones
\* are used up, the next ones above top.
LEMMA OrderGrows ==
  ASSUME NEW top \in Nat, NEW old, old \subseteq 0..top, NEW n \in Nat,
         NEW g, Orders(g, old, top, n)
  PROVE  \A k \in 1..n :
            /\ g[k] = g[k-1] \cup {Taken(old, top, k, g[k-1])}
            /\ Taken(old, top, k, g[k-1]) \notin g[k-1]
            /\ \/ Taken(old, top, k, g[k-1]) \in old
               \/ /\ Taken(old, top, k, g[k-1]) \in Nat
                  /\ Taken(old, top, k, g[k-1]) > top
<1> DEFINE c == Cardinality(old)
           Good(k) == /\ IsFiniteSet(g[k]) /\ Cardinality(g[k]) = k
                      /\ g[k] \subseteq old \cup (top+1 .. top+k-c)
           Bad == {k \in Nat : k <= n /\ ~Good(k)}
<1>0. old \subseteq Nat
  OBVIOUS
<1>1. c \in Nat /\ IsFiniteSet(old)
  <2>1. IsFiniteSet(0..top)
    BY FS_Interval, 0 \in Int, top \in Int
  <2>2. IsFiniteSet(old)
    BY <2>1, FS_Subset
  <2> QED BY <2>2, FS_CardinalityType
<1>2. /\ g[0] = {}
      /\ \A k \in 1..n : g[k] = g[k-1] \cup {Taken(old, top, k, g[k-1])}
  <2>1. \A k \in 0..n : g[k] = IF k = 0 THEN {}
                               ELSE g[k-1] \cup {Taken(old, top, k, g[k-1])}
    BY Zenon DEF Orders
  <2>2. 0 \in 0..n /\ \A k \in 1..n : k \in 0..n /\ k # 0
    OBVIOUS
  <2> QED BY <2>1, <2>2, Zenon
<1>3. 0 \notin Bad
  BY <1>2, FS_EmptySet
<1>4. ASSUME NEW k \in 1..n, Good(k-1)
      PROVE  /\ Taken(old, top, k, g[k-1]) \notin g[k-1]
             /\ \/ Taken(old, top, k, g[k-1]) \in old
                \/ /\ Taken(old, top, k, g[k-1]) \in Nat
                   /\ Taken(old, top, k, g[k-1]) > top
             /\ Good(k)
  <2>0. k \in Nat /\ k - 1 \in Nat
    OBVIOUS
  <2> DEFINE S == g[k-1]
             x == Taken(old, top, k, S)
  <2>1. IsFiniteSet(S) /\ Cardinality(S) = k - 1 /\ S \subseteq old \cup (top+1 .. top+(k-1)-c)
    BY <1>4
  <2>2. CASE old \ S # {}
    <3>1. x \in old \ S
      <4>1. old \ S \subseteq Nat
        BY <1>0
      <4> QED BY <2>2, <4>1, MinIn DEF Taken
    <3> HIDE DEF x, S
    <3>2. IsFiniteSet(S \cup {x}) /\ Cardinality(S \cup {x}) = k
      BY <2>1, <3>1, FS_AddElement
    <3>3. S \cup {x} \subseteq old \cup (top+1 .. top+k-c)
      BY <1>1, <2>1, <3>1
    <3>4. g[k] = S \cup {x}
      BY <1>2 DEF x, S
    <3> QED BY <3>1, <3>2, <3>3, <3>4 DEF x, S
  <2>3. CASE old \ S = {}
    <3>1. old \in SUBSET S
      BY <2>3
    <3>2. c <= k - 1
      BY <2>1, <3>1, FS_Subset
    <3>3. x = top + k - c
      BY <2>3 DEF Taken
    <3> HIDE DEF x, S, c
    <3>4. x \in Nat /\ x > top /\ x \notin S /\ x \in top+1 .. top+k-c
      BY <1>1, <2>1, <3>2, <3>3
    <3>5. IsFiniteSet(S \cup {x}) /\ Cardinality(S \cup {x}) = k
      BY <2>1, <3>4, FS_AddElement
    <3>6. S \cup {x} \subseteq old \cup (top+1 .. top+k-c)
      BY <1>1, <2>1, <3>4
    <3>7. g[k] = S \cup {x}
      BY <1>2 DEF x, S
    <3> QED BY <3>4, <3>5, <3>6, <3>7 DEF x, S
  <2> QED BY <2>2, <2>3
<1>5. Bad = {}
  <2> SUFFICES ASSUME Bad # {} PROVE FALSE
    OBVIOUS
  <2>1. PICK k \in Bad : \A j \in Bad : k <= j
    BY NatMin, Bad \subseteq Nat
  <2>2. k \in 1..n /\ ~Good(k)
    BY <1>3, <2>1
  <2>3. k - 1 \in Nat /\ k - 1 <= n /\ k - 1 \notin Bad
    <3> HIDE DEF Bad
    <3> QED BY <2>1, <2>2
  <2>4. Good(k - 1)
    BY <2>3
  <2> QED BY <1>4, <2>2, <2>4
<1>6. \A k \in 1..n : Good(k-1)
  <2> SUFFICES ASSUME NEW k \in 1..n PROVE Good(k-1)
    OBVIOUS
  <2>1. k - 1 \in Nat /\ k - 1 <= n /\ k - 1 \notin Bad
    BY <1>5
  <2> QED BY <2>1
<1> QED BY <1>2, <1>4, <1>6

\* The new indexes are distinct; each is an old one or above every index.
LEMMA IndexesFresh ==
  ASSUME NEW top \in Nat, NEW old, old \subseteq 0..top, NEW n \in Nat,
         NEW ix, ix = Indexes(old, top, n)
  PROVE  /\ ix = [k \in 1..n |-> ix[k]] /\ DOMAIN ix = 1..n
         /\ \A k \in 1..n : ix[k] \in Nat /\ (ix[k] \in old \/ ix[k] > top)
         /\ \A j, k \in 1..n : ix[j] = ix[k] => j = k
<1> DEFINE g == CHOOSE f : Orders(f, old, top, n)
           x(k) == Taken(old, top, k, g[k-1])
<1>1. ix = [k \in 1..n |-> CHOOSE i \in g[k] : i \notin g[k-1]]
  BY IndexesOrder, Zenon
<1>2. Orders(g, old, top, n)
  BY OrderExists
<1> HIDE DEF g
<1>3. \A k \in 1..n : /\ g[k] = g[k-1] \cup {x(k)} /\ x(k) \notin g[k-1]
                      /\ \/ x(k) \in old
                         \/ x(k) \in Nat /\ x(k) > top
  <2>1. \A k \in 1..n :
            /\ g[k] = g[k-1] \cup {Taken(old, top, k, g[k-1])}
            /\ Taken(old, top, k, g[k-1]) \notin g[k-1]
            /\ \/ Taken(old, top, k, g[k-1]) \in old
               \/ /\ Taken(old, top, k, g[k-1]) \in Nat
                  /\ Taken(old, top, k, g[k-1]) > top
    BY <1>2, OrderGrows, Zenon
  <2> QED BY <2>1, Zenon
<1> HIDE DEF x
<1>5. \A k \in 1..n : ix[k] = x(k)
  <2> SUFFICES ASSUME NEW k \in 1..n PROVE ix[k] = x(k)
    OBVIOUS
  <2>1. ix[k] = CHOOSE i \in g[k] : i \notin g[k-1]
    BY <1>1, Zenon
  <2>2. \A i \in g[k] : i \notin g[k-1] <=> i = x(k)
    BY <1>3
  <2>3. x(k) \in g[k]
    BY <1>3
  <2> QED BY <2>1, <2>2, <2>3
<1>6. \A j, k \in 1..n : j <= k => g[j] \subseteq g[k]
  <2> SUFFICES ASSUME NEW j \in 1..n,
                      {k \in Nat : j <= k /\ k <= n /\ ~(g[j] \subseteq g[k])} # {}
               PROVE  FALSE
    OBVIOUS
  <2> DEFINE Bad == {k \in Nat : j <= k /\ k <= n /\ ~(g[j] \subseteq g[k])}
  <2>1. PICK k \in Bad : \A i \in Bad : k <= i
    BY NatMin, Bad \subseteq Nat
  <2>2. k \in Nat /\ j <= k /\ k <= n /\ ~(g[j] \subseteq g[k]) /\ k # j
    BY <2>1
  <2>3. k - 1 \in Nat /\ j <= k - 1 /\ k - 1 <= n /\ k \in 1..n
    BY <2>2
  <2>4. k - 1 \notin Bad
    <3> HIDE DEF Bad
    <3> QED BY <2>1, <2>2
  <2>5. g[j] \subseteq g[k-1] /\ g[k-1] \subseteq g[k]
    BY <1>3, <2>3, <2>4
  <2> QED BY <2>2, <2>5
<1>7. ASSUME NEW j \in 1..n, NEW k \in 1..n, j < k PROVE ix[j] # ix[k]
  <2>1. k - 1 \in 1..n /\ j <= k - 1
    BY <1>7
  <2>2. x(j) \in g[k-1]
    BY <1>3, <1>6, <2>1
  <2> QED BY <1>3, <1>5, <2>2
<1>8. \A k \in 1..n : ix[k] \in Nat /\ (ix[k] \in old \/ ix[k] > top)
  <2> SUFFICES ASSUME NEW k \in 1..n PROVE ix[k] \in Nat /\ (ix[k] \in old \/ ix[k] > top)
    OBVIOUS
  <2>1. old \subseteq Nat
    OBVIOUS
  <2>2. PICK y : y = ix[k] /\ (y \in old \/ (y \in Nat /\ y > top))
    BY <1>3, <1>5
  <2> QED BY <2>1, <2>2
<1>9. ix = [k \in 1..n |-> ix[k]] /\ DOMAIN ix = 1..n
  BY <1>1
<1>10. ASSUME NEW j \in 1..n, NEW k \in 1..n, ix[j] = ix[k] PROVE j = k
  <2>1. j \in Nat /\ k \in Nat
    OBVIOUS
  <2> QED BY <1>7, <1>10, <2>1
<1> QED BY <1>8, <1>9, <1>10

-----------------------------------------------------------------------------
(* Rows, pages and the job.                                                 *)

Pcs == {"idle", "page", "hung", "select", "delete", "upsert", "surplus", "commit"}

Jobs == [pc : Pcs, all : BOOLEAN, todo : SUBSET Nat, flagged : SUBSET Nat, reading : Nat,
         got : BOOLEAN, n : Nat, old : SUBSET Nat, top : Nat, locked : BOOLEAN, missed : {FALSE},
         done : Nat]

Texts == [page : Nat, reading : Nat, k : Nat, n : Nat]

ChunkRow == [page : Nat, text : Texts, fields : BOOLEAN, review : BOOLEAN]

\* The rows of page p, and that they are one reading of it, complete.
Here(r, p) == {i \in DOMAIN r : r[i].page = p}
Whole(r, p) ==
    \E n \in Nat \ {0}, reading \in Nat :
        /\ IsFiniteSet(Here(r, p)) /\ Cardinality(Here(r, p)) = n
        /\ {r[i].text : i \in Here(r, p)} = {Piece(p, reading, k, n) : k \in 1..n}

RowsInv ==
    /\ exists \in BOOLEAN
    /\ rows = [i \in DOMAIN rows |-> rows[i]]
    /\ DOMAIN rows \subseteq Nat /\ IsFiniteSet(DOMAIN rows)
    /\ \A i \in DOMAIN rows : rows[i] \in ChunkRow
    /\ ~exists => DOMAIN rows = {}
    /\ del # "none" => exists

\* What the job has selected stays so until it commits: nobody else writes the
\* rows of a file that exists.
SwapPcs == {"delete", "upsert", "surplus", "commit"}

JobInv ==
    /\ queue \in Seq(BOOLEAN)
    /\ wk \in Jobs
    /\ wk.pc \in SwapPcs \cup {"select"} => wk.todo # {}
    /\ wk.pc \in SwapPcs =>
          /\ wk.n > 0
          /\ exists => wk.old = Here(rows, ThisPage) /\ DOMAIN rows \subseteq 0..wk.top

PagesInv == exists => \A p \in Pages : Whole(rows, p)

EInv == RowsInv /\ JobInv /\ PagesInv

-----------------------------------------------------------------------------
(* The job's record.                                                        *)

\* It moves on.
LEMMA Moves ==
  ASSUME wk \in Jobs, NEW c \in Pcs, wk' = [wk EXCEPT !.pc = c]
  PROVE  /\ wk' \in Jobs /\ wk'.pc = c /\ wk'.todo = wk.todo /\ wk'.n = wk.n
         /\ wk'.old = wk.old /\ wk'.top = wk.top /\ wk'.reading = wk.reading
         /\ wk'.got = wk.got
BY DEF Jobs

\* It ends.
LEMMA Ends ==
  ASSUME wk \in Jobs, EndJob
  PROVE  wk' \in Jobs /\ wk'.pc = "idle"
BY DEF Jobs, EndJob, NoJob, Pcs

\* It goes to the next page.
LEMMA Turns ==
  ASSUME wk \in Jobs, NEW done \in BOOLEAN, NextPage(done)
  PROVE  wk' \in Jobs /\ wk'.pc = "page"
<1>1. PICK m \in Nat : m = IF done THEN wk.done + 1 ELSE wk.done
  BY DEF Jobs
<1>2. PICK t \in SUBSET Nat : t = wk.todo \ {ThisPage}
  BY DEF Jobs
<1>3. wk' = [wk EXCEPT !.pc = "page", !.todo = t, !.done = m,
                     !.old = {}, !.top = 0, !.locked = FALSE, !.missed = FALSE,
                     !.got = FALSE, !.n = 0]
  BY <1>1, <1>2, Zenon DEF NextPage
<1> QED BY <1>3 DEF Jobs, Pcs

\* A step that leaves rows and file alone, and the job outside a swap.
LEMMA Outside ==
  ASSUME EInv, UNCHANGED <<rows, exists>>, del' # "none" => exists,
         queue' \in Seq(BOOLEAN), wk' \in Jobs,
         wk'.pc \in {"idle", "page", "hung"}
  PROVE  EInv'
BY DEF EInv, RowsInv, JobInv, PagesInv, SwapPcs

\* A step of a job within a swap.
LEMMA Inside ==
  ASSUME EInv, UNCHANGED <<rows, exists, del, queue>>, wk.pc \in SwapPcs,
         wk' \in Jobs, wk'.pc \in SwapPcs, wk'.todo = wk.todo, wk'.n = wk.n,
         wk'.old = wk.old, wk'.top = wk.top
  PROVE  EInv'
BY DEF EInv, RowsInv, JobInv, PagesInv, SwapPcs, ThisPage

\* Selected pages are numbers.
LEMMA Selected ==
  ASSUME RowsInv, NEW all \in BOOLEAN PROVE SelectPages(all) \subseteq Nat
BY DEF RowsInv, SelectPages, ChunkRow

LEMMA PageIn ==
  ASSUME wk \in Jobs, wk.todo # {} PROVE ThisPage \in wk.todo /\ ThisPage \in Nat
BY MinIn DEF Jobs, ThisPage

-----------------------------------------------------------------------------
(* A page is replaced.                                                      *)

LEMMA NewPieces ==
  ASSUME EInv, wk.pc \in SwapPcs, exists
  PROVE  /\ ThisPage \in Nat /\ wk.n \in Nat \ {0} /\ wk.reading \in Nat
         /\ NewIndexes = [k \in 1..wk.n |-> NewIndexes[k]]
         /\ DOMAIN NewIndexes = 1..wk.n
         /\ \A k \in 1..wk.n :
               NewIndexes[k] \in Nat /\ (NewIndexes[k] \in wk.old \/ NewIndexes[k] > wk.top)
         /\ \A j, k \in 1..wk.n : NewIndexes[j] = NewIndexes[k] => j = k
         /\ DOMAIN NewTexts = Range(NewIndexes)
         /\ \A k \in 1..wk.n :
               NewTexts[NewIndexes[k]] = Piece(ThisPage, wk.reading, k, wk.n)
<1>1. wk \in Jobs /\ wk.todo # {} /\ wk.n > 0 /\ wk.old \subseteq DOMAIN rows
      /\ DOMAIN rows \subseteq 0..wk.top
  BY DEF EInv, JobInv, Here
<1>2. ThisPage \in Nat /\ wk.n \in Nat \ {0} /\ wk.reading \in Nat /\ wk.top \in Nat
  <2>1. wk.n \in Nat /\ wk.reading \in Nat /\ wk.top \in Nat
    BY <1>1 DEF Jobs
  <2> QED BY <1>1, <2>1, PageIn
<1> DEFINE ix == NewIndexes
<1>3. /\ ix = [k \in 1..wk.n |-> ix[k]] /\ DOMAIN ix = 1..wk.n
      /\ \A k \in 1..wk.n : ix[k] \in Nat /\ (ix[k] \in wk.old \/ ix[k] > wk.top)
      /\ \A j, k \in 1..wk.n : ix[j] = ix[k] => j = k
  <2>1. PICK n \in Nat : n = wk.n
    BY <1>2
  <2>2. PICK top \in Nat : top = wk.top
    BY <1>2
  <2>3. PICK old : old = wk.old /\ old \subseteq 0..top
    BY <1>1, <2>2
  <2>4. ix = Indexes(old, top, n)
    BY <2>1, <2>2, <2>3 DEF NewIndexes
  <2> HIDE DEF ix
  <2>5. /\ ix = [k \in 1..n |-> ix[k]] /\ DOMAIN ix = 1..n
        /\ \A k \in 1..n : ix[k] \in Nat /\ (ix[k] \in old \/ ix[k] > top)
        /\ \A j, k \in 1..n : ix[j] = ix[k] => j = k
    BY <2>3, <2>4, IndexesFresh
  <2> QED BY <2>1, <2>2, <2>3, <2>5
<1>4. NewTexts = [i \in Range(ix) |->
                    Piece(ThisPage, wk.reading, CHOOSE k \in 1..wk.n : ix[k] = i, wk.n)]
  BY Zenon DEF NewTexts
<1> HIDE DEF ix
<1>5. ASSUME NEW k \in 1..wk.n PROVE NewTexts[ix[k]] = Piece(ThisPage, wk.reading, k, wk.n)
  <2>1. ix[k] \in Range(ix)
    BY <1>3 DEF Range
  <2>2. (CHOOSE j \in 1..wk.n : ix[j] = ix[k]) = k
    <3>1. \A j \in 1..wk.n : ix[j] = ix[k] <=> j = k
      BY <1>3
    <3> QED BY <3>1
  <2>3. NewTexts[ix[k]] =
          Piece(ThisPage, wk.reading, CHOOSE j \in 1..wk.n : ix[j] = ix[k], wk.n)
    BY <1>4, <2>1, Zenon
  <2> QED BY <2>2, <2>3
<1>6. DOMAIN NewTexts = Range(ix)
  BY <1>4
<1> QED BY <1>2, <1>3, <1>5, <1>6 DEF ix

LEMMA Swap ==
  ASSUME EInv, wk.pc \in SwapPcs, exists,
         rows' = Upsert(NewRows, Restrict(rows, DOMAIN rows \ wk.old))
  PROVE  /\ rows' = [i \in DOMAIN rows' |-> rows'[i]]
         /\ DOMAIN rows' \subseteq Nat /\ IsFiniteSet(DOMAIN rows')
         /\ \A i \in DOMAIN rows' : rows'[i] \in ChunkRow
         /\ \A q \in Pages : Whole(rows', q)
<1>1. PICK p, ix, t : p = ThisPage /\ ix = NewIndexes /\ t = NewTexts
  OBVIOUS
<1>2. PICK n : n = wk.n
  OBVIOUS
<1>3. /\ p \in Nat /\ n \in Nat \ {0} /\ wk.reading \in Nat
      /\ ix = [k \in 1..n |-> ix[k]] /\ DOMAIN ix = 1..n
      /\ \A k \in 1..n : ix[k] \in Nat /\ (ix[k] \in wk.old \/ ix[k] > wk.top)
      /\ \A j, k \in 1..n : ix[j] = ix[k] => j = k
      /\ DOMAIN t = Range(ix)
      /\ \A k \in 1..n : t[ix[k]] = Piece(p, wk.reading, k, n)
  BY <1>1, <1>2, NewPieces
<1>4. /\ RowsInv /\ PagesInv /\ wk \in Jobs
      /\ wk.old = Here(rows, p) /\ DOMAIN rows \subseteq 0..wk.top
  BY <1>1 DEF EInv, JobInv
<1> DEFINE new(i) == [page |-> p, text |-> t[i], fields |-> wk.got, review |-> FALSE]
<1>5. NewRows = [i \in Range(ix) |-> new(i)]
  BY <1>1, <1>3, Zenon DEF NewRows
<1>6. rows' = [i \in Range(ix) \cup (DOMAIN rows \ wk.old) |->
                  IF i \in Range(ix) THEN new(i) ELSE rows[i]]
  <2>1. PICK a, b : a = NewRows /\ b = Restrict(rows, DOMAIN rows \ wk.old)
    OBVIOUS
  <2>2. DOMAIN a = Range(ix) /\ \A i \in Range(ix) : a[i] = new(i)
    BY <1>5, <2>1
  <2>3. DOMAIN b = DOMAIN rows \ wk.old /\ \A i \in DOMAIN rows \ wk.old : b[i] = rows[i]
    BY <2>1 DEF Restrict
  <2>4. rows' = [i \in DOMAIN a \cup DOMAIN b |-> IF i \in DOMAIN a THEN a[i] ELSE b[i]]
    BY <2>1 DEF Upsert
  <2> HIDE DEF new
  <2> QED BY <2>2, <2>3, <2>4
<1>7. Range(ix) = {ix[k] : k \in 1..n}
  BY <1>3 DEF Range
<1>8. Range(ix) \subseteq Nat /\ \A i \in DOMAIN rows \ wk.old : i \notin Range(ix)
  <2>1. \A i \in DOMAIN rows : i \in Nat /\ i <= wk.top
    BY <1>4 DEF Jobs
  <2>2. wk.top \in Nat
    BY <1>4 DEF Jobs
  <2> QED BY <1>3, <1>7, <2>1, <2>2
<1>9. IsFiniteSet(Range(ix)) /\ Cardinality(Range(ix)) = n
  <2>1. ix \in [1..n -> Range(ix)]
    BY <1>3, <1>7
  <2>2. ix \in Bijection(1..n, Range(ix))
    BY <1>3, <1>7, <2>1 DEF Bijection, Injection, Surjection, IsInjective
  <2>3. IsFiniteSet(1..n) /\ Cardinality(1..n) = n
    <3>1. 1 \in Int /\ n \in Int /\ ~(1 > n) /\ n - 1 + 1 = n
      BY <1>3
    <3> QED BY <3>1, FS_Interval
  <2> QED BY <2>2, <2>3, FS_Bijection DEF ExistsBijection
<1>10. DOMAIN rows' = Range(ix) \cup (DOMAIN rows \ wk.old)
  BY <1>6
<1>11. /\ \A i \in Range(ix) : rows'[i] = new(i)
       /\ \A i \in DOMAIN rows \ wk.old : rows'[i] = rows[i]
  <2> HIDE DEF new
  <2> QED BY <1>6, <1>8
<1>16. \A i \in Range(ix) : rows'[i].page = p /\ rows'[i].text = t[i]
  <2>1. \A i : new(i).page = p /\ new(i).text = t[i]
    BY Zenon
  <2> HIDE DEF new
  <2> QED BY <1>11, <2>1
<1>12. rows' = [i \in DOMAIN rows' |-> rows'[i]]
  BY <1>6
<1>13. DOMAIN rows' \subseteq Nat /\ IsFiniteSet(DOMAIN rows')
  <2>1. IsFiniteSet(DOMAIN rows \ wk.old) /\ DOMAIN rows \subseteq Nat
    BY <1>4, FS_Difference DEF RowsInv
  <2> QED BY <1>8, <1>9, <1>10, <2>1, FS_Union
<1>14. ASSUME NEW i \in DOMAIN rows' PROVE rows'[i] \in ChunkRow
  <2>1. CASE i \in Range(ix)
    <3>1. PICK k \in 1..n : i = ix[k]
      BY <1>7, <2>1
    <3>2. t[i] \in Texts
      <4>1. Piece(p, wk.reading, k, n) \in Texts
        BY <1>3 DEF Texts, Piece
      <4> QED BY <1>3, <3>1, <4>1
    <3>3. wk.got \in BOOLEAN
      BY <1>4 DEF Jobs
    <3>4. new(i) \in ChunkRow
      BY <1>3, <3>2, <3>3 DEF ChunkRow
    <3> QED BY <1>11, <2>1, <3>4
  <2>2. CASE i \in DOMAIN rows \ wk.old
    BY <1>4, <1>11, <2>2 DEF RowsInv
  <2> QED BY <1>10, <2>1, <2>2
<1>15. ASSUME NEW q \in Pages PROVE Whole(rows', q)
  <2>1. CASE q = p
    <3>1. Here(rows', p) = Range(ix)
      <4>1. \A i \in Range(ix) : rows'[i].page = p
        BY <1>16
      <4>2. \A i \in DOMAIN rows \ wk.old : rows'[i].page # p
        BY <1>4, <1>11 DEF Here
      <4> QED BY <1>10, <4>1, <4>2 DEF Here
    <3>2. \A k \in 1..n : rows'[ix[k]].text = Piece(p, wk.reading, k, n)
      BY <1>3, <1>7, <1>16
    <3>3. {rows'[i].text : i \in Range(ix)} = {Piece(p, wk.reading, k, n) : k \in 1..n}
      <4>1. PICK T : T = {rows'[i].text : i \in Range(ix)}
        OBVIOUS
      <4>2. \A k \in 1..n : Piece(p, wk.reading, k, n) \in T
        <5> SUFFICES ASSUME NEW k \in 1..n PROVE Piece(p, wk.reading, k, n) \in T
          OBVIOUS
        <5>1. ix[k] \in Range(ix) /\ rows'[ix[k]].text = Piece(p, wk.reading, k, n)
          BY <1>7, <3>2
        <5> QED BY <4>1, <5>1
      <4>3. \A x \in T : \E k \in 1..n : x = Piece(p, wk.reading, k, n)
        <5> SUFFICES ASSUME NEW i \in Range(ix)
                     PROVE  \E k \in 1..n : rows'[i].text = Piece(p, wk.reading, k, n)
          BY <4>1
        <5>1. PICK k \in 1..n : i = ix[k]
          BY <1>7
        <5> QED BY <3>2, <5>1
      <4> QED BY <4>1, <4>2, <4>3
    <3>4. Whole(rows', p)
      <4>1. /\ IsFiniteSet(Here(rows', p)) /\ Cardinality(Here(rows', p)) = n
            /\ {rows'[i].text : i \in Here(rows', p)} =
                  {Piece(p, wk.reading, k, n) : k \in 1..n}
        BY <1>9, <3>1, <3>3
      <4>2. n \in Nat \ {0} /\ wk.reading \in Nat
        BY <1>3
      <4> QED BY <4>1, <4>2, Zenon DEF Whole
    <3> QED BY <2>1, <3>4
  <2>2. CASE q # p
    <3>1. Here(rows', q) = Here(rows, q)
      <4>1. \A i \in Range(ix) : rows'[i].page # q
        BY <1>16, <2>2
      <4>2. \A i \in wk.old : rows[i].page # q
        BY <1>4, <2>2 DEF Here
      <4> QED BY <1>10, <1>11, <4>1, <4>2 DEF Here
    <3>2. \A i \in Here(rows, q) : rows'[i] = rows[i]
      BY <1>4, <1>11, <2>2 DEF Here
    <3>3. {rows'[i].text : i \in Here(rows, q)} = {rows[i].text : i \in Here(rows, q)}
      BY <3>2
    <3>4. Whole(rows, q)
      BY <1>4 DEF PagesInv
    <3> QED BY <3>1, <3>3, <3>4 DEF Whole
  <2> QED BY <2>1, <2>2
<1> QED BY <1>12, <1>13, <1>14, <1>15

-----------------------------------------------------------------------------
(* The first reading.                                                       *)

\* The chunks of a page are ranked 1, 2, ... in the order of their indexes.
LEMMA Ranked ==
  ASSUME NEW p \in Pages, NEW S, S = {j \in DOMAIN Chunks : Chunks[j] = p}
  PROVE  /\ IsFiniteSet(S) /\ Size(p) = Cardinality(S) /\ Size(p) \in Nat \ {0}
         /\ \A i \in S : Rank(i) \in 1..Size(p)
         /\ \A k \in 1..Size(p) : \E i \in S : Rank(i) = k
<1> DEFINE upto(i) == {j \in DOMAIN Chunks : Chunks[j] = p /\ j <= i}
<1>1. /\ IsFiniteSet(S) /\ S # {} /\ S \subseteq Nat
      /\ Size(p) = Cardinality(S) /\ Size(p) \in Nat \ {0}
  <2>1. S \in SUBSET DOMAIN Chunks /\ S # {} /\ S \subseteq Nat /\ IsFiniteSet(DOMAIN Chunks)
    BY ExtractionAssumption DEF Pages
  <2>2. IsFiniteSet(S)
    BY <2>1, FS_Subset
  <2>3. Size(p) = Cardinality(S)
    BY DEF Size
  <2> QED BY <2>1, <2>2, <2>3, FS_CardinalityType, FS_EmptySet
<1>2. ASSUME NEW i \in S
      PROVE  /\ Rank(i) = Cardinality(upto(i)) /\ upto(i) \in SUBSET S /\ i \in upto(i)
             /\ IsFiniteSet(upto(i)) /\ Rank(i) \in 1..Size(p)
  <2>1. Rank(i) = Cardinality(upto(i))
    BY DEF Rank
  <2>2. upto(i) \in SUBSET S /\ i \in upto(i)
    BY <1>1
  <2>3. IsFiniteSet(upto(i)) /\ Cardinality(upto(i)) <= Cardinality(S)
    BY <1>1, <2>2, FS_Subset
  <2>4. Cardinality(upto(i)) \in Nat \ {0}
    BY <2>2, <2>3, FS_CardinalityType, FS_EmptySet
  <2> HIDE DEF upto
  <2> QED BY <1>1, <2>1, <2>2, <2>3, <2>4
<1>3. ASSUME NEW i \in S, NEW j \in S, i < j PROVE Rank(i) # Rank(j)
  <2>1. upto(i) \in SUBSET upto(j) /\ j \in upto(j) /\ j \notin upto(i)
    BY <1>1, <1>3
  <2>2. IsFiniteSet(upto(j)) /\ Rank(i) = Cardinality(upto(i)) /\ Rank(j) = Cardinality(upto(j))
    BY <1>2
  <2> HIDE DEF upto
  <2> QED BY <2>1, <2>2, FS_Subset
<1>4. ASSUME NEW k \in 1..Size(p) PROVE \E i \in S : Rank(i) = k
  <2> DEFINE f == [i \in S |-> Rank(i)]
  <2>1. f \in [S -> 1..Size(p)] /\ \A i \in S : f[i] = Rank(i)
    BY <1>2
  <2> HIDE DEF f
  <2>2. \A i, j \in S : f[i] = f[j] => i = j
    <3> SUFFICES ASSUME NEW i \in S, NEW j \in S, i # j PROVE f[i] # f[j]
      OBVIOUS
    <3>1. i < j \/ j < i
      BY <1>1
    <3> QED BY <1>3, <2>1, <3>1
  <2>3. f \in Injection(S, 1..Size(p))
    BY <2>1, <2>2 DEF Injection, IsInjective
  <2>4. IsFiniteSet(1..Size(p)) /\ Cardinality(1..Size(p)) = Size(p)
    <3>1. 1 \in Int /\ Size(p) \in Int /\ ~(1 > Size(p)) /\ Size(p) - 1 + 1 = Size(p)
      BY <1>1
    <3> QED BY <3>1, FS_Interval
  <2>5. f \in Surjection(S, 1..Size(p))
    BY <1>1, <2>3, <2>4, FS_Injection
  <2> QED BY <2>1, <2>5 DEF Surjection
<1> QED BY <1>1, <1>2, <1>4

LEMMA EInit == Init => EInv
<1> SUFFICES ASSUME Init PROVE EInv
  OBVIOUS
<1>1. /\ DOMAIN rows = DOMAIN Chunks
      /\ rows = [i \in DOMAIN rows |-> rows[i]]
      /\ \A i \in DOMAIN Chunks :
            rows[i] = [page |-> Chunks[i], text |-> FirstText(i), fields |-> FALSE,
                       review |-> Chunks[i] \in Flagged]
  BY Zenon DEF Init
<1>2. \A i \in DOMAIN Chunks : rows[i].page = Chunks[i] /\ rows[i].text = FirstText(i)
  BY <1>1
<1>3. ASSUME NEW p \in Pages PROVE Whole(rows, p)
  <2>1. PICK S : S = {j \in DOMAIN Chunks : Chunks[j] = p}
    OBVIOUS
  <2>2. PICK n \in Nat \ {0} : n = Size(p)
    BY Ranked, <2>1
  <2>3. /\ IsFiniteSet(S) /\ n = Cardinality(S)
        /\ \A i \in S : Rank(i) \in 1..n
        /\ \A k \in 1..n : \E i \in S : Rank(i) = k
    BY <2>1, <2>2, Ranked
  <2>4. Here(rows, p) = S
    BY <1>1, <1>2, <2>1 DEF Here
  <2>5. \A i \in S : rows[i].text = Piece(p, 0, Rank(i), n)
    BY <1>2, <2>1, <2>2 DEF FirstText
  <2>6. {rows[i].text : i \in S} = {Piece(p, 0, k, n) : k \in 1..n}
    BY <2>3, <2>5
  <2> QED BY <2>3, <2>4, <2>6 DEF Whole
<1>4. ASSUME NEW i \in DOMAIN Chunks PROVE rows[i] \in ChunkRow
  <2>1. Chunks[i] \in Pages /\ Chunks[i] \in Nat
    BY ExtractionAssumption DEF Pages
  <2>2. Rank(i) \in Nat /\ Size(Chunks[i]) \in Nat
    <3>1. PICK S : S = {j \in DOMAIN Chunks : Chunks[j] = Chunks[i]} /\ i \in S
      OBVIOUS
    <3>2. Size(Chunks[i]) \in Nat /\ Rank(i) \in 1..Size(Chunks[i])
      BY <2>1, <3>1, Ranked
    <3> QED BY <3>2
  <2>3. FirstText(i) \in Texts
    BY <2>1, <2>2 DEF FirstText, Piece, Texts
  <2>4. PICK b \in BOOLEAN : b <=> Chunks[i] \in Flagged
    OBVIOUS
  <2>5. rows[i] = [page |-> Chunks[i], text |-> FirstText(i), fields |-> FALSE, review |-> b]
    BY <1>1, <2>4
  <2> QED BY <2>1, <2>3, <2>5 DEF ChunkRow
<1>5. RowsInv
  BY <1>1, <1>4, ExtractionAssumption DEF RowsInv, Init
<1>6. JobInv
  BY DEF JobInv, Init, NoJob, Jobs, Pcs, SwapPcs
<1>7. PagesInv
  BY <1>3 DEF PagesInv
<1> QED BY <1>5, <1>6, <1>7 DEF EInv

-----------------------------------------------------------------------------
(* Every step keeps the pages whole.                                        *)

\* The rows of some page get fields.
LEMMA FieldsSet ==
  ASSUME EInv, NEW S,
         rows' = [i \in DOMAIN rows |->
                    IF i \in S THEN [rows[i] EXCEPT !.fields = TRUE] ELSE rows[i]]
  PROVE  /\ DOMAIN rows' = DOMAIN rows /\ rows' = [i \in DOMAIN rows' |-> rows'[i]]
         /\ \A i \in DOMAIN rows :
               /\ rows'[i] \in ChunkRow
               /\ rows'[i].page = rows[i].page /\ rows'[i].text = rows[i].text
<1>1. DOMAIN rows' = DOMAIN rows /\ rows' = [i \in DOMAIN rows' |-> rows'[i]]
  BY Zenon
<1>2. ASSUME NEW i \in DOMAIN rows
      PROVE  /\ rows'[i] \in ChunkRow
             /\ rows'[i].page = rows[i].page /\ rows'[i].text = rows[i].text
  <2>1. rows[i] \in ChunkRow
    BY DEF EInv, RowsInv
  <2>2. CASE i \in S
    <3>1. rows'[i] = [rows[i] EXCEPT !.fields = TRUE]
      BY <2>2, Zenon
    <3> QED BY <2>1, <3>1 DEF ChunkRow
  <2>3. CASE i \notin S
    <3>1. rows'[i] = rows[i]
      BY <2>3, Zenon
    <3> QED BY <2>1, <3>1
  <2> QED BY <2>2, <2>3
<1> QED BY <1>1, <1>2

LEMMA SelectStep == ASSUME EInv, SelectOld PROVE EInv'
<1> DEFINE old == {i \in DOMAIN rows : rows[i].page = ThisPage}
<1>1. /\ wk.pc = "select" /\ wk \in Jobs /\ wk.todo # {} /\ RowsInv /\ queue \in Seq(BOOLEAN)
      /\ UNCHANGED <<exists, queue, del>>
  BY DEF SelectOld, EInv, JobInv
<1>2. \/ old = {} /\ NextPage(FALSE) /\ UNCHANGED rows
      \/ /\ old # {} /\ wk.n = 0
         /\ rows' = [i \in DOMAIN rows |->
                       IF i \in old /\ wk.got THEN [rows[i] EXCEPT !.fields = TRUE]
                       ELSE rows[i]]
         /\ NextPage(TRUE)
      \/ /\ old # {} /\ wk.n > 0
         /\ wk' = [wk EXCEPT !.pc = "delete", !.old = old, !.top = Max(DOMAIN rows)]
         /\ UNCHANGED rows
  BY Zenon DEF SelectOld
<1>3. CASE old = {} /\ NextPage(FALSE) /\ UNCHANGED rows
  BY <1>1, <1>3, Turns, Outside DEF RowsInv
<1>4. CASE NextPage(TRUE) /\ old # {}
           /\ rows' = [i \in DOMAIN rows |->
                       IF i \in old /\ wk.got THEN [rows[i] EXCEPT !.fields = TRUE]
                       ELSE rows[i]]
  <2>1. PICK S : S = {i \in old : wk.got}
    OBVIOUS
  <2>10. \A i \in DOMAIN rows :
            (IF i \in old /\ wk.got THEN [rows[i] EXCEPT !.fields = TRUE] ELSE rows[i]) =
            (IF i \in S THEN [rows[i] EXCEPT !.fields = TRUE] ELSE rows[i])
    <3> HIDE DEF old
    <3> QED BY <2>1
  <2>11. rows' = [i \in DOMAIN rows |->
                    IF i \in S THEN [rows[i] EXCEPT !.fields = TRUE] ELSE rows[i]]
    BY <1>4, <2>10, Zenon
  <2>2. /\ DOMAIN rows' = DOMAIN rows /\ rows' = [i \in DOMAIN rows' |-> rows'[i]]
        /\ \A i \in DOMAIN rows :
               /\ rows'[i] \in ChunkRow
               /\ rows'[i].page = rows[i].page /\ rows'[i].text = rows[i].text
    BY <2>11, FieldsSet
  <2>3. wk' \in Jobs /\ wk'.pc = "page"
    BY <1>1, <1>4, Turns
  <2>4. RowsInv' /\ JobInv'
    BY <1>1, <2>2, <2>3 DEF RowsInv, JobInv, SwapPcs
  <2>5. ASSUME exists', NEW p \in Pages PROVE Whole(rows', p)
    <3>1. Here(rows', p) = Here(rows, p)
      BY <2>2 DEF Here
    <3>2. {rows'[i].text : i \in Here(rows, p)} = {rows[i].text : i \in Here(rows, p)}
      BY <2>2 DEF Here
    <3>3. Whole(rows, p)
      BY <1>1, <2>5 DEF EInv, PagesInv
    <3> QED BY <3>1, <3>2, <3>3 DEF Whole
  <2> QED BY <2>4, <2>5 DEF EInv, PagesInv
<1>5. CASE /\ old # {} /\ wk.n > 0
           /\ wk' = [wk EXCEPT !.pc = "delete", !.old = old, !.top = Max(DOMAIN rows)]
           /\ UNCHANGED rows
  <2>1. PICK top : top = Max(DOMAIN rows)
    OBVIOUS
  <2>2. top \in Nat /\ DOMAIN rows \subseteq 0..top
    <3>1. DOMAIN rows \subseteq Nat /\ IsFiniteSet(DOMAIN rows) /\ DOMAIN rows # {}
      BY <1>1, <1>5 DEF RowsInv
    <3>2. PICK b \in Nat : DOMAIN rows \subseteq 0..b
      BY <3>1, Bounded
    <3>3. top \in DOMAIN rows /\ \A i \in DOMAIN rows : i <= top
      BY <2>1, <3>1, <3>2, MaxOf
    <3> QED BY <3>1, <3>3
  <2>3. PICK o \in SUBSET Nat : o = old
    BY <1>1 DEF RowsInv
  <2>4. wk' = [wk EXCEPT !.pc = "delete", !.old = o, !.top = top]
    BY <1>5, <2>1, <2>3
  <2>5. /\ wk' \in Jobs /\ wk'.pc = "delete" /\ wk'.old = o /\ wk'.top = top
        /\ wk'.todo = wk.todo /\ wk'.n = wk.n
    BY <1>1, <2>2, <2>4 DEF Jobs, Pcs
  <2>6. wk.n \in Nat /\ wk.n > 0
    BY <1>1, <1>5 DEF Jobs
  <2>7. o = Here(rows, ThisPage)
    BY <2>3 DEF Here
  <2>8. ThisPage' = ThisPage
    BY <2>5 DEF ThisPage
  <2>9. JobInv'
    BY <1>1, <1>5, <2>2, <2>5, <2>6, <2>7, <2>8 DEF JobInv
  <2> QED BY <1>1, <1>5, <2>9 DEF EInv, RowsInv, PagesInv
<1> QED BY <1>2, <1>3, <1>4, <1>5, Zenon

\* A page's new rows are committed; the job goes to the next page.
LEMMA CommitStep ==
  ASSUME EInv, wk.pc \in SwapPcs, exists, UNCHANGED <<exists, queue>>,
         rows' = Upsert(NewRows, Restrict(rows, DOMAIN rows \ wk.old)),
         NextPage(TRUE)
  PROVE  EInv'
<1>1. wk' \in Jobs /\ wk'.pc = "page"
  BY Turns DEF EInv, JobInv
<1>2. /\ rows' = [i \in DOMAIN rows' |-> rows'[i]]
      /\ DOMAIN rows' \subseteq Nat /\ IsFiniteSet(DOMAIN rows')
      /\ \A i \in DOMAIN rows' : rows'[i] \in ChunkRow
      /\ \A q \in Pages : Whole(rows', q)
  BY Swap
<1>3. RowsInv'
  BY <1>2 DEF RowsInv
<1>4. JobInv'
  BY <1>1 DEF EInv, JobInv, SwapPcs
<1> QED BY <1>2, <1>3, <1>4 DEF EInv, PagesInv

\* The job ends; rows and file stay.
LEMMA EndStep ==
  ASSUME EInv, EndJob, UNCHANGED <<rows, exists>>, del' # "none" => exists,
         queue' \in Seq(BOOLEAN)
  PROVE  EInv'
BY Ends, Outside DEF EInv, JobInv

LEMMA StartStep == ASSUME EInv, left = NoJob, StartJob PROVE EInv'
<1>1. PICK all, pages : all = Head(queue) /\ pages = SelectPages(all)
  OBVIOUS
<1>2. /\ queue \in Seq(BOOLEAN) /\ queue # <<>> /\ queue' = Tail(queue)
      /\ UNCHANGED <<rows, exists, del>> /\ wk \in Jobs /\ RowsInv
  BY DEF StartJob, EInv, JobInv
<1>3. all \in BOOLEAN /\ queue' \in Seq(BOOLEAN)
  BY <1>1, <1>2
<1>4. del' # "none" => exists
  BY <1>2 DEF RowsInv
<1>5. \/ EndJob
      \/ wk' = [NoJob EXCEPT !.pc = "page", !.all = all, !.todo = pages,
                             !.flagged = SelectPages(FALSE), !.reading = wk.reading + 1]
  <2>1. left.reading = 0 /\ wk.reading + 0 + 1 = wk.reading + 1
    BY <1>2 DEF NoJob, Jobs
  <2> QED BY <1>1, <2>1 DEF StartJob
<1>6. CASE EndJob
  BY <1>2, <1>3, <1>4, <1>6, EndStep
<1>7. CASE wk' = [NoJob EXCEPT !.pc = "page", !.all = all, !.todo = pages,
                             !.flagged = SelectPages(FALSE), !.reading = wk.reading + 1]
  <2>1. pages \in SUBSET Nat
    BY <1>1, <1>2, <1>3, Selected
  <2>2. PICK f \in SUBSET Nat : f = SelectPages(FALSE)
    BY <1>2, Selected
  <2>3. PICK r \in Nat : r = wk.reading + 1
    BY <1>2 DEF Jobs
  <2>4. wk' = [NoJob EXCEPT !.pc = "page", !.all = all, !.todo = pages,
                            !.flagged = f, !.reading = r]
    BY <1>7, <2>2, <2>3
  <2>5. wk' \in Jobs /\ wk'.pc = "page"
    BY <1>3, <2>1, <2>4 DEF NoJob, Jobs, Pcs
  <2> QED BY <1>2, <1>3, <1>4, <2>5, Outside
<1> QED BY <1>5, <1>6, <1>7

\* The file row goes, and its chunk rows with it.
LEMMA DeleteRowStep == ASSUME EInv, left = NoJob, DeleteRow PROVE EInv'
<1>1. /\ del \in {"row", "blocked"} /\ exists /\ UNCHANGED <<queue, wk>>
      /\ RowsInv /\ JobInv /\ PagesInv
  BY DEF DeleteRow, EInv, RowsInv
<1>2. CASE wk.locked
  <2>1. UNCHANGED <<rows, exists>>
    BY <1>2 DEF DeleteRow
  <2> QED BY <1>1, <2>1 DEF EInv, RowsInv, JobInv, PagesInv, ThisPage
<1>3. CASE ~wk.locked
  <2>1. exists' = FALSE /\ rows' = <<>> /\ del' = "none"
    BY <1>3 DEF DeleteRow, NoJob
  <2>2. DOMAIN rows' = {} /\ rows' = [i \in DOMAIN rows' |-> rows'[i]]
    BY <2>1
  <2>3. IsFiniteSet({})
    BY FS_EmptySet
  <2>4. RowsInv'
    BY <2>1, <2>2, <2>3 DEF RowsInv
  <2>5. JobInv'
    BY <1>1, <2>1 DEF JobInv
  <2> QED BY <2>1, <2>4, <2>5 DEF EInv, PagesInv
<1> QED BY <1>2, <1>3

LEMMA ReadStep ==
  ASSUME EInv, NEW got \in BOOLEAN, NEW n \in Nat, ReadPage(got, n)
  PROVE  EInv'
<1>2. /\ wk \in Jobs /\ wk' = [wk EXCEPT !.pc = "select", !.got = got, !.n = n]
      /\ UNCHANGED <<rows, exists, queue, del>> /\ wk.todo # {}
  BY DEF ReadPage, EInv, JobInv
<1>3. wk' \in Jobs /\ wk'.pc = "select" /\ wk'.todo = wk.todo
  BY <1>2 DEF Jobs, Pcs
<1> QED BY <1>2, <1>3 DEF EInv, RowsInv, JobInv, PagesInv, SwapPcs

\* As long as jobs of the file do not overlap, one runs at a time.
LEMMA StaysAlone ==
  left = NoJob /\ [Next]_vars /\ "overlap" \notin faults' => left' = NoJob /\ ~Switch
<1> SUFFICES ASSUME left = NoJob, [Next]_vars, "overlap" \notin faults'
             PROVE  left' = NoJob /\ ~Switch
  OBVIOUS
<1>1. ~SecondJob /\ ~Switch
  BY DEF SecondJob, Switch, Event, NoJob
<1>2. ASSUME JobStep PROVE UNCHANGED left
  BY <1>2 DEF JobStep, StartJob, ReadPage, SkipPage, PageTimeout, SelectOld, DeleteOld,
              UpsertNew, DeleteSurplus, CommitPage, Deadlock, FinishJob
<1>3. CASE \/ \E all \in BOOLEAN : Request(all)
           \/ Hang \/ StoreError \/ DeleteVectors \/ Unlink \/ DeleteRow \/ Shutdown \/ Kill
           \/ UNCHANGED vars
  BY <1>1, <1>3 DEF Request, Hang, StoreError, DeleteVectors, Unlink, DeleteRow, Shutdown,
                    Kill, vars
<1> QED BY <1>1, <1>2, <1>3 DEF Next

\* Nothing is forgotten of the disturbances.
LEMMA FaultsGrow == [Next]_vars => faults \subseteq faults'
<1> USE DEF Event, NoEvent
<1>1. ASSUME JobStep PROVE faults \subseteq faults'
  BY <1>1 DEF JobStep, StartJob, ReadPage, SkipPage, PageTimeout, SelectOld, DeleteOld,
              UpsertNew, DeleteSurplus, CommitPage, Deadlock, FinishJob
<1>2. CASE \/ \E all \in BOOLEAN : Request(all)
           \/ Hang \/ StoreError \/ DeleteVectors \/ Unlink \/ DeleteRow \/ Shutdown \/ Kill
           \/ SecondJob \/ Switch \/ UNCHANGED vars
  BY <1>2 DEF Request, Hang, StoreError, DeleteVectors, Unlink, DeleteRow, Shutdown,
              Kill, SecondJob, Switch, vars
<1> QED BY <1>1, <1>2 DEF Next

LEMMA EStep == EInv /\ left = NoJob /\ [Next]_vars /\ "overlap" \notin faults' => EInv'
<1> SUFFICES ASSUME EInv, left = NoJob, [Next]_vars, "overlap" \notin faults' PROVE EInv'
  OBVIOUS
<1>n. ~SecondJob /\ ~Switch
  BY DEF SecondJob, Switch, Event, NoJob
<1>0. /\ RowsInv /\ JobInv /\ PagesInv /\ wk \in Jobs /\ queue \in Seq(BOOLEAN)
      /\ del # "none" => exists
  BY DEF EInv, RowsInv, JobInv
<1>1. CASE UNCHANGED vars
  BY <1>1 DEF vars, EInv, RowsInv, JobInv, PagesInv, ThisPage
<1>2. ASSUME NEW all \in BOOLEAN, Request(all) PROVE EInv'
  <2>1. /\ queue' = Append(queue, all) /\ UNCHANGED <<rows, exists, wk, del>>
    BY <1>2 DEF Request
  <2>2. queue' \in Seq(BOOLEAN)
    BY <1>0, <2>1
  <2> QED BY <1>0, <2>1, <2>2 DEF EInv, RowsInv, JobInv, PagesInv, ThisPage
<1>3. CASE StartJob
  BY <1>3, StartStep
<1>4. ASSUME NEW o \in Outcomes, ReadPage(o[1], o[2]) PROVE EInv'
  <2>1. o[1] \in BOOLEAN /\ o[2] \in Nat
    BY ExtractionAssumption
  <2> QED BY <1>4, <2>1, ReadStep
<1>5. CASE SkipPage
  BY <1>0, <1>5, Turns, Outside DEF SkipPage
<1>6. CASE PageTimeout
  BY <1>0, <1>6, EndStep DEF PageTimeout
<1>7. CASE SelectOld
  BY <1>7, SelectStep
<1>8. CASE DeleteOld
  <2>2. /\ wk.pc = "delete" /\ wk' = [wk EXCEPT !.pc = "upsert", !.locked = exists]
        /\ UNCHANGED <<rows, exists, queue, del>>
    <3>1. wk.pc # "waiting" /\ ~LockedByOther(wk.old)
      BY <1>0 DEF Jobs, Pcs, LockedByOther, NoJob
    <3> QED BY <1>8, <3>1 DEF DeleteOld
  <2>3. /\ wk' \in Jobs /\ wk'.pc = "upsert" /\ wk'.todo = wk.todo /\ wk'.n = wk.n
        /\ wk'.old = wk.old /\ wk'.top = wk.top
    BY <1>0, <2>2 DEF Jobs, Pcs, RowsInv
  <2> QED BY <2>2, <2>3, Inside DEF SwapPcs
<1>9. CASE UpsertNew
  <2>1. /\ wk.pc = "upsert" /\ wk' = [wk EXCEPT !.pc = "surplus"]
        /\ UNCHANGED <<rows, exists, queue, del>>
    BY <1>9 DEF UpsertNew
  <2>2. /\ wk' \in Jobs /\ wk'.pc = "surplus" /\ wk'.todo = wk.todo /\ wk'.n = wk.n
        /\ wk'.old = wk.old /\ wk'.top = wk.top
    BY <1>0, <2>1, Moves DEF Pcs
  <2> QED BY <2>1, <2>2, Inside DEF SwapPcs
<1>10. CASE DeleteSurplus
  <2>1. /\ wk.pc = "surplus" /\ wk' = [wk EXCEPT !.pc = "commit"]
        /\ UNCHANGED <<rows, exists, queue, del>>
    BY <1>10 DEF DeleteSurplus
  <2>2. /\ wk' \in Jobs /\ wk'.pc = "commit" /\ wk'.todo = wk.todo /\ wk'.n = wk.n
        /\ wk'.old = wk.old /\ wk'.top = wk.top
    BY <1>0, <2>1, Moves DEF Pcs
  <2> QED BY <2>1, <2>2, Inside DEF SwapPcs
<1>11. CASE CommitPage
  <2>1. CASE exists /\ ~Collides
    BY <1>11, <2>1, CommitStep DEF CommitPage, SwapPcs
  <2>2. CASE ~(exists /\ ~Collides)
    BY <1>0, <1>11, <2>2, EndStep DEF CommitPage
  <2> QED BY <2>1, <2>2
<1>12. CASE Deadlock
  <2>1. exists /\ wk.pc = "commit" /\ UNCHANGED <<exists, queue>>
    BY <1>0, <1>12 DEF Deadlock
  <2>2. CASE /\ rows' = Upsert(NewRows, Restrict(rows, DOMAIN rows \ wk.old))
             /\ NextPage(TRUE)
    BY <2>1, <2>2, CommitStep DEF SwapPcs
  <2>3. CASE EndJob /\ UNCHANGED rows
    BY <1>0, <2>1, <2>3, EndStep
  <2> QED BY <1>12, <2>2, <2>3 DEF Deadlock
<1>13. CASE FinishJob
  BY <1>0, <1>13, EndStep DEF FinishJob
<1>14. CASE Hang
  <2>1. wk' = [wk EXCEPT !.pc = "hung"] /\ UNCHANGED <<rows, exists, queue, del>>
    BY <1>14 DEF Hang
  <2>2. wk' \in Jobs /\ wk'.pc = "hung"
    BY <1>0, <2>1, Moves DEF Pcs
  <2> QED BY <1>0, <2>1, <2>2, Outside
<1>15. CASE StoreError
  BY <1>0, <1>15, EndStep DEF StoreError
<1>16. CASE DeleteVectors
  BY <1>0, <1>16 DEF DeleteVectors, EInv, RowsInv, JobInv, PagesInv, ThisPage
<1>17. CASE Unlink
  BY <1>0, <1>17 DEF Unlink, EInv, RowsInv, JobInv, PagesInv, ThisPage
<1>18. CASE DeleteRow
  BY <1>18, DeleteRowStep
<1>19. CASE Shutdown
  <2>1. queue' = <<wk.all>> \o queue /\ EndJob /\ UNCHANGED <<rows, exists, del>>
    BY <1>19 DEF Shutdown
  <2>2. queue' \in Seq(BOOLEAN)
    <3>1. wk.all \in BOOLEAN
      BY <1>0 DEF Jobs
    <3> QED BY <1>0, <2>1, <3>1
  <2> QED BY <1>0, <2>1, <2>2, EndStep
<1>20. CASE Kill
  BY <1>0, <1>20, EndStep DEF Kill
<1> QED
  BY <1>1, <1>2, <1>3, <1>4, <1>5, <1>6, <1>7, <1>8, <1>9, <1>10, <1>11, <1>12, <1>13,
     <1>14, <1>15, <1>16, <1>17, <1>18, <1>19, <1>20, <1>n DEF Next, JobStep

\* The file's jobs have run one at a time, or nothing is said of its pages.
Alone == "overlap" \in faults \/ (left = NoJob /\ EInv)

LEMMA AloneAlways == Spec => []Alone
<1>1. Init => Alone
  BY EInit DEF Init, Alone
<1>2. Alone /\ [Next]_vars => Alone'
  BY EStep, StaysAlone, FaultsGrow DEF Alone
<1> QED BY <1>1, <1>2, PTL DEF Spec

\* Whatever fails, stops, hangs or is deleted, the committed rows of every page
\* of a file that exists are one complete reading of it (extract_file), as long as
\* no two extract jobs of the file have run side by side.
THEOREM PagesWhole == Spec => []WholePages
<1>1. Alone => WholePages
  <2> SUFFICES ASSUME EInv, exists, NEW p \in Pages
               PROVE  LET here == {i \in DOMAIN rows : rows[i].page = p}
                      IN  \E i \in here :
                            /\ Cardinality(here) = rows[i].text.n
                            /\ {rows[j].text : j \in here} =
                                  {Piece(p, rows[i].text.reading, k, rows[i].text.n) :
                                      k \in 1..rows[i].text.n}
    BY DEF WholePages, Alone
  <2>1. PICK here : here = {i \in DOMAIN rows : rows[i].page = p}
    OBVIOUS
  <2>2. PICK n \in Nat \ {0}, reading \in Nat :
          /\ Cardinality(here) = n
          /\ {rows[i].text : i \in here} = {Piece(p, reading, k, n) : k \in 1..n}
    BY <2>1 DEF EInv, PagesInv, Whole, Here
  <2>3. Piece(p, reading, 1, n) \in {rows[i].text : i \in here}
    BY <2>2
  <2>4. PICK i \in here : rows[i].text = Piece(p, reading, 1, n)
    BY <2>3
  <2>5. rows[i].text.n = n /\ rows[i].text.reading = reading
    BY <2>4 DEF Piece
  <2>6. /\ Cardinality(here) = rows[i].text.n
        /\ {rows[j].text : j \in here} =
              {Piece(p, rows[i].text.reading, k, rows[i].text.n) : k \in 1..rows[i].text.n}
    BY <2>2, <2>5
  <2> QED BY <2>1, <2>6, Zenon
<1> QED BY <1>1, AloneAlways, PTL

-----------------------------------------------------------------------------
(* Rows and vectors.                                                        *)

TextOf(r) == [i \in DOMAIN r |-> r[i].text]

\* Nothing has met the vector calls of a page.
Clean == faults \cap {"store_error", "stop_in_swap", "delete", "overlap"} = {}

Replaced == Upsert(NewTexts, TextOf(rows))
Kept == (DOMAIN NewTexts \cup DOMAIN rows) \ (wk.old \ Range(NewIndexes))

\* The vectors are the rows' texts, but for the two states in which a page's
\* vectors are replaced and its rows are not yet.
VecInv ==
    Clean =>
        /\ exists /\ del = "none"
        /\ wk.pc \notin {"surplus", "commit"} => vec = TextOf(rows)
        /\ wk.pc = "surplus" => vec = Replaced
        /\ wk.pc = "commit" => vec = Restrict(Replaced, Kept)

\* The swap's data depend on what the job has selected.
LEMMA SameSwap ==
  ASSUME rows' = rows, wk'.todo = wk.todo, wk'.n = wk.n, wk'.old = wk.old,
         wk'.top = wk.top, wk'.reading = wk.reading
  PROVE  NewTexts' = NewTexts /\ Replaced' = Replaced /\ Kept' = Kept
<1>1. NewIndexes' = NewIndexes /\ ThisPage' = ThisPage
  BY DEF NewIndexes, ThisPage
<1>2. NewTexts' = NewTexts
  BY <1>1 DEF NewTexts
<1>3. Replaced' = Replaced
  BY <1>2 DEF Replaced
<1> QED BY <1>1, <1>2, <1>3 DEF Kept

\* A step outside the swap that keeps every row's text.
LEMMA Calm ==
  ASSUME VecInv, Clean' => Clean, UNCHANGED <<vec, exists, del>>,
         TextOf(rows') = TextOf(rows),
         wk.pc \notin {"surplus", "commit"}, wk'.pc \notin {"surplus", "commit"}
  PROVE  VecInv'
BY DEF VecInv

LEMMA EventClean ==
  ASSUME NEW e, Event(e)
  PROVE  (Clean' => Clean) /\ (e \in {"store_error", "stop_in_swap", "delete", "overlap"} => ~Clean')
BY DEF Event, Clean

LEMMA SameClean == ASSUME NoEvent PROVE Clean' <=> Clean
BY DEF NoEvent, Clean

\* Once its rows are committed, a page's vectors are what they should be.
LEMMA Committed ==
  ASSUME EInv, wk.pc \in SwapPcs, exists,
         rows' = Upsert(NewRows, Restrict(rows, DOMAIN rows \ wk.old))
  PROVE  TextOf(rows') = Restrict(Replaced, Kept)
<1>1. PICK t, D, old, r : t = NewTexts /\ D = DOMAIN NewTexts /\ old = wk.old /\ r = rows
  OBVIOUS
<1>2. D = Range(NewIndexes)
  BY <1>1, NewPieces
<1>3. PICK a : a = NewRows
  OBVIOUS
<1>4. DOMAIN a = D /\ \A i \in D : a[i].text = t[i]
  BY <1>1, <1>3 DEF NewRows
<1>5. rows' = [i \in D \cup (DOMAIN r \ old) |-> IF i \in D THEN a[i] ELSE r[i]]
  <2>1. PICK b : b = Restrict(r, DOMAIN r \ old)
    OBVIOUS
  <2>2. DOMAIN b = DOMAIN r \ old /\ \A i \in DOMAIN r \ old : b[i] = r[i]
    BY <2>1 DEF Restrict
  <2>3. rows' = [i \in DOMAIN a \cup DOMAIN b |-> IF i \in DOMAIN a THEN a[i] ELSE b[i]]
    BY <1>1, <1>3, <2>1 DEF Upsert
  <2> QED BY <1>4, <2>2, <2>3
<1>6. DOMAIN rows' = D \cup (DOMAIN r \ old)
      /\ \A i \in D \cup (DOMAIN r \ old) :
            rows'[i].text = IF i \in D THEN t[i] ELSE r[i].text
  BY <1>4, <1>5
<1>7. TextOf(rows') = [i \in D \cup (DOMAIN r \ old) |-> IF i \in D THEN t[i] ELSE r[i].text]
  BY <1>6 DEF TextOf
<1>8. Replaced = [i \in D \cup DOMAIN r |-> IF i \in D THEN t[i] ELSE r[i].text]
  <2>1. PICK x : x = TextOf(r)
    OBVIOUS
  <2>2. DOMAIN x = DOMAIN r /\ \A i \in DOMAIN r : x[i] = r[i].text
    BY <2>1 DEF TextOf
  <2>3. Replaced = [i \in D \cup DOMAIN x |-> IF i \in D THEN t[i] ELSE x[i]]
    BY <1>1, <2>1 DEF Replaced, Upsert
  <2> QED BY <2>2, <2>3
<1>9. Kept = D \cup (DOMAIN r \ old)
  <2>1. Kept = (D \cup DOMAIN r) \ (old \ D)
    BY <1>1, <1>2 DEF Kept
  <2>2. (D \cup DOMAIN r) \ (old \ D) = D \cup (DOMAIN r \ old)
    OBVIOUS
  <2> QED BY <2>1, <2>2
<1>10. Restrict(Replaced, Kept) =
          [i \in D \cup (DOMAIN r \ old) |-> IF i \in D THEN t[i] ELSE r[i].text]
  <2>1. PICK v : v = Replaced
    OBVIOUS
  <2>2. \A i \in D \cup (DOMAIN r \ old) : v[i] = IF i \in D THEN t[i] ELSE r[i].text
    BY <1>8, <2>1
  <2>3. Restrict(v, Kept) = [i \in D \cup (DOMAIN r \ old) |-> v[i]]
    BY <1>9 DEF Restrict
  <2> QED BY <2>1, <2>2, <2>3
<1> QED BY <1>7, <1>10

LEMMA VecSelect == ASSUME EInv, VecInv, SelectOld PROVE VecInv'
<1> DEFINE old == {i \in DOMAIN rows : rows[i].page = ThisPage}
<1>1. /\ wk.pc = "select" /\ wk \in Jobs /\ UNCHANGED <<vec, exists, del>> /\ NoEvent
  BY DEF SelectOld, EInv, JobInv
<1>2. \/ NextPage(FALSE) /\ UNCHANGED rows
      \/ /\ rows' = [i \in DOMAIN rows |->
                       IF i \in old /\ wk.got THEN [rows[i] EXCEPT !.fields = TRUE]
                       ELSE rows[i]]
         /\ NextPage(TRUE)
      \/ /\ wk' = [wk EXCEPT !.pc = "delete", !.old = old, !.top = Max(DOMAIN rows)]
         /\ UNCHANGED rows
  BY Zenon DEF SelectOld
<1>3. wk'.pc \in {"page", "delete"}
  <2>1. CASE NextPage(FALSE)
    BY <1>1, <2>1, Turns
  <2>2. CASE NextPage(TRUE)
    BY <1>1, <2>2, Turns
  <2>3. CASE wk' = [wk EXCEPT !.pc = "delete", !.old = old, !.top = Max(DOMAIN rows)]
    BY <1>1, <2>3 DEF Jobs
  <2> QED BY <1>2, <2>1, <2>2, <2>3, Zenon
<1>4. TextOf(rows') = TextOf(rows)
  <2>1. CASE UNCHANGED rows
    BY <2>1
  <2>2. CASE rows' = [i \in DOMAIN rows |->
                       IF i \in old /\ wk.got THEN [rows[i] EXCEPT !.fields = TRUE]
                       ELSE rows[i]]
    <3>1. PICK S : S = {i \in old : wk.got}
      OBVIOUS
    <3>2. \A i \in DOMAIN rows :
            (IF i \in old /\ wk.got THEN [rows[i] EXCEPT !.fields = TRUE] ELSE rows[i]) =
            (IF i \in S THEN [rows[i] EXCEPT !.fields = TRUE] ELSE rows[i])
      <4> HIDE DEF old
      <4> QED BY <3>1
    <3>3. rows' = [i \in DOMAIN rows |->
                    IF i \in S THEN [rows[i] EXCEPT !.fields = TRUE] ELSE rows[i]]
      BY <2>2, <3>2, Zenon
    <3>4. DOMAIN rows' = DOMAIN rows /\ \A i \in DOMAIN rows : rows'[i].text = rows[i].text
      BY <3>3, FieldsSet
    <3> QED BY <3>4 DEF TextOf
  <2> QED BY <1>2, <2>1, <2>2, Zenon
<1> QED BY <1>1, <1>3, <1>4, SameClean, Calm

\* A page's new ids are its own old ones, or fresh.
LEMMA NoCollision == ASSUME EInv, wk.pc \in SwapPcs, exists PROVE ~Collides
<1>1. /\ DOMAIN NewTexts = Range(NewIndexes) /\ DOMAIN NewIndexes = 1..wk.n
      /\ \A k \in 1..wk.n :
            NewIndexes[k] \in Nat /\ (NewIndexes[k] \in wk.old \/ NewIndexes[k] > wk.top)
  BY NewPieces
<1>2. ~wk.missed /\ wk.top \in Nat /\ DOMAIN rows \subseteq 0..wk.top
  BY DEF EInv, JobInv, Jobs
<1>3. ASSUME NEW i \in DOMAIN NewTexts, i \in DOMAIN rows \ wk.old PROVE FALSE
  <2>1. PICK k \in 1..wk.n : i = NewIndexes[k]
    BY <1>1 DEF Range
  <2> QED BY <1>1, <1>2, <1>3, <2>1
<1> QED BY <1>2, <1>3 DEF Collides

LEMMA VecCommit == ASSUME EInv, VecInv, CommitPage PROVE VecInv'
<1> SUFFICES ASSUME Clean' PROVE VecInv'
  BY DEF VecInv
<1>1. /\ wk.pc = "commit" /\ exists /\ del = "none" /\ UNCHANGED <<vec, exists, del>>
      /\ vec = Restrict(Replaced, Kept)
      /\ rows' = Upsert(NewRows, Restrict(rows, DOMAIN rows \ wk.old)) /\ NextPage(TRUE)
  <2>1. Clean /\ wk.pc = "commit"
    BY SameClean DEF CommitPage
  <2>2. exists /\ del = "none" /\ vec = Restrict(Replaced, Kept)
    BY <2>1 DEF VecInv
  <2>3. ~Collides
    BY <2>1, <2>2, NoCollision DEF SwapPcs
  <2> QED BY <2>1, <2>2, <2>3 DEF CommitPage
<1>2. wk'.pc = "page"
  BY <1>1, Turns DEF EInv, JobInv
<1>3. TextOf(rows') = vec
  BY <1>1, Committed DEF SwapPcs
<1> QED BY <1>1, <1>2, <1>3 DEF VecInv

LEMMA VecUpsert == ASSUME EInv, VecInv, UpsertNew PROVE VecInv'
<1> SUFFICES ASSUME Clean' PROVE VecInv'
  BY DEF VecInv
<1>1. /\ wk.pc = "upsert" /\ wk' = [wk EXCEPT !.pc = "surplus"] /\ UNCHANGED <<rows, exists, del>>
      /\ vec' = Upsert(NewTexts, vec) /\ Clean /\ wk \in Jobs
  BY SameClean DEF UpsertNew, EInv, JobInv
<1>2. vec' = Replaced /\ exists /\ del = "none"
  BY <1>1 DEF VecInv, Replaced
<1>3. wk'.pc = "surplus" /\ Replaced' = Replaced
  BY <1>1, Moves, SameSwap DEF Pcs
<1> QED BY <1>1, <1>2, <1>3 DEF VecInv

LEMMA VecSurplus == ASSUME EInv, VecInv, DeleteSurplus PROVE VecInv'
<1> SUFFICES ASSUME Clean' PROVE VecInv'
  BY DEF VecInv
<1>1. /\ wk.pc = "surplus" /\ wk' = [wk EXCEPT !.pc = "commit"] /\ UNCHANGED <<rows, exists, del>>
      /\ vec' = Restrict(vec, DOMAIN vec \ (wk.old \ Range(NewIndexes)))
      /\ Clean /\ wk \in Jobs
  BY SameClean DEF DeleteSurplus, EInv, JobInv
<1>2. vec = Replaced /\ exists /\ del = "none"
  BY <1>1 DEF VecInv
<1>3. DOMAIN Replaced = DOMAIN NewTexts \cup DOMAIN rows
  <2>1. PICK a, b : a = NewTexts /\ b = TextOf(rows)
    OBVIOUS
  <2>2. DOMAIN b = DOMAIN rows
    BY <2>1 DEF TextOf
  <2>3. DOMAIN Upsert(a, b) = DOMAIN a \cup DOMAIN b
    BY DEF Upsert
  <2> QED BY <2>1, <2>2, <2>3 DEF Replaced
<1>4. DOMAIN vec \ (wk.old \ Range(NewIndexes)) = Kept
  BY <1>2, <1>3 DEF Kept
<1>5. wk'.pc = "commit" /\ Replaced' = Replaced /\ Kept' = Kept
  BY <1>1, Moves, SameSwap DEF Pcs
<1>6. vec' = Restrict(Replaced, Kept)
  BY <1>1, <1>2, <1>4
<1> QED BY <1>1, <1>2, <1>5, <1>6 DEF VecInv

LEMMA VecStep == Alone /\ VecInv /\ [Next]_vars => VecInv'
<1> SUFFICES ASSUME EInv, left = NoJob, VecInv, [Next]_vars, Clean' PROVE VecInv'
  BY FaultsGrow DEF Alone, VecInv, Clean
<1>n. ~SecondJob /\ ~Switch
  BY DEF SecondJob, Switch, Event, Clean, NoJob
<1>0. wk \in Jobs
  BY DEF EInv, JobInv
<1>1. CASE UNCHANGED vars
  <2>1. Replaced' = Replaced /\ Kept' = Kept
    BY <1>1, SameSwap DEF vars
  <2> QED BY <1>1, <2>1 DEF vars, VecInv, Clean
<1>2. ASSUME NEW all \in BOOLEAN, Request(all) PROVE VecInv'
  <2>1. UNCHANGED <<rows, vec, exists, wk, del>> /\ NoEvent
    BY <1>2 DEF Request
  <2>2. Replaced' = Replaced /\ Kept' = Kept
    BY <2>1, SameSwap
  <2> QED BY <2>1, <2>2, SameClean DEF VecInv
<1>3. CASE StartJob
  <2>1. wk.pc = "idle" /\ UNCHANGED <<rows, vec, exists, del>>
    BY <1>3 DEF StartJob
  <2>2. wk'.pc \in {"idle", "page"}
    BY <1>3 DEF StartJob, EndJob, NoJob
  <2>3. Clean' => Clean
    BY <1>3, SameClean, EventClean DEF StartJob
  <2> QED BY <2>1, <2>2, <2>3, Calm
<1>4. ASSUME NEW o \in Outcomes, ReadPage(o[1], o[2]) PROVE VecInv'
  <2>1. /\ wk.pc = "page" /\ UNCHANGED <<rows, vec, exists, del>> /\ NoEvent
        /\ wk' = [wk EXCEPT !.pc = "select", !.got = o[1], !.n = o[2]]
    BY <1>4 DEF ReadPage
  <2>2. wk'.pc = "select"
    BY <1>0, <2>1 DEF Jobs
  <2> QED BY <2>1, <2>2, SameClean, Calm
<1>5. CASE SkipPage
  BY <1>0, <1>5, Turns, SameClean, Calm DEF SkipPage
<1>6. CASE PageTimeout
  BY <1>0, <1>6, Ends, SameClean, Calm DEF PageTimeout
<1>7. CASE SelectOld
  BY <1>7, VecSelect
<1>8. CASE DeleteOld
  <2>1. /\ wk.pc = "delete" /\ UNCHANGED <<rows, vec, exists, del>> /\ NoEvent
        /\ wk' = [wk EXCEPT !.pc = "upsert", !.locked = exists]
    <3>1. wk.pc # "waiting" /\ ~LockedByOther(wk.old)
      BY <1>0 DEF Jobs, Pcs, LockedByOther, NoJob
    <3> QED BY <1>8, <3>1 DEF DeleteOld
  <2>2. wk'.pc = "upsert"
    BY <1>0, <2>1 DEF Jobs
  <2> QED BY <2>1, <2>2, SameClean, Calm
<1>9. CASE UpsertNew
  BY <1>9, VecUpsert
<1>10. CASE DeleteSurplus
  BY <1>10, VecSurplus
<1>11. CASE CommitPage
  BY <1>11, VecCommit
<1>12. CASE Deadlock
  BY <1>12, SameClean DEF Deadlock, VecInv
<1>13. CASE FinishJob
  BY <1>0, <1>13, Ends, SameClean, Calm DEF FinishJob
<1>14. CASE Hang
  <2>1. /\ wk.pc = "page" /\ wk' = [wk EXCEPT !.pc = "hung"] /\ Event("hang")
        /\ UNCHANGED <<rows, vec, exists, del>>
    BY <1>14 DEF Hang
  <2>2. wk'.pc = "hung"
    BY <1>0, <2>1, Moves DEF Pcs
  <2> QED BY <2>1, <2>2, EventClean, Calm
<1>15. CASE StoreError
  BY <1>15, EventClean DEF StoreError, VecInv
<1>16. CASE DeleteVectors
  BY <1>16, EventClean DEF DeleteVectors, VecInv
<1>17. CASE Unlink
  BY <1>17, SameClean DEF Unlink, VecInv
<1>18. CASE DeleteRow
  BY <1>18, SameClean DEF DeleteRow, VecInv
<1>19. ASSUME NEW e, Event(IF InSwap THEN "stop_in_swap" ELSE e), EndJob,
              UNCHANGED <<rows, vec, exists, del>>
       PROVE  VecInv'
  <2>1. CASE InSwap
    BY <1>19, <2>1, EventClean DEF VecInv
  <2>2. CASE ~InSwap
    <3>1. wk'.pc = "idle" /\ (Clean' => Clean)
      BY <1>0, <1>19, <2>2, Ends, EventClean
    <3> QED BY <1>19, <2>2, <3>1, Calm DEF InSwap
  <2> QED BY <2>1, <2>2
<1>20. CASE Shutdown
  BY <1>19, <1>20 DEF Shutdown
<1>21. CASE Kill
  BY <1>19, <1>21 DEF Kill
<1> QED
  BY <1>1, <1>2, <1>3, <1>4, <1>5, <1>6, <1>7, <1>8, <1>9, <1>10, <1>11, <1>12, <1>13,
     <1>14, <1>15, <1>16, <1>17, <1>18, <1>20, <1>21, <1>n DEF Next, JobStep

\* Between pages and jobs, and unless an error, a stop or a delete request met a
\* page's vector calls or two jobs overlapped, the vectors are exactly the rows'
\* texts, by index
\* (rag.index_chunks and rag.delete_chunk_ids as extract_file calls them).
THEOREM VectorsFollow == Spec => []RowsMatchVectors
<1>1. Init => VecInv
  <2> SUFFICES ASSUME Init PROVE VecInv
    OBVIOUS
  <2>1. /\ DOMAIN rows = DOMAIN Chunks
        /\ \A i \in DOMAIN Chunks : rows[i].text = FirstText(i)
    BY DEF Init
  <2>2. TextOf(rows) = [i \in DOMAIN Chunks |-> FirstText(i)]
    BY <2>1 DEF TextOf
  <2>3. vec = TextOf(rows) /\ exists /\ del = "none"
    BY <2>2 DEF Init
  <2>4. wk.pc = "idle"
    BY DEF Init, NoJob
  <2> QED BY <2>3, <2>4 DEF VecInv
<1>2. VecInv => RowsMatchVectors
  BY DEF VecInv, RowsMatchVectors, Clean, TextOf
<1> QED BY <1>1, <1>2, AloneAlways, VecStep, PTL DEF Spec
================================================================================
