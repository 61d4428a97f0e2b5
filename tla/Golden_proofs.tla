---------------------------- MODULE Golden_proofs ----------------------------
(***************************************************************************)
(* Proofs about module Golden, for any number of files, golden sets,       *)
(* workers, runs and disturbances.                                         *)
(***************************************************************************)
EXTENDS Golden, WellFoundedInduction, TLAPS

IndexJob(f) == [kind |-> "index", id |-> f]

Job == [kind : {"rag_eval"}, id : Nat] \cup [kind : {"index"}, id : Files]

Run == [ds : Sets, status : {"queued", "running"} \cup Final, hits : Nat,
        regression : BOOLEAN, saw : SUBSET Files,
        against : Seq([ds : Sets, hits : Nat])]

Pc == {"idle", "create", "enqueue", "index", "hook", "start", "retrieve", "report"}

State == [pc : Pc, job : Job \cup {None}, ds : Sets \cup {None}, run : Nat]

\* The types of the variables the theorems are about.
Types ==
    /\ golden \in Sets \cup {None}
    /\ uploaded \subseteq Files
    /\ indexed \subseteq Files
    /\ hooked \subseteq Files
    /\ runs \in Seq(Run)
    /\ aged \in Nat
    /\ queue \in Seq(Job)
    /\ st \in [Callers -> State]

\* An eval job names a row that exists: nothing deletes rag_eval_runs rows.
Known(j, rows) == j.kind = "rag_eval" => j.id \in rows

\* What a coroutine has in its hands at each of its steps.
Ready(c, s, rows) ==
    /\ s.pc \in {"start", "retrieve", "report"} =>
          c \in Workers /\ s.job \in Job /\ s.job.kind = "rag_eval" /\ s.job.id \in rows
    /\ s.pc \in {"index", "hook"} =>
          c \in Workers /\ s.job \in Job /\ s.job.kind = "index"
    /\ c \in Workers /\ s.pc \in {"create", "enqueue"} =>
          s.job \in Job /\ s.job.kind = "index"
    /\ s.pc = "create" => s.ds \in Sets
    /\ s.pc = "enqueue" => s.run \in rows

TInv ==
    /\ Types
    /\ \A c \in Callers : Ready(c, st[c], DOMAIN runs)
    /\ \A k \in DOMAIN queue : Known(queue[k], DOMAIN runs)

\* A set of naturals that is not empty has a least element.
LEMMA NatMin ==
  ASSUME NEW T, T \subseteq Nat, T # {}
  PROVE  \E n \in T : \A k \in T : n <= k
<1> DEFINE R == {ss \in Nat \X Nat : ss[1] < ss[2]}
<1>1. IsWellFoundedOn(R, Nat)
  BY NatLessThanWellFounded DEF OpToRel
<1> HIDE DEF R
<1>2. PICK n \in T : \A k \in T : ~(<<k, n>> \in R)
  BY <1>1, WFMin
<1>3. \A k \in T : ~(k < n)
  BY <1>2 DEF R
<1> QED BY <1>2, <1>3

\* The clock leaves aged a natural number: the least open run exists.
LEMMA AgeType == TInv /\ Age => aged' \in Nat
<1> SUFFICES ASSUME TInv, Age PROVE aged' \in Nat
  OBVIOUS
<1> DEFINE open == {i \in aged + 1 .. Len(runs) : runs[i].status \notin Final}
<1>1. open \subseteq Nat
  BY DEF TInv, Types
<1>2. open # {} /\ aged' = CHOOSE i \in open : \A j \in open : i <= j
  BY DEF Age
<1> HIDE DEF open
<1>3. \E i \in open : \A j \in open : i <= j
  BY <1>1, <1>2, NatMin
<1> QED BY <1>1, <1>2, <1>3

\* The lists RPUSH, LPUSH and BLPOP make.
LEMMA ListAppend ==
  ASSUME NEW S, NEW s \in Seq(S), NEW x \in S
  PROVE  /\ Append(s, x) \in Seq(S)
         /\ Len(Append(s, x)) = Len(s) + 1
         /\ \A i \in 1..Len(s) : Append(s, x)[i] = s[i]
         /\ Append(s, x)[Len(s) + 1] = x
OBVIOUS

LEMMA ListPush ==
  ASSUME NEW S, NEW s \in Seq(S), NEW x \in S
  PROVE  /\ <<x>> \o s \in Seq(S)
         /\ Len(<<x>> \o s) = Len(s) + 1
         /\ (<<x>> \o s)[1] = x
         /\ \A i \in 2..Len(s) + 1 : (<<x>> \o s)[i] = s[i - 1]
OBVIOUS

LEMMA ListPop ==
  ASSUME NEW S, NEW s \in Seq(S), s # <<>>
  PROVE  /\ Tail(s) \in Seq(S)
         /\ Len(s) >= 1 /\ Len(Tail(s)) = Len(s) - 1
         /\ Head(s) = s[1] /\ Head(s) \in S
         /\ \A i \in 1..Len(Tail(s)) : Tail(s)[i] = s[i + 1]
OBVIOUS

-----------------------------------------------------------------------------
(* Scoring.                                                                 *)

\* A set of row numbers that is not empty has a newest one.
LEMMA NewestExists ==
  ASSUME NEW n \in Nat, NEW S, S \subseteq 1..n, S # {}
  PROVE  \E i \in S : \A j \in S : j <= i
<1> DEFINE T == {n - i : i \in S}
<1>0. \A i \in S : n - i \in Nat
  OBVIOUS
<1>1. T \subseteq Nat /\ T # {}
  <2>1. PICK i \in S : TRUE
    OBVIOUS
  <2>2. n - i \in T
    OBVIOUS
  <2> QED BY <1>0, <2>2
<1>2. PICK t \in T : \A k \in T : t <= k
  BY <1>1, NatMin, Zenon
<1>3. PICK i \in S : t = n - i
  BY <1>2
<1>4. \A j \in S : n - j \in T
  OBVIOUS
<1>5. \A j \in S : j <= i
  BY <1>2, <1>3, <1>4
<1> QED BY <1>5

\* The query's window exists: at most BASELINE_RUNS of the runs in S.
LEMMA NewestType ==
  ASSUME NEW n \in Nat, NEW S, S \subseteq 1..n
  PROVE  \E m \in 0..BASELINE_RUNS : Newest(S) \in [1..m -> S]
<1> DEFINE W == UNION {[1..m -> S] : m \in 0..BASELINE_RUNS}
           Good(q) == /\ \A j, k \in DOMAIN q : j < k => q[j] > q[k]
                      /\ \A i \in S :
                            \/ \E k \in DOMAIN q : q[k] = i
                            \/ Len(q) = BASELINE_RUNS /\ \A k \in DOMAIN q : q[k] > i
<1>1. \E q \in W : Good(q)
  <2> USE DEF BASELINE_RUNS
  <2>1. CASE S = {}
    <3>1. <<>> \in [1..0 -> S]
      OBVIOUS
    <3>2. <<>> \in W /\ Good(<<>>)
      BY <2>1, <3>1
    <3> QED BY <3>2
  <2>2. CASE S # {}
    <3>1. PICK a \in S : \A j \in S : j <= a
      BY <2>2, NewestExists
    <3>2. CASE S \ {a} = {}
      <4>1. <<a>> \in [1..1 -> S] /\ DOMAIN <<a>> = 1..1 /\ <<a>>[1] = a
        BY SMT
      <4>2. <<a>> \in W
        BY <4>1
      <4>3. Good(<<a>>)
        BY <4>1, <3>2
      <4> QED BY <4>2, <4>3
    <3>3. CASE S \ {a} # {}
      <4>1. PICK b \in S \ {a} : \A j \in S \ {a} : j <= b
        <5>1. S \ {a} \subseteq 1..n
          OBVIOUS
        <5> QED BY <3>3, <5>1, NewestExists
      <4>2. b < a
        BY <3>1, <4>1
      <4>3. CASE S \ {a, b} = {}
        <5>1. /\ <<a, b>> \in [1..2 -> S] /\ DOMAIN <<a, b>> = 1..2
              /\ <<a, b>>[1] = a /\ <<a, b>>[2] = b
          BY SMT
        <5>2. <<a, b>> \in W
          BY <5>1
        <5>3. Good(<<a, b>>)
          BY <5>1, <4>2, <4>3
        <5> QED BY <5>2, <5>3
      <4>4. CASE S \ {a, b} # {}
        <5>1. PICK c \in S \ {a, b} : \A j \in S \ {a, b} : j <= c
          <6>1. S \ {a, b} \subseteq 1..n
            OBVIOUS
          <6> QED BY <4>4, <6>1, NewestExists
        <5>2. c < b
          BY <4>1, <5>1
        <5>3. /\ <<a, b, c>> \in [1..3 -> S] /\ DOMAIN <<a, b, c>> = 1..3
              /\ Len(<<a, b, c>>) = 3
              /\ <<a, b, c>>[1] = a /\ <<a, b, c>>[2] = b /\ <<a, b, c>>[3] = c
          BY SMT
        <5>4. <<a, b, c>> \in W
          BY <5>3
        <5>5. \A j, k \in 1..3 : j < k => <<a, b, c>>[j] > <<a, b, c>>[k]
          BY <5>3, <4>2, <5>2
        <5>6. \A i \in S : i = a \/ i = b \/ i = c \/ i < c
          BY <5>1
        <5>7. Good(<<a, b, c>>)
          BY <5>3, <5>5, <5>6, <4>2, <5>2
        <5> QED BY <5>4, <5>7
      <4> QED BY <4>3, <4>4
    <3> QED BY <3>2, <3>3
  <2> QED BY <2>1, <2>2
<1>2. Newest(S) = CHOOSE q \in W : Good(q)
  BY DEF Newest
<1> HIDE DEF Good
<1>3. Newest(S) \in W
  BY <1>1, <1>2
<1> QED BY <1>3

\* Rounding to four decimals: at most half a unit away, times n.
LEMMA RecallBounds ==
  ASSUME NEW h \in Nat, NEW n \in Nat \ {0}
  PROVE  /\ Recall(h, n) \in Int
         /\ 2 * (n * Recall(h, n) - Unit * h) \in -n..n
<1> DEFINE q == (Unit * h) \div n
<1>0. Unit * h \in Nat
  BY DEF Unit
<1>1. q \in Int /\ n * q <= Unit * h /\ Unit * h < n * q + n
  BY <1>0
<1> HIDE DEF q
<1>2. Rounded(h, n) = {r \in q .. q + 1 : 2 * (r * n - Unit * h) \in -n..n}
  BY DEF Rounded, q
<1>3. q \in Rounded(h, n) \/ q + 1 \in Rounded(h, n)
  <2>1. q * n = n * q /\ (q + 1) * n = n * q + n
    BY <1>1
  <2> QED BY <1>0, <1>1, <1>2, <2>1
<1>4. \E r \in Rounded(h, n) : \A x \in Rounded(h, n) : r <= x
  <2>1. \A x \in Rounded(h, n) : x = q \/ x = q + 1
    BY <1>1, <1>2
  <2>2. CASE q \in Rounded(h, n)
    BY <1>1, <2>1, <2>2
  <2>3. CASE q \notin Rounded(h, n)
    BY <1>1, <1>3, <2>1, <2>3
  <2> QED BY <2>2, <2>3
<1>5. Recall(h, n) \in Rounded(h, n)
  BY <1>4 DEF Recall
<1>6. Recall(h, n) \in Int
  BY <1>1, <1>2, <1>5
<1>7. Recall(h, n) * n = n * Recall(h, n)
  BY <1>6
<1> QED BY <1>2, <1>5, <1>6, <1>7

\* Twice the median of one to three recalls is the sum of two of them.
LEMMA MedianOfTwo ==
  ASSUME NEW m \in 1..3, NEW w \in [1..m -> Int]
  PROVE  \E i, j \in 1..m : TwiceMedian(w) = w[i] + w[j]
<1>0. Len(w) = m
  OBVIOUS
<1>1. CASE m = 1
  BY <1>0, <1>1 DEF TwiceMedian
<1>2. CASE m = 2
  BY <1>0, <1>2 DEF TwiceMedian
<1>3. CASE m = 3
  <2> DEFINE P(x) == /\ \E i, j \in 1..3 : i # j /\ w[i] <= x /\ w[j] <= x
                     /\ \E i, j \in 1..3 : i # j /\ w[i] >= x /\ w[j] >= x
             M == CHOOSE x \in {w[1], w[2], w[3]} : P(x)
  <2>0. w[1] \in Int /\ w[2] \in Int /\ w[3] \in Int
    BY <1>3
  <2>1. \E x \in {w[1], w[2], w[3]} : P(x)
    <3>1. \/ w[1] <= w[2] /\ w[2] <= w[3]
          \/ w[1] <= w[3] /\ w[3] <= w[2]
          \/ w[2] <= w[1] /\ w[1] <= w[3]
          \/ w[2] <= w[3] /\ w[3] <= w[1]
          \/ w[3] <= w[1] /\ w[1] <= w[2]
          \/ w[3] <= w[2] /\ w[2] <= w[1]
      BY <2>0
    <3>2. 1 \in 1..3 /\ 2 \in 1..3 /\ 3 \in 1..3
      OBVIOUS
    <3> QED BY <2>0, <3>1, <3>2
  <2>2. TwiceMedian(w) = 2 * M
    BY <1>0, <1>3 DEF TwiceMedian
  <2> HIDE DEF P
  <2>3. M \in {w[1], w[2], w[3]}
    BY <2>1
  <2> HIDE DEF M
  <2>4. PICK i \in 1..m : M = w[i]
    BY <1>3, <2>3
  <2> QED BY <2>2, <2>4
<1> QED BY <1>1, <1>2, <1>3

LEMMA TimesMonotone ==
  ASSUME NEW n \in Nat, NEW x \in Int, NEW y \in Int, x <= y
  PROVE  n * x <= n * y
OBVIOUS

\* The arithmetic of judge, times 2n: x and y are the recalls the median comes
\* from, d the rounded drop.
LEMMA DropBounds ==
  ASSUME NEW n \in Nat \ {0}, NEW h \in Nat, NEW hx \in Nat, NEW hy \in Nat,
         NEW x \in Int, NEW y \in Int, NEW d \in Int,
         2 * (n * x - 10000 * hx) \in -n..n,
         2 * (n * y - 10000 * hy) \in -n..n,
         2 * (2 * n * d - (n * (x + y) - 20000 * h)) \in -(2 * n)..(2 * n)
  PROVE  /\ h >= hx /\ h >= hy => ~(d > 500)
         /\ n < 40 /\ h <= hx - 2 /\ h <= hy - 2 => d > 500 /\ d * n > 10000
<1> DEFINE a == n * x
           b == n * y
           e == n * d
<1>1. /\ a \in Int /\ b \in Int /\ e \in Int
      /\ n * (x + y) = a + b /\ 2 * n * d = 2 * e /\ d * n = e
  OBVIOUS
<1>2. d >= 501 => e >= n * 501
  BY TimesMonotone
<1>3. d <= 500 => e <= n * 500
  BY TimesMonotone
<1>4. /\ 2 * (a - 10000 * hx) \in -n..n
      /\ 2 * (b - 10000 * hy) \in -n..n
      /\ 2 * (2 * e - (a + b - 20000 * h)) \in -(2 * n)..(2 * n)
  BY <1>1
<1> HIDE DEF a, b, e
<1>5. ASSUME h >= hx, h >= hy PROVE ~(d > 500)
  <2>1. e <= n
    BY <1>1, <1>4, <1>5
  <2> QED BY <1>1, <1>2, <2>1
<1>6. ASSUME n < 40, h <= hx - 2, h <= hy - 2 PROVE d > 500 /\ e > 10000
  <2>1. e >= 20000 - n
    BY <1>1, <1>4, <1>6
  <2> QED BY <1>1, <1>3, <1>6, <2>1
<1> QED BY <1>1, <1>5, <1>6

\* judge's verdict on h hits against the recalls of runs with hs[k] hits: as many
\* as each of them is never a regression, two fewer than each of them is one.
LEMMA JudgeFair ==
  ASSUME NEW h \in Nat, NEW n \in Nat \ {0}, NEW m \in 0..3, NEW hs \in [1..m -> Nat],
         NEW flag \in Judge(h, n, [k \in 1..m |-> Recall(hs[k], n)])
  PROVE  /\ flag \in BOOLEAN
         /\ (\A k \in 1..m : h >= hs[k]) => ~flag
         /\ (m # 0 /\ n < 40 /\ \A k \in 1..m : h <= hs[k] - 2) => flag
<1> DEFINE w == [k \in 1..m |-> Recall(hs[k], n)]
           drop == n * TwiceMedian(w) - 2 * Unit * h
<1>1. CASE m = 0
  <2>1. w = <<>>
    BY <1>1
  <2>2. Judge(h, n, w) = {FALSE}
    BY <2>1 DEF Judge
  <2> QED BY <1>1, <2>2
<1>2. CASE m # 0
  <2>0. m \in 1..3 /\ \A k \in 1..m : hs[k] \in Nat
    BY <1>2
  <2>1. \A k \in 1..m : w[k] \in Int /\ 2 * (n * w[k] - Unit * hs[k]) \in -n..n
    <3>1. ASSUME NEW k \in 1..m
          PROVE  /\ Recall(hs[k], n) \in Int
                 /\ 2 * (n * Recall(hs[k], n) - Unit * hs[k]) \in -n..n
      BY <2>0, RecallBounds
    <3>2. \A k \in 1..m : w[k] = Recall(hs[k], n)
      OBVIOUS
    <3> QED BY <3>1, <3>2
  <2>2. w \in [1..m -> Int] /\ w # <<>>
    BY <2>0, <2>1
  <2>3. PICK i \in 1..m, j \in 1..m : TwiceMedian(w) = w[i] + w[j]
    BY <2>0, <2>2, MedianOfTwo
  <2>4. PICK d :
            /\ d \in drop \div (2 * n) .. drop \div (2 * n) + 1
            /\ 2 * (2 * n * d - drop) \in -(2 * n)..(2 * n)
            /\ flag <=> d > REGRESSION_FLOOR /\ d * n > Unit
    BY <2>2 DEF Judge
  <2> HIDE DEF w
  <2>5. /\ w[i] \in Int /\ 2 * (n * w[i] - Unit * hs[i]) \in -n..n
        /\ w[j] \in Int /\ 2 * (n * w[j] - Unit * hs[j]) \in -n..n
    BY <2>1
  <2>6. TwiceMedian(w) \in Int /\ n * TwiceMedian(w) = n * (w[i] + w[j])
    <3>1. w[i] \in Int /\ w[j] \in Int
      BY <2>5, Zenon
    <3>2. w[i] + w[j] \in Int
      BY <3>1
    <3> QED BY <2>3, <3>2, Zenon
  <2>7. drop \in Int /\ drop = n * (w[i] + w[j]) - 20000 * h
    BY <2>6 DEF Unit
  <2> HIDE DEF drop
  <2>8. d \in Int
    <3>1. 2 * n \in Nat \ {0}
      OBVIOUS
    <3>2. drop \div (2 * n) \in Int
      BY <2>7, <3>1
    <3> QED BY <2>4, <3>2
  <2>9. /\ 2 * (n * w[i] - 10000 * hs[i]) \in -n..n
        /\ 2 * (n * w[j] - 10000 * hs[j]) \in -n..n
    BY <2>5 DEF Unit
  <2>10. 2 * (2 * n * d - (n * (w[i] + w[j]) - 20000 * h)) \in -(2 * n)..(2 * n)
    BY <2>4, <2>7
  <2>11. hs[i] \in Nat /\ hs[j] \in Nat
    BY <2>0
  <2>12. /\ h >= hs[i] /\ h >= hs[j] => ~(d > 500)
         /\ n < 40 /\ h <= hs[i] - 2 /\ h <= hs[j] - 2 => d > 500 /\ d * n > 10000
    <3> DEFINE x == w[i]
               y == w[j]
               hx == hs[i]
               hy == hs[j]
    <3>1. x \in Int /\ y \in Int /\ d \in Int /\ hx \in Nat /\ hy \in Nat
      BY <2>5, <2>8, <2>11
    <3>2. /\ 2 * (n * x - 10000 * hx) \in -n..n
          /\ 2 * (n * y - 10000 * hy) \in -n..n
          /\ 2 * (2 * n * d - (n * (x + y) - 20000 * h)) \in -(2 * n)..(2 * n)
      BY <2>9, <2>10
    <3> HIDE DEF x, y, hx, hy
    <3>3. /\ h >= hx /\ h >= hy => ~(d > 500)
          /\ n < 40 /\ h <= hx - 2 /\ h <= hy - 2 => d > 500 /\ d * n > 10000
      BY <3>1, <3>2, DropBounds
    <3> QED BY <3>3 DEF hx, hy
  <2>14. flag <=> d > 500 /\ d * n > 10000
    BY <2>4 DEF REGRESSION_FLOOR, Unit
  <2>16. ASSUME \A k \in 1..m : h >= hs[k] PROVE ~flag
    <3>1. h >= hs[i] /\ h >= hs[j]
      BY <2>16
    <3>2. ~(d > 500)
      BY <2>12, <3>1
    <3> QED BY <2>14, <3>2
  <2>17. ASSUME n < 40, \A k \in 1..m : h <= hs[k] - 2 PROVE flag
    <3>1. h <= hs[i] - 2 /\ h <= hs[j] - 2
      BY <2>17
    <3>2. d > 500 /\ d * n > 10000
      BY <2>12, <2>17, <3>1
    <3> QED BY <2>14, <3>2
  <2>18. flag \in BOOLEAN
    BY <2>2 DEF Judge
  <2> QED BY <2>16, <2>17, <2>18, Zenon
<1> QED BY <1>1, <1>2, Zenon

\* JudgedFairly, of one run.
Judged(x) ==
    LET seen == {x.against[k].hits : k \in DOMAIN x.against}
    IN  /\ \A k \in DOMAIN x.against : x.against[k].ds = x.ds
        /\ (\A h \in seen : x.hits >= h) => ~x.regression
        /\ (seen # {} /\ N[x.ds] < 40 /\ \A h \in seen : x.hits <= h - 2)
              => x.regression

\* process_run's commit changes one row, into a run judged against at most three
\* runs of its own golden set.
LEMMA FinishEffect ==
  ASSUME TInv, NEW w \in Workers, NEW h \in Hits, FinishRun(w, h)
  PROVE  LET r == st[w].job.id
         IN  /\ r \in DOMAIN runs
             /\ \E x \in Run :
                   /\ runs' = [runs EXCEPT ![r] = x]
                   /\ x.status = "succeeded" /\ x.saw = runs[r].saw
                   /\ Judged(x)
<1> DEFINE r == st[w].job.id
           n == N[runs[r].ds]
           S == {i \in DOMAIN runs :
                   i # r /\ runs[i].status = "succeeded" /\ runs[i].ds = runs[r].ds}
           p == Previous(r)
<1>1. r \in DOMAIN runs /\ h \in Nat
  <2>1. st[w].pc = "retrieve"
    BY DEF FinishRun
  <2>2. w \in Callers
    BY DEF Callers
  <2>3. Ready(w, st[w], DOMAIN runs)
    BY <2>2 DEF TInv
  <2>4. r \in DOMAIN runs
    BY <2>1, <2>3 DEF Ready
  <2>5. h \in Nat
    BY GoldenAssumption
  <2> QED BY <2>4, <2>5
<1>2. /\ runs[r] \in Run /\ \A i \in S : runs[i] \in Run /\ runs[i].ds = runs[r].ds
      /\ Len(runs) \in Nat /\ DOMAIN runs = 1..Len(runs)
  BY <1>1 DEF TInv, Types
<1>3. runs[r].ds \in Sets /\ \A i \in S : runs[i].hits \in Nat
  BY <1>2 DEF Run
<1>4. n \in Nat \ {0}
  <2>1. n \in 1..200
    BY <1>3, GoldenAssumption
  <2> HIDE DEF n
  <2> QED BY <2>1
<1>5. PICK m \in 0..3 : p \in [1..m -> S]
  <2>1. S \subseteq 1..Len(runs)
    BY <1>2
  <2>2. p = Newest(S)
    BY DEF Previous
  <2> HIDE DEF S, p
  <2> QED BY <1>2, <2>1, <2>2, NewestType DEF BASELINE_RUNS
<1> DEFINE hs == [k \in 1..m |-> runs[p[k]].hits]
           recalls == [k \in DOMAIN p |-> Recall(runs[p[k]].hits, n)]
           against == [k \in DOMAIN p |-> [ds |-> runs[p[k]].ds, hits |-> runs[p[k]].hits]]
<1>6. PICK flag \in Judge(h, n, recalls) :
         runs' = [runs EXCEPT ![r] = [@ EXCEPT
                     !.status = "succeeded", !.hits = h, !.regression = flag,
                     !.against = against]]
  BY DEF FinishRun
<1> HIDE DEF p
<1>7. DOMAIN p = 1..m /\ \A k \in 1..m : p[k] \in S
  BY <1>5
<1> HIDE DEF S
<1>8. hs \in [1..m -> Nat] /\ recalls = [k \in 1..m |-> Recall(hs[k], n)]
  BY <1>3, <1>7
<1> DEFINE x == [runs[r] EXCEPT !.status = "succeeded", !.hits = h, !.regression = flag,
                                !.against = against]
<1>9. /\ flag \in BOOLEAN
      /\ (\A k \in 1..m : h >= hs[k]) => ~flag
      /\ (m # 0 /\ n < 40 /\ \A k \in 1..m : h <= hs[k] - 2) => flag
  <2> HIDE DEF n, hs, recalls
  <2> QED BY <1>1, <1>4, <1>6, <1>8, JudgeFair
<1>10. against \in Seq([ds : Sets, hits : Nat])
  <2>1. against \in [1..m -> [ds : Sets, hits : Nat]]
    BY <1>2, <1>3, <1>7
  <2> QED BY <2>1
<1>11. /\ runs' = [runs EXCEPT ![r] = x] /\ x \in Run
       /\ x.status = "succeeded" /\ x.saw = runs[r].saw
       /\ x.ds = runs[r].ds /\ x.hits = h /\ x.regression = flag /\ x.against = against
  <2> HIDE DEF against
  <2> QED BY <1>1, <1>2, <1>6, <1>9, <1>10 DEF Run, Final
<1>12. /\ DOMAIN against = 1..m
       /\ \A k \in 1..m : against[k].ds = runs[r].ds /\ against[k].hits = hs[k]
  BY <1>2, <1>7
<1> HIDE DEF x, against, hs, n
<1>13. Judged(x)
  <2> DEFINE seen == {x.against[k].hits : k \in DOMAIN x.against}
  <2>1. \A k \in DOMAIN x.against : x.against[k].ds = x.ds
    BY <1>11, <1>12
  <2>2. \A k \in 1..m : hs[k] \in seen
    BY <1>11, <1>12
  <2>3. seen # {} => m # 0
    BY <1>11, <1>12
  <2>4. n = N[x.ds]
    BY <1>11 DEF n
  <2>5. (\A g \in seen : x.hits >= g) => ~x.regression
    BY <1>9, <1>11, <2>2
  <2>6. (seen # {} /\ N[x.ds] < 40 /\ \A g \in seen : x.hits <= g - 2) => x.regression
    BY <1>9, <1>11, <2>2, <2>3, <2>4
  <2> QED BY <2>1, <2>5, <2>6 DEF Judged
<1> QED BY <1>1, <1>11, <1>13

-----------------------------------------------------------------------------
(* Types.                                                                   *)

\* One coroutine moves on, to a state it may be in; no row is deleted.
LEMMA MoveKeeps ==
  ASSUME TInv, NEW c \in Callers, NEW s \in State,
         st' = [st EXCEPT ![c] = s],
         DOMAIN runs \subseteq DOMAIN runs',
         Ready(c, s, DOMAIN runs')
  PROVE  /\ st' \in [Callers -> State]
         /\ \A d \in Callers : Ready(d, st'[d], DOMAIN runs')
<1>1. st' \in [Callers -> State]
  BY DEF TInv, Types
<1>2. ASSUME NEW d \in Callers PROVE Ready(d, st'[d], DOMAIN runs')
  <2>1. CASE d = c
    <3>1. st'[d] = s
      BY <2>1 DEF TInv, Types
    <3> QED BY <2>1, <3>1
  <2>2. CASE d # c
    <3>1. st'[d] = st[d]
      BY <2>2 DEF TInv, Types
    <3>2. Ready(d, st[d], DOMAIN runs)
      BY DEF TInv
    <3>3. Ready(d, st[d], DOMAIN runs')
      BY <3>2 DEF Ready
    <3> QED BY <3>1, <3>3
  <2> QED BY <2>1, <2>2
<1> QED BY <1>1, <1>2

LEMMA IdleReady == \A c \in Callers : Idle \in State /\ Ready(c, Idle, DOMAIN runs')
BY DEF Idle, State, Pc, Ready

\* A commit on one row.
LEMMA RowUpdate ==
  ASSUME runs \in Seq(Run), NEW r \in DOMAIN runs, NEW x \in Run,
         runs' = [runs EXCEPT ![r] = x]
  PROVE  /\ runs' \in Seq(Run) /\ DOMAIN runs' = DOMAIN runs
         /\ runs'[r] = x /\ \A i \in DOMAIN runs \ {r} : runs'[i] = runs[i]
OBVIOUS

LEMMA FailedRow ==
  ASSUME runs \in Seq(Run), NEW r \in DOMAIN runs,
         runs' = [runs EXCEPT ![r].status = "failed"]
  PROVE  \E x \in Run : /\ runs' = [runs EXCEPT ![r] = x]
                        /\ x.status = "failed" /\ x.saw = runs[r].saw
<1> DEFINE x == [runs[r] EXCEPT !.status = "failed"]
<1>1. runs[r] \in Run
  OBVIOUS
<1>2. x \in Run /\ x.status = "failed" /\ x.saw = runs[r].saw
  BY <1>1 DEF Run, Final
<1>3. runs' = [runs EXCEPT ![r] = x]
  OBVIOUS
<1> QED BY <1>2, <1>3

LEMMA StartedRow ==
  ASSUME runs \in Seq(Run), NEW r \in DOMAIN runs, indexed \subseteq Files,
         runs' = [runs EXCEPT ![r].status = "running", ![r].saw = indexed]
  PROVE  \E x \in Run : /\ runs' = [runs EXCEPT ![r] = x]
                        /\ x.status = "running" /\ x.saw = indexed
<1> DEFINE x == [runs[r] EXCEPT !.status = "running", !.saw = indexed]
<1>1. runs[r] \in Run
  OBVIOUS
<1>2. x \in Run /\ x.status = "running" /\ x.saw = indexed
  BY <1>1 DEF Run
<1>3. runs' = [runs EXCEPT ![r] = x]
  OBVIOUS
<1> QED BY <1>2, <1>3

\* What is left when queue_run raises: its caller is done, and there may be a row
\* nobody will push a job for.
LEMMA RaisedEffect ==
  ASSUME TInv, NEW c \in Callers, QueueRunRaises(c) \/ EnqueueFailsTwice(c)
  PROVE  /\ st[c].pc \in {"hook", "create", "enqueue"} /\ st' = [st EXCEPT ![c] = Idle]
         /\ hooked' = IF c = Client THEN hooked ELSE hooked \cup {st[c].job.id}
         /\ UNCHANGED <<golden, uploaded, indexed, aged, queue>>
         /\ \/ runs' = runs
            \/ /\ QueueRunRaises(c)
               /\ \E x \in Run : runs' = Append(runs, x) /\ x.status = "queued"
         /\ faults \subseteq faults' /\ faults' \cap LostRun # {}
<1>1. Ready(c, st[c], DOMAIN runs)
  BY DEF TInv
<1>2. CASE QueueRunRaises(c)
  <2>1. ASSUME runs' # runs
        PROVE  \E x \in Run : runs' = Append(runs, x) /\ x.status = "queued"
    <3>1. st[c].pc = "create" /\ runs' = Append(runs, NewRun(st[c].ds))
      BY <1>2, <2>1 DEF QueueRunRaises
    <3>2. NewRun(st[c].ds) \in Run /\ NewRun(st[c].ds).status = "queued"
      BY <1>1, <3>1 DEF Ready, NewRun, Run
    <3> QED BY <3>1, <3>2
  <2>2. faults' = faults \cup {"db"}
    BY <1>2 DEF QueueRunRaises, Event
  <2> QED BY <1>2, <2>1, <2>2 DEF QueueRunRaises, Raised, LostRun
<1>3. CASE EnqueueFailsTwice(c)
  BY <1>3 DEF EnqueueFailsTwice, Raised, Event, LostRun
<1> QED BY <1>2, <1>3

\* What is left when an error ends a job: at most the commit of running.
LEMMA JobRaisesEffect ==
  ASSUME TInv, NEW w \in Workers, JobRaises(w)
  PROVE  /\ st[w].pc \in {"index", "start", "retrieve"} /\ st' = [st EXCEPT ![w] = Idle]
         /\ UNCHANGED <<golden, uploaded, indexed, aged, queue, hooked>>
         /\ faults \subseteq faults'
         /\ st[w].pc = "start" => faults' \cap LostRun # {}
         /\ \/ runs' = runs
            \/ /\ st[w].pc = "start" /\ st[w].job.id \in DOMAIN runs
               /\ \E x \in Run : /\ runs' = [runs EXCEPT ![st[w].job.id] = x]
                                 /\ x.status = "running"
<1>1. Ready(w, st[w], DOMAIN runs) /\ runs \in Seq(Run)
  BY DEF TInv, Types, Callers
<1>2. ASSUME runs' # runs
      PROVE  /\ st[w].pc = "start" /\ st[w].job.id \in DOMAIN runs
             /\ \E x \in Run : /\ runs' = [runs EXCEPT ![st[w].job.id] = x]
                               /\ x.status = "running"
  <2> DEFINE r == st[w].job.id
             x == [runs[r] EXCEPT !.status = "running"]
  <2>1. st[w].pc = "start" /\ runs' = [runs EXCEPT ![r].status = "running"]
    BY <1>2 DEF JobRaises
  <2>2. r \in DOMAIN runs
    BY <1>1, <2>1 DEF Ready
  <2>3. runs[r] \in Run
    BY <1>1, <2>2
  <2>4. x \in Run /\ x.status = "running"
    BY <2>3 DEF Run
  <2>5. runs' = [runs EXCEPT ![r] = x]
    BY <1>1, <2>1, <2>2
  <2> QED BY <2>1, <2>2, <2>4, <2>5
<1>3. /\ faults \subseteq faults'
      /\ st[w].pc = "start" => faults' \cap LostRun # {}
  BY DEF JobRaises, Event, LostRun
<1> QED BY <1>2, <1>3 DEF JobRaises

LEMMA TypeStep == TInv /\ [Next]_vars => TInv'
<1> SUFFICES ASSUME TInv, [Next]_vars PROVE TInv'
  OBVIOUS
<1>0. Workers \subseteq Callers /\ Client \in Callers /\ Client \notin Workers
  BY GoldenAssumption DEF Callers
<1> USE <1>0
<1>t. Types /\ \A c \in Callers : st[c] \in State /\ Ready(c, st[c], DOMAIN runs)
  BY DEF TInv, Types
<1>k. ASSUME UNCHANGED queue, DOMAIN runs \subseteq DOMAIN runs'
      PROVE  queue' \in Seq(Job) /\ \A k \in DOMAIN queue' : Known(queue'[k], DOMAIN runs')
  BY <1>k DEF TInv, Types, Known
<1>s. ASSUME UNCHANGED <<st, runs>>
      PROVE  /\ st' \in [Callers -> State]
             /\ \A c \in Callers : Ready(c, st'[c], DOMAIN runs')
  BY <1>s DEF TInv, Types
<1>1. ASSUME NEW ds \in Sets, SetGoldenSet(ds) PROVE TInv'
  BY <1>1, <1>t, <1>k, <1>s DEF SetGoldenSet, TInv, Types
<1>2. ASSUME NEW f \in Files, Upload(f) PROVE TInv'
  <2>1. IndexJob(f) \in Job /\ IndexJob(f).kind = "index"
    BY DEF IndexJob, Job
  <2>2. queue' = Append(queue, IndexJob(f)) /\ UNCHANGED runs
    BY <1>2 DEF Upload, IndexJob
  <2>3. queue' \in Seq(Job) /\ \A k \in DOMAIN queue' : Known(queue'[k], DOMAIN runs')
    BY <2>1, <2>2, ListAppend DEF TInv, Types, Known
  <2> QED BY <1>2, <1>t, <1>s, <2>3 DEF Upload, TInv, Types
<1>3. CASE Ask
  BY <1>3, <1>t, <1>k, <1>s DEF Ask, TInv, Types
<1>4. CASE RunGolden
  <2>1. CASE UNCHANGED st
    BY <1>4, <2>1, <1>t, <1>k, <1>s DEF RunGolden, TInv, Types
  <2>2. CASE /\ golden # None
             /\ st' = [st EXCEPT ![Client] = [Idle EXCEPT !.pc = "create", !.ds = golden]]
    <3> DEFINE s == [Idle EXCEPT !.pc = "create", !.ds = golden]
    <3>1. golden \in Sets /\ UNCHANGED runs
      BY <1>4, <1>t, <2>2 DEF RunGolden, Types
    <3>2. s \in State /\ Ready(Client, s, DOMAIN runs')
      BY <3>1 DEF Idle, State, Pc, Ready
    <3> HIDE DEF s
    <3>3. /\ st' \in [Callers -> State]
          /\ \A c \in Callers : Ready(c, st'[c], DOMAIN runs')
      BY <2>2, <3>1, <3>2, MoveKeeps DEF s
    <3> QED BY <1>4, <1>t, <1>k, <3>3 DEF RunGolden, TInv, Types
  <2> QED BY <1>4, <2>1, <2>2 DEF RunGolden
<1>5. ASSUME NEW c \in Callers, QueueRun(c) PROVE TInv'
  <2>1. CASE CreateRun(c)
    <3> DEFINE s == [st[c] EXCEPT !.pc = "enqueue", !.run = Len(runs')]
    <3>1. st[c].ds \in Sets
      BY <2>1, <1>t DEF CreateRun, Ready
    <3>2. NewRun(st[c].ds) \in Run
      BY <3>1 DEF NewRun, Run
    <3>3. /\ runs' \in Seq(Run) /\ Len(runs') \in Nat
          /\ DOMAIN runs \subseteq DOMAIN runs' /\ Len(runs') \in DOMAIN runs'
      BY <2>1, <3>2, <1>t, ListAppend DEF CreateRun, Types
    <3>4. st' = [st EXCEPT ![c] = s]
      BY <2>1, <1>t DEF CreateRun, Types
    <3>5. s \in State /\ Ready(c, s, DOMAIN runs')
      BY <2>1, <3>3, <1>t DEF CreateRun, State, Pc, Ready
    <3> HIDE DEF s
    <3>6. /\ st' \in [Callers -> State]
          /\ \A d \in Callers : Ready(d, st'[d], DOMAIN runs')
      BY <3>3, <3>4, <3>5, MoveKeeps
    <3> QED BY <2>1, <1>t, <1>k, <3>3, <3>6 DEF CreateRun, TInv, Types
  <2>2. ASSUME EnqueueRun(c) \/ EnqueueFails(c), DOMAIN runs \subseteq DOMAIN runs'
        PROVE  /\ st' \in [Callers -> State] /\ hooked' \subseteq Files
               /\ \A d \in Callers : Ready(d, st'[d], DOMAIN runs')
    <3>1. st' = [st EXCEPT ![c] = Idle] /\ st[c].pc = "enqueue"
      BY <2>2 DEF EnqueueRun, EnqueueFails, Answered
    <3>2. c # Client => st[c].job.id \in Files
      BY <3>1, <1>t DEF Ready, Job, Callers
    <3>3. hooked' \subseteq Files
      BY <2>2, <3>2, <1>t DEF EnqueueRun, EnqueueFails, Answered, Types
    <3> QED BY <2>2, <3>1, <3>3, IdleReady, MoveKeeps
  <2>3. CASE EnqueueRun(c)
    <3>1. st[c].run \in DOMAIN runs /\ st[c].run \in Nat
      BY <2>3, <1>t DEF EnqueueRun, Ready, State
    <3>2. JobOf(st[c].run) \in Job /\ Known(JobOf(st[c].run), DOMAIN runs)
      BY <3>1 DEF JobOf, Job, Known
    <3>3. queue' = Append(queue, JobOf(st[c].run)) /\ UNCHANGED runs
      BY <2>3 DEF EnqueueRun
    <3>4. queue' \in Seq(Job) /\ \A k \in DOMAIN queue' : Known(queue'[k], DOMAIN runs')
      BY <3>2, <3>3, ListAppend DEF TInv, Types
    <3> QED BY <2>2, <2>3, <3>4, <1>t DEF EnqueueRun, TInv, Types
  <2>4. CASE EnqueueFails(c)
    <3>1. st[c].run \in DOMAIN runs
      BY <2>4, <1>t DEF EnqueueFails, Ready
    <3>2. JobOf(st[c].run) \in Job /\ Known(JobOf(st[c].run), DOMAIN runs)
      BY <3>1, <1>t DEF JobOf, Job, Known, State
    <3>3. runs' \in Seq(Run) /\ DOMAIN runs' = DOMAIN runs
      BY <2>4, <3>1, <1>t, FailedRow, RowUpdate DEF EnqueueFails, Types
    <3>4. queue' = queue \/ queue' = Append(queue, JobOf(st[c].run))
      BY <2>4 DEF EnqueueFails
    <3>5. queue' \in Seq(Job) /\ \A k \in DOMAIN queue' : Known(queue'[k], DOMAIN runs')
      <4>1. CASE queue' = queue
        BY <4>1, <3>3, <1>k
      <4>2. CASE queue' = Append(queue, JobOf(st[c].run))
        BY <4>2, <3>2, <3>3, ListAppend DEF TInv, Types
      <4> QED BY <3>4, <4>1, <4>2
    <3> QED BY <2>2, <2>4, <3>3, <3>5, <1>t DEF EnqueueFails, TInv, Types
  <2> QED BY <1>5, <2>1, <2>3, <2>4 DEF QueueRun
<1>6. ASSUME NEW w \in Workers, WorkerStep(w) PROVE TInv'
  <2>1. CASE Dequeue(w)
    <3> DEFINE s == [Idle EXCEPT
                        !.pc = IF Head(queue).kind = "index" THEN "index" ELSE "start",
                        !.job = Head(queue)]
    <3>1. /\ queue' \in Seq(Job) /\ \A k \in DOMAIN queue' : Known(queue'[k], DOMAIN runs')
          /\ Head(queue) \in Job /\ Known(Head(queue), DOMAIN runs')
      BY <2>1, ListPop DEF Dequeue, TInv, Types
    <3>2. Head(queue).kind \in {"index", "rag_eval"}
      BY <3>1 DEF Job
    <3>3. s \in State /\ Ready(w, s, DOMAIN runs')
      BY <3>1, <3>2 DEF Idle, State, Pc, Ready, Known
    <3>4. st' = [st EXCEPT ![w] = s] /\ UNCHANGED runs
      BY <2>1 DEF Dequeue
    <3> HIDE DEF s
    <3>5. /\ st' \in [Callers -> State]
          /\ \A d \in Callers : Ready(d, st'[d], DOMAIN runs')
      BY <3>3, <3>4, MoveKeeps
    <3> QED BY <2>1, <3>1, <3>5, <1>t DEF Dequeue, TInv, Types
  <2>2. ASSUME NEW pc \in Pc, st' = [st EXCEPT ![w].pc = pc],
               Ready(w, [st[w] EXCEPT !.pc = pc], DOMAIN runs),
               DOMAIN runs' = DOMAIN runs
        PROVE  /\ st' \in [Callers -> State]
               /\ \A d \in Callers : Ready(d, st'[d], DOMAIN runs')
    <3> DEFINE s == [st[w] EXCEPT !.pc = pc]
    <3>1. s \in State /\ st' = [st EXCEPT ![w] = s]
      BY <2>2, <1>t DEF State, Types
    <3>2. Ready(w, s, DOMAIN runs')
      BY <2>2
    <3> HIDE DEF s
    <3> QED BY <2>2, <3>1, <3>2, MoveKeeps
  <2>3. ASSUME NEW ok \in BOOLEAN, IndexFile(w, ok) PROVE TInv'
    <3>1. st[w].pc = "index" /\ Ready(w, st[w], DOMAIN runs) /\ UNCHANGED runs
      BY <2>3, <1>t DEF IndexFile
    <3>2. st[w].job.id \in Files
      BY <3>1 DEF Ready, Job
    <3>3. Ready(w, [st[w] EXCEPT !.pc = "hook"], DOMAIN runs)
      BY <3>1, <1>t DEF Ready, State
    <3>4. /\ st' \in [Callers -> State]
          /\ \A d \in Callers : Ready(d, st'[d], DOMAIN runs')
      BY <2>2, <2>3, <3>1, <3>3 DEF IndexFile, Pc
    <3> QED BY <2>3, <3>2, <3>4, <1>t, <1>k DEF IndexFile, TInv, Types
  <2>4. CASE EnqueueAfterIndex(w)
    <3> DEFINE s == [st[w] EXCEPT !.pc = "create", !.ds = golden]
    <3>1. st[w].pc = "hook" /\ Ready(w, st[w], DOMAIN runs) /\ UNCHANGED runs
      BY <2>4, <1>t DEF EnqueueAfterIndex
    <3>2. st[w].job.id \in Files
      BY <3>1 DEF Ready, Job
    <3>3. \/ st' = [st EXCEPT ![w] = s] /\ golden # None
          \/ st' = [st EXCEPT ![w] = Idle]
      BY <2>4, <1>t DEF EnqueueAfterIndex, Types
    <3>4. golden # None => s \in State /\ Ready(w, s, DOMAIN runs')
      BY <3>1, <1>t DEF State, Pc, Ready, Types
    <3> HIDE DEF s
    <3>5. /\ st' \in [Callers -> State]
          /\ \A d \in Callers : Ready(d, st'[d], DOMAIN runs')
      BY <3>1, <3>3, <3>4, IdleReady, MoveKeeps
    <3> QED BY <2>4, <3>2, <3>5, <1>t, <1>k DEF EnqueueAfterIndex, TInv, Types
  <2>5. CASE StartRun(w)
    <3> DEFINE r == st[w].job.id
    <3>1. st[w].pc = "start" /\ Ready(w, st[w], DOMAIN runs)
      BY <2>5, <1>t DEF StartRun
    <3>2. r \in DOMAIN runs
      BY <3>1 DEF Ready
    <3>4. runs' \in Seq(Run) /\ DOMAIN runs' = DOMAIN runs
      BY <2>5, <3>2, <1>t, StartedRow, RowUpdate DEF StartRun, Types
    <3>5. Ready(w, [st[w] EXCEPT !.pc = "retrieve"], DOMAIN runs)
      BY <3>1, <1>t DEF Ready, State
    <3>6. /\ st' \in [Callers -> State]
          /\ \A d \in Callers : Ready(d, st'[d], DOMAIN runs')
      BY <2>2, <2>5, <3>4, <3>5 DEF StartRun, Pc
    <3> QED BY <2>5, <3>4, <3>6, <1>t, <1>k DEF StartRun, TInv, Types
  <2>6. ASSUME FailRun(w) \/ \E h \in Hits : FinishRun(w, h),
               runs' \in Seq(Run), DOMAIN runs' = DOMAIN runs
        PROVE  TInv'
    <3>1. /\ st[w].pc = "retrieve" /\ Ready(w, st[w], DOMAIN runs)
          /\ st' = [st EXCEPT ![w].pc = "report"]
          /\ UNCHANGED <<golden, uploaded, indexed, aged, queue, given, hooked>>
      BY <2>6, <1>t DEF FailRun, FinishRun, End
    <3>2. Ready(w, [st[w] EXCEPT !.pc = "report"], DOMAIN runs)
      BY <3>1, <1>t DEF Ready, State
    <3>3. /\ st' \in [Callers -> State]
          /\ \A d \in Callers : Ready(d, st'[d], DOMAIN runs')
      BY <2>2, <2>6, <3>1, <3>2 DEF Pc
    <3> QED BY <2>6, <3>1, <3>3, <1>t, <1>k DEF TInv, Types
  <2>7. CASE FailRun(w)
    <3>1. st[w].job.id \in DOMAIN runs
      BY <2>7, <1>t DEF FailRun, Ready
    <3>2. runs' \in Seq(Run) /\ DOMAIN runs' = DOMAIN runs
      BY <2>7, <3>1, <1>t, FailedRow, RowUpdate DEF FailRun, Types
    <3> QED BY <2>6, <2>7, <3>2
  <2>8. ASSUME NEW h \in Hits, FinishRun(w, h) PROVE TInv'
    <3>1. PICK x \in Run : runs' = [runs EXCEPT ![st[w].job.id] = x]
      BY <2>8, FinishEffect
    <3>2. st[w].job.id \in DOMAIN runs
      BY <2>8, FinishEffect
    <3> QED BY <2>6, <2>8, <3>1, <3>2, <1>t, RowUpdate DEF Types
  <2>9. CASE ReportRun(w)
    BY <2>9, <1>t, <1>k, IdleReady, MoveKeeps DEF ReportRun, TInv, Types
  <2> QED BY <1>6, <2>1, <2>3, <2>4, <2>5, <2>7, <2>8, <2>9 DEF WorkerStep
<1>7. CASE Age
  BY <1>7, <1>t, <1>k, <1>s, AgeType DEF Age, TInv, Types
<1>8. ASSUME NEW w \in Workers, Shutdown(w) PROVE TInv'
  <2>1. st[w].job \in Job /\ Known(st[w].job, DOMAIN runs)
    BY <1>8, <1>t DEF Shutdown, State, Pc, Ready, Known
  <2>2. queue' \in Seq(Job) /\ \A k \in DOMAIN queue' : Known(queue'[k], DOMAIN runs')
    BY <1>8, <2>1, ListPush DEF Shutdown, TInv, Types
  <2> QED BY <1>8, <2>2, <1>t, IdleReady, MoveKeeps DEF Shutdown, TInv, Types
<1>9. ASSUME NEW c \in Callers, Kill(c) PROVE TInv'
  BY <1>9, <1>t, <1>k, IdleReady, MoveKeeps DEF Kill, TInv, Types
<1>10. ASSUME NEW c \in Callers, QueueRunRaises(c) \/ EnqueueFailsTwice(c) PROVE TInv'
  <2>1. /\ st[c].pc \in {"hook", "create", "enqueue"} /\ st' = [st EXCEPT ![c] = Idle]
        /\ hooked' = IF c = Client THEN hooked ELSE hooked \cup {st[c].job.id}
        /\ UNCHANGED <<golden, uploaded, indexed, aged, queue>>
    BY <1>10, RaisedEffect
  <2>2. runs' = runs \/ \E x \in Run : runs' = Append(runs, x)
    BY <1>10, RaisedEffect
  <2>3. runs' \in Seq(Run) /\ DOMAIN runs \subseteq DOMAIN runs'
    <3>1. CASE runs' = runs
      BY <3>1, <1>t DEF Types
    <3>2. ASSUME NEW x \in Run, runs' = Append(runs, x)
          PROVE  runs' \in Seq(Run) /\ DOMAIN runs \subseteq DOMAIN runs'
      BY <3>2, <1>t, ListAppend DEF Types
    <3> QED BY <2>2, <3>1, <3>2
  <2>4. c # Client => st[c].job.id \in Files
    BY <2>1, <1>t DEF Ready, Job, Callers
  <2>5. hooked' \subseteq Files
    BY <2>1, <2>4, <1>t DEF Types
  <2>6. /\ st' \in [Callers -> State]
        /\ \A d \in Callers : Ready(d, st'[d], DOMAIN runs')
    BY <2>1, <2>3, IdleReady, MoveKeeps
  <2> QED BY <2>1, <2>3, <2>5, <2>6, <1>t, <1>k DEF TInv, Types
<1>11. ASSUME NEW w \in Workers, JobRaises(w) PROVE TInv'
  <2>1. /\ st' = [st EXCEPT ![w] = Idle]
        /\ UNCHANGED <<golden, uploaded, indexed, aged, queue, hooked>>
    BY <1>11, JobRaisesEffect
  <2>2. runs' \in Seq(Run) /\ DOMAIN runs' = DOMAIN runs
    BY <1>11, <1>t, JobRaisesEffect, RowUpdate DEF Types
  <2>3. /\ st' \in [Callers -> State]
        /\ \A d \in Callers : Ready(d, st'[d], DOMAIN runs')
    BY <2>1, <2>2, IdleReady, MoveKeeps
  <2> QED BY <2>1, <2>2, <2>3, <1>t, <1>k DEF TInv, Types
<1>12. CASE UNCHANGED vars
  BY <1>12, <1>t, <1>k, <1>s DEF vars, TInv, Types
<1> QED
  BY <1>1, <1>2, <1>3, <1>4, <1>5, <1>6, <1>7, <1>8, <1>9, <1>10, <1>11, <1>12 DEF Next

LEMMA TypeInvariance == Spec => []TInv
<1>1. Init => TInv
  BY DEF Init, TInv, Types, Idle, State, Pc, Ready
<1> QED BY <1>1, TypeStep, PTL DEF Spec

-----------------------------------------------------------------------------
(* Verdicts.                                                                *)

LEMMA JudgedStep == TInv /\ JudgedFairly /\ [Next]_vars => JudgedFairly'
<1> SUFFICES ASSUME TInv, JudgedFairly, [Next]_vars, NEW i \in DOMAIN runs',
                    runs'[i].status = "succeeded"
             PROVE  Judged(runs'[i])
  BY DEF JudgedFairly, Judged
<1>1. \A j \in DOMAIN runs : runs[j].status = "succeeded" => Judged(runs[j])
  BY DEF JudgedFairly, Judged
<1>2. runs \in Seq(Run) /\ \A c \in Callers : Ready(c, st[c], DOMAIN runs)
  BY DEF TInv, Types
<1>3. CASE UNCHANGED runs
  BY <1>1, <1>3
<1>4. ASSUME NEW r \in DOMAIN runs, NEW x \in Run, runs' = [runs EXCEPT ![r] = x],
             x.status = "succeeded" => Judged(x)
      PROVE  Judged(runs'[i])
  BY <1>1, <1>2, <1>4, RowUpdate
<1>5. ASSUME NEW c \in Callers, QueueRun(c) PROVE Judged(runs'[i])
  <2>1. CASE CreateRun(c)
    <3>1. /\ runs' = Append(runs, NewRun(st[c].ds))
          /\ NewRun(st[c].ds).status = "queued" /\ NewRun(st[c].ds) \in Run
      BY <2>1, <1>2 DEF CreateRun, NewRun, Ready, Run
    <3> QED BY <1>1, <1>2, <3>1, ListAppend
  <2>2. CASE EnqueueRun(c)
    BY <1>3, <2>2 DEF EnqueueRun
  <2>3. CASE EnqueueFails(c)
    <3>1. st[c].run \in DOMAIN runs
      BY <2>3, <1>2 DEF EnqueueFails, Ready
    <3>2. PICK x \in Run : runs' = [runs EXCEPT ![st[c].run] = x] /\ x.status = "failed"
      BY <2>3, <3>1, <1>2, FailedRow DEF EnqueueFails
    <3> QED BY <1>4, <3>1, <3>2
  <2> QED BY <1>5, <2>1, <2>2, <2>3 DEF QueueRun
<1>6. ASSUME NEW w \in Workers, WorkerStep(w) PROVE Judged(runs'[i])
  <2> DEFINE r == st[w].job.id
  <2>0. w \in Callers
    BY DEF Callers
  <2>1. CASE StartRun(w)
    <3>1. r \in DOMAIN runs /\ indexed \subseteq Files
      BY <2>0, <2>1, <1>2 DEF StartRun, Ready, TInv, Types
    <3>2. PICK x \in Run : runs' = [runs EXCEPT ![r] = x] /\ x.status = "running"
      BY <2>1, <3>1, <1>2, StartedRow DEF StartRun
    <3> QED BY <1>4, <3>1, <3>2
  <2>2. CASE FailRun(w)
    <3>1. r \in DOMAIN runs
      BY <2>0, <2>2, <1>2 DEF FailRun, Ready
    <3>2. PICK x \in Run : runs' = [runs EXCEPT ![r] = x] /\ x.status = "failed"
      BY <2>2, <3>1, <1>2, FailedRow DEF FailRun
    <3> QED BY <1>4, <3>1, <3>2
  <2>3. ASSUME NEW h \in Hits, FinishRun(w, h) PROVE Judged(runs'[i])
    BY <1>4, <2>3, FinishEffect
  <2>4. CASE \/ Dequeue(w) \/ (\E ok \in BOOLEAN : IndexFile(w, ok))
             \/ EnqueueAfterIndex(w) \/ ReportRun(w)
    BY <1>3, <2>4 DEF Dequeue, IndexFile, EnqueueAfterIndex, ReportRun
  <2> QED BY <1>6, <2>1, <2>2, <2>3, <2>4 DEF WorkerStep
<1>7. CASE \/ \E ds \in Sets : SetGoldenSet(ds)
           \/ \E f \in Files : Upload(f)
           \/ Ask \/ RunGolden \/ Age
           \/ \E w \in Workers : Shutdown(w)
           \/ \E c \in Callers : Kill(c)
           \/ UNCHANGED vars
  BY <1>3, <1>7 DEF SetGoldenSet, Upload, Ask, RunGolden, Age, Shutdown, Kill, vars
<1>8. ASSUME NEW c \in Callers, QueueRunRaises(c) \/ EnqueueFailsTwice(c)
      PROVE  Judged(runs'[i])
  <2>1. ASSUME NEW x \in Run, runs' = Append(runs, x), x.status = "queued"
        PROVE  Judged(runs'[i])
    BY <1>1, <1>2, <2>1, ListAppend
  <2> QED BY <1>3, <1>8, <2>1, RaisedEffect
<1>9. ASSUME NEW w \in Workers, JobRaises(w) PROVE Judged(runs'[i])
  BY <1>3, <1>4, <1>9, JobRaisesEffect
<1> QED BY <1>5, <1>6, <1>7, <1>8, <1>9 DEF Next

\* Whatever shutdowns, retries and golden sets interleave, a succeeded run was
\* compared only with runs of its own set; the rounding of recalls, median and
\* drop never flags a run that hit as many questions as every run of the window,
\* and always flags one that lost two, for every set size the code accepts.
THEOREM VerdictsFair == Spec => []JudgedFairly
<1>1. Init => JudgedFairly
  BY DEF Init, JudgedFairly
<1> QED BY <1>1, JudgedStep, TypeInvariance, PTL DEF Spec

-----------------------------------------------------------------------------
(* Queued runs.                                                             *)

OnList(q, j) == \E k \in DOMAIN q : q[k] = j

\* The job of run r exists and has not started.
Pending(r) ==
    \/ OnList(queue, JobOf(r))
    \/ \E w \in Workers : st[w].pc = "start" /\ st[w].job = JobOf(r)
    \/ \E c \in Callers : st[c].pc = "enqueue" /\ st[c].run = r

LEMMA JobOfInjective == \A r, t : JobOf(r) = JobOf(t) => r = t
BY DEF JobOf

\* Nothing is forgotten of the disturbances.
LEMMA FaultsGrow == [Next]_vars => faults \subseteq faults'
<1> USE DEF NoEvent, Event
<1>1. ASSUME NEW c \in Callers, QueueRun(c) PROVE faults \subseteq faults'
  BY <1>1 DEF QueueRun, CreateRun, EnqueueRun, EnqueueFails
<1>2. ASSUME NEW w \in Workers, WorkerStep(w) PROVE faults \subseteq faults'
  BY <1>2 DEF WorkerStep, Dequeue, IndexFile, EnqueueAfterIndex, StartRun, FailRun,
              FinishRun, ReportRun
<1>3. CASE \/ \E ds \in Sets : SetGoldenSet(ds)
           \/ \E f \in Files : Upload(f)
           \/ Ask \/ RunGolden \/ Age
           \/ \E w \in Workers : Shutdown(w)
           \/ \E c \in Callers : Kill(c)
           \/ UNCHANGED vars
  BY <1>3 DEF SetGoldenSet, Upload, Ask, RunGolden, Age, Shutdown, Kill, vars
<1>4. ASSUME NEW c \in Callers, QueueRunRaises(c) \/ EnqueueFailsTwice(c)
      PROVE  faults \subseteq faults'
  BY <1>4 DEF QueueRunRaises, EnqueueFailsTwice
<1>5. ASSUME NEW w \in Workers, JobRaises(w) PROVE faults \subseteq faults'
  BY <1>5 DEF JobRaises
<1> QED BY <1>1, <1>2, <1>3, <1>4, <1>5 DEF Next

\* Only queue_run makes a queued row, and rows are not deleted: what a step may do
\* to the runs table.
LEMMA RunsStep ==
  ASSUME TInv, [Next]_vars
  PROVE  /\ DOMAIN runs \subseteq DOMAIN runs'
         /\ \A i \in DOMAIN runs : runs'[i].status = "queued" => runs[i].status = "queued"
         /\ \A i \in DOMAIN runs' \ DOMAIN runs :
               \E c \in Callers : (CreateRun(c) \/ QueueRunRaises(c)) /\ i = Len(runs')
<1>1. runs \in Seq(Run) /\ indexed \subseteq Files
      /\ \A c \in Callers : Ready(c, st[c], DOMAIN runs)
  BY DEF TInv, Types
<1>2. CASE UNCHANGED runs
  BY <1>2
<1>3. ASSUME NEW r \in DOMAIN runs, NEW x \in Run, runs' = [runs EXCEPT ![r] = x],
             x.status # "queued"
      PROVE  /\ DOMAIN runs' = DOMAIN runs
             /\ \A i \in DOMAIN runs : runs'[i].status = "queued" => runs[i].status = "queued"
  BY <1>1, <1>3, RowUpdate
<1>4. ASSUME NEW c \in Callers, CreateRun(c)
      PROVE  /\ DOMAIN runs \subseteq DOMAIN runs'
             /\ \A i \in DOMAIN runs : runs'[i] = runs[i]
             /\ DOMAIN runs' \ DOMAIN runs = {Len(runs')}
  <2>1. NewRun(st[c].ds) \in Run
    BY <1>1, <1>4 DEF CreateRun, Ready, NewRun, Run
  <2> QED BY <1>1, <1>4, <2>1, ListAppend DEF CreateRun
<1>5. ASSUME NEW c \in Callers, EnqueueFails(c)
      PROVE  /\ DOMAIN runs' = DOMAIN runs
             /\ \A i \in DOMAIN runs : runs'[i].status = "queued" => runs[i].status = "queued"
  BY <1>1, <1>3, <1>5, FailedRow DEF EnqueueFails, Ready
<1>6. ASSUME NEW w \in Workers, StartRun(w) \/ FailRun(w) \/ \E h \in Hits : FinishRun(w, h)
      PROVE  /\ DOMAIN runs' = DOMAIN runs
             /\ \A i \in DOMAIN runs : runs'[i].status = "queued" => runs[i].status = "queued"
  <2>1. Ready(w, st[w], DOMAIN runs)
    BY <1>1 DEF Callers
  <2>2. CASE StartRun(w)
    <3>1. st[w].job.id \in DOMAIN runs
      BY <2>1, <2>2 DEF StartRun, Ready
    <3> QED BY <1>1, <1>3, <2>2, <3>1, StartedRow DEF StartRun
  <2>3. CASE FailRun(w)
    <3>1. st[w].job.id \in DOMAIN runs
      BY <2>1, <2>3 DEF FailRun, Ready
    <3> QED BY <1>1, <1>3, <2>3, <3>1, FailedRow DEF FailRun
  <2>4. ASSUME NEW h \in Hits, FinishRun(w, h)
        PROVE  /\ DOMAIN runs' = DOMAIN runs
               /\ \A i \in DOMAIN runs :
                     runs'[i].status = "queued" => runs[i].status = "queued"
    BY <1>3, <2>4, FinishEffect
  <2> QED BY <1>6, <2>2, <2>3, <2>4
<1>7. CASE \/ \E ds \in Sets : SetGoldenSet(ds)
           \/ \E f \in Files : Upload(f)
           \/ Ask \/ RunGolden \/ Age
           \/ \E w \in Workers : Shutdown(w)
           \/ \E c \in Callers : Kill(c) \/ EnqueueRun(c)
           \/ UNCHANGED vars
  BY <1>2, <1>7
  DEF SetGoldenSet, Upload, Ask, RunGolden, Age, Shutdown, Kill, EnqueueRun, vars
<1>8. ASSUME NEW w \in Workers,
             \/ Dequeue(w) \/ (\E ok \in BOOLEAN : IndexFile(w, ok))
             \/ EnqueueAfterIndex(w) \/ ReportRun(w)
      PROVE  UNCHANGED runs
  BY <1>8 DEF Dequeue, IndexFile, EnqueueAfterIndex, ReportRun
<1>9. ASSUME NEW c \in Callers, QueueRunRaises(c) \/ EnqueueFailsTwice(c), runs' # runs
      PROVE  /\ DOMAIN runs \subseteq DOMAIN runs'
             /\ \A i \in DOMAIN runs : runs'[i] = runs[i]
             /\ DOMAIN runs' \ DOMAIN runs = {Len(runs')} /\ QueueRunRaises(c)
  <2>1. PICK x \in Run : QueueRunRaises(c) /\ runs' = Append(runs, x)
    BY <1>9, RaisedEffect
  <2> QED BY <1>1, <2>1, ListAppend
<1>10. ASSUME NEW w \in Workers, JobRaises(w), runs' # runs
       PROVE  /\ DOMAIN runs' = DOMAIN runs
              /\ \A i \in DOMAIN runs : runs'[i].status = "queued" => runs[i].status = "queued"
  BY <1>3, <1>10, JobRaisesEffect
<1> QED
  BY <1>2, <1>4, <1>5, <1>6, <1>7, <1>8, <1>9, <1>10 DEF Next, QueueRun, WorkerStep

\* A pending job stays pending in every step that does not start or lose it.
LEMMA PendingStep ==
  ASSUME TInv, [Next]_vars, NEW r \in DOMAIN runs, Pending(r),
         runs'[r].status = "queued", faults' \cap LostRun = {}
  PROVE  Pending(r)'
<1>0. Workers \subseteq Callers /\ Client \in Callers /\ Client \notin Workers
  BY GoldenAssumption DEF Callers
<1>1. /\ queue \in Seq(Job) /\ st \in [Callers -> State] /\ runs \in Seq(Run)
      /\ indexed \subseteq Files
      /\ \A c \in Callers : Ready(c, st[c], DOMAIN runs)
  BY DEF TInv, Types
<1> USE <1>0, <1>1 DEF Pending
<1>2. CASE UNCHANGED <<queue, st>>
  BY <1>2
<1>3. ASSUME NEW j \in Job, queue' = Append(queue, j), OnList(queue, JobOf(r))
      PROVE  OnList(queue', JobOf(r))
  BY <1>3, ListAppend DEF OnList
<1>4. ASSUME NEW f \in Files, Upload(f) PROVE Pending(r)'
  <2>1. IndexJob(f) \in Job /\ queue' = Append(queue, IndexJob(f)) /\ UNCHANGED st
    BY <1>4 DEF Upload, IndexJob, Job
  <2> QED BY <1>3, <2>1
<1>5. CASE RunGolden
  BY <1>5 DEF RunGolden, Idle
<1>6. ASSUME NEW c \in Callers, QueueRun(c) PROVE Pending(r)'
  <2>1. CASE CreateRun(c)
    BY <2>1 DEF CreateRun
  <2>2. CASE EnqueueRun(c)
    <3>1. JobOf(st[c].run) \in Job
      BY DEF State, JobOf, Job
    <3>2. queue' = Append(queue, JobOf(st[c].run)) /\ st' = [st EXCEPT ![c] = Idle]
      BY <2>2 DEF EnqueueRun, Answered
    <3>3. OnList(queue', JobOf(st[c].run))
      BY <3>1, <3>2, ListAppend DEF OnList
    <3>4. CASE OnList(queue, JobOf(r))
      BY <1>3, <3>1, <3>2, <3>4
    <3>5. CASE \E w \in Workers : st[w].pc = "start" /\ st[w].job = JobOf(r)
      BY <2>2, <3>2, <3>5 DEF EnqueueRun
    <3>6. CASE \E d \in Callers : st[d].pc = "enqueue" /\ st[d].run = r
      BY <3>2, <3>3, <3>6
    <3> QED BY <3>4, <3>5, <3>6
  <2>3. CASE EnqueueFails(c)
    <3>1. /\ runs' = [runs EXCEPT ![st[c].run].status = "failed"]
          /\ st' = [st EXCEPT ![c] = Idle] /\ st[c].pc = "enqueue"
          /\ queue' = queue \/ queue' = Append(queue, JobOf(st[c].run))
      BY <2>3 DEF EnqueueFails, Answered
    <3>2. st[c].run \in DOMAIN runs /\ JobOf(st[c].run) \in Job
      BY <3>1 DEF Ready, State, JobOf, Job
    <3>3. runs'[st[c].run].status = "failed"
      <4>1. PICK x \in Run : /\ runs' = [runs EXCEPT ![st[c].run] = x]
                             /\ x.status = "failed"
        BY <3>1, <3>2, FailedRow
      <4> QED BY <3>2, <4>1, RowUpdate
    <3>4. r # st[c].run
      BY <3>3
    <3>5. OnList(queue, JobOf(r)) => OnList(queue', JobOf(r))
      BY <1>3, <3>1, <3>2
    <3> QED BY <3>1, <3>4, <3>5
  <2> QED BY <1>6, <2>1, <2>2, <2>3 DEF QueueRun
<1>7. ASSUME NEW w \in Workers, WorkerStep(w) PROVE Pending(r)'
  <2>1. CASE Dequeue(w)
    <3> DEFINE s == [Idle EXCEPT
                        !.pc = IF Head(queue).kind = "index" THEN "index" ELSE "start",
                        !.job = Head(queue)]
    <3>1. /\ queue # <<>> /\ queue' = Tail(queue) /\ st[w].pc = "idle"
          /\ st' = [st EXCEPT ![w] = s]
      BY <2>1 DEF Dequeue
    <3>2. CASE OnList(queue, JobOf(r))
      <4>1. Head(queue) = JobOf(r) \/ OnList(queue', JobOf(r))
        <5>1. PICK k \in DOMAIN queue : queue[k] = JobOf(r)
          BY <3>2 DEF OnList
        <5>2. k # 1 => k - 1 \in DOMAIN queue' /\ queue'[k - 1] = JobOf(r)
          BY <3>1, <5>1, ListPop
        <5> QED BY <3>1, <5>1, <5>2, ListPop DEF OnList
      <4>2. ASSUME Head(queue) = JobOf(r) PROVE st'[w].pc = "start" /\ st'[w].job = JobOf(r)
        <5>1. s.pc = "start" /\ s.job = JobOf(r)
          BY <4>2 DEF Idle, JobOf
        <5> QED BY <3>1, <5>1
      <4> QED BY <4>1, <4>2
    <3>3. CASE ~OnList(queue, JobOf(r))
      BY <3>1, <3>3
    <3> QED BY <3>2, <3>3
  <2>2. CASE StartRun(w)
    <3>1. /\ st[w].pc = "start" /\ UNCHANGED queue
          /\ st' = [st EXCEPT ![w].pc = "retrieve"]
          /\ runs' = [runs EXCEPT ![st[w].job.id].status = "running",
                                  ![st[w].job.id].saw = indexed]
      BY <2>2 DEF StartRun
    <3>2. st[w].job.id \in DOMAIN runs
      BY <3>1 DEF Ready
    <3>3. runs'[st[w].job.id].status = "running"
      <4>1. PICK x \in Run : /\ runs' = [runs EXCEPT ![st[w].job.id] = x]
                             /\ x.status = "running"
        BY <3>1, <3>2, StartedRow
      <4> QED BY <3>2, <4>1, RowUpdate
    <3>4. st[w].job # JobOf(r)
      BY <3>3 DEF JobOf
    <3> QED BY <3>1, <3>4
  <2>3. CASE (\E ok \in BOOLEAN : IndexFile(w, ok)) \/ EnqueueAfterIndex(w) \/ FailRun(w)
             \/ (\E h \in Hits : FinishRun(w, h)) \/ ReportRun(w)
    <3>1. /\ UNCHANGED queue /\ st[w].pc \notin {"start", "enqueue"}
          /\ \A d \in Callers \ {w} : st'[d] = st[d]
      BY <2>3 DEF IndexFile, EnqueueAfterIndex, FailRun, FinishRun, End, ReportRun
    <3> QED BY <3>1
  <2> QED BY <1>7, <2>1, <2>2, <2>3 DEF WorkerStep
<1>8. ASSUME NEW w \in Workers, Shutdown(w) PROVE Pending(r)'
  <2>1. /\ st[w].pc # "idle" /\ st[w].pc # "enqueue"
        /\ queue' = <<st[w].job>> \o queue /\ st' = [st EXCEPT ![w] = Idle]
    BY <1>8 DEF Shutdown, Event, LostRun
  <2>2. st[w].job \in Job
    BY <2>1 DEF Ready, State, Pc
  <2>3. /\ OnList(queue', st[w].job)
        /\ OnList(queue, JobOf(r)) => OnList(queue', JobOf(r))
    <3>1. queue'[1] = st[w].job /\ 1 \in DOMAIN queue'
      BY <2>1, <2>2, ListPush
    <3>2. \A k \in DOMAIN queue : k + 1 \in DOMAIN queue' /\ queue'[k + 1] = queue[k]
      BY <2>1, <2>2, ListPush
    <3> QED BY <3>1, <3>2 DEF OnList
  <2> QED BY <2>1, <2>3
<1>9. ASSUME NEW c \in Callers, Kill(c) PROVE FALSE
  BY <1>9 DEF Kill, Event, LostRun
<1>10. CASE (\E ds \in Sets : SetGoldenSet(ds)) \/ Ask \/ Age \/ UNCHANGED vars
  BY <1>2, <1>10 DEF SetGoldenSet, Ask, Age, vars
<1>11. ASSUME NEW c \in Callers, QueueRunRaises(c) \/ EnqueueFailsTwice(c) PROVE FALSE
  BY <1>11, RaisedEffect
<1>12. ASSUME NEW w \in Workers, JobRaises(w) PROVE Pending(r)'
  <2>1. /\ st[w].pc \in {"index", "retrieve"} /\ st' = [st EXCEPT ![w] = Idle]
        /\ UNCHANGED queue
    BY <1>12, JobRaisesEffect
  <2> QED BY <2>1
<1> QED BY <1>4, <1>5, <1>6, <1>7, <1>8, <1>9, <1>10, <1>11, <1>12 DEF Next

\* A run that is still queued has its job in the list, in a worker's hands or in
\* the coroutine about to push it, for any number of workers and runs, unless an
\* event of LostRun came: a kill, a stop between the commit and the push, Postgres
\* failing there, Redis and Postgres both failing there, or either of them failing
\* between the BLPOP and the commit of running.
THEOREM QueuedRunsRun == Spec => []QueuedHasJob
<1>1. Init => QueuedHasJob
  BY DEF Init, QueuedHasJob
<1>2. TInv /\ QueuedHasJob /\ [Next]_vars => QueuedHasJob'
  <2> SUFFICES ASSUME TInv, QueuedHasJob, [Next]_vars, NEW r \in DOMAIN runs',
                      runs'[r].status = "queued",
                      faults' \cap LostRun = {}
               PROVE  Pending(r)'
    BY DEF QueuedHasJob, Pending, OnList
  <2>1. CASE r \in DOMAIN runs
    <3>1. Pending(r)
      BY <2>1, FaultsGrow, RunsStep DEF QueuedHasJob, Pending, OnList
    <3> QED BY <2>1, <3>1, PendingStep
  <2>2. CASE r \notin DOMAIN runs
    <3>0. PICK c \in Callers : (CreateRun(c) \/ QueueRunRaises(c)) /\ r = Len(runs')
      BY <2>2, RunsStep
    <3>1. CreateRun(c) /\ r = Len(runs')
      BY <3>0, RaisedEffect
    <3>2. st'[c].pc = "enqueue" /\ st'[c].run = r
      BY <3>1 DEF CreateRun, TInv, Types, State
    <3> QED BY <3>2 DEF Pending
  <2> QED BY <2>1, <2>2
<1> QED BY <1>1, <1>2, TypeInvariance, PTL DEF Spec

-----------------------------------------------------------------------------
(* One place per job.                                                       *)

Distinct(q) == \A i, k \in DOMAIN q : q[i] = q[k] => i = k

\* RPUSH, LPUSH and BLPOP on a list without duplicates.
LEMMA PlaceAppend ==
  ASSUME NEW S, NEW q \in Seq(S), NEW x \in S, Distinct(q), ~OnList(q, x)
  PROVE  /\ Distinct(Append(q, x))
         /\ \A y : OnList(Append(q, x), y) => OnList(q, y) \/ y = x
BY ListAppend DEF Distinct, OnList

LEMMA PlacePush ==
  ASSUME NEW S, NEW q \in Seq(S), NEW x \in S, Distinct(q), ~OnList(q, x)
  PROVE  /\ Distinct(<<x>> \o q)
         /\ \A y : OnList(<<x>> \o q, y) => OnList(q, y) \/ y = x
<1> DEFINE p == <<x>> \o q
<1>1. /\ p \in Seq(S) /\ Len(p) = Len(q) + 1 /\ p[1] = x
      /\ \A i \in 2..Len(q) + 1 : p[i] = q[i - 1]
  BY ListPush
<1> HIDE DEF p
<1>2. \A i \in DOMAIN p : i = 1 \/ (i - 1 \in DOMAIN q /\ p[i] = q[i - 1])
  BY <1>1
<1>3. Distinct(p)
  BY <1>1, <1>2 DEF Distinct, OnList
<1>4. \A y : OnList(p, y) => OnList(q, y) \/ y = x
  BY <1>1, <1>2 DEF OnList
<1> QED BY <1>3, <1>4 DEF p

LEMMA PlacePop ==
  ASSUME NEW S, NEW q \in Seq(S), q # <<>>, Distinct(q)
  PROVE  /\ Head(q) \in S /\ OnList(q, Head(q)) /\ Distinct(Tail(q))
         /\ \A y : OnList(Tail(q), y) => OnList(q, y) /\ y # Head(q)
<1>1. /\ Tail(q) \in Seq(S) /\ Len(q) >= 1 /\ Len(Tail(q)) = Len(q) - 1
      /\ Head(q) = q[1] /\ Head(q) \in S
      /\ \A i \in 1..Len(Tail(q)) : Tail(q)[i] = q[i + 1]
  BY ListPop
<1>2. \A i \in DOMAIN Tail(q) : i + 1 \in DOMAIN q /\ Tail(q)[i] = q[i + 1] /\ i + 1 # 1
  BY <1>1
<1>3. Distinct(Tail(q))
  BY <1>1, <1>2 DEF Distinct
<1>4. \A y : OnList(Tail(q), y) => OnList(q, y) /\ y # Head(q)
  BY <1>1, <1>2 DEF Distinct, OnList
<1>5. OnList(q, Head(q))
  BY <1>1 DEF OnList
<1> QED BY <1>1, <1>3, <1>4, <1>5

\* A worker holds the job it popped; queue_run's caller holds the job it is about
\* to push.
Holds(c, j) ==
    \/ c \in Workers /\ st[c].pc # "idle" /\ st[c].job = j
    \/ st[c].pc = "enqueue" /\ JobOf(st[c].run) = j

\* A job of either kind is in one place, and the job of a file that went through
\* the hook is in none.
PInv ==
    /\ Distinct(queue)
    /\ hooked \subseteq uploaded
    /\ \A c \in Callers, j \in Job : Holds(c, j) =>
          ~OnList(queue, j) /\ \A d \in Callers : Holds(d, j) => d = c
    /\ \A f \in Files :
          (OnList(queue, IndexJob(f)) \/ \E c \in Callers : Holds(c, IndexJob(f)))
              => f \in uploaded /\ f \notin hooked

LEMMA PlaceFrame ==
  ASSUME PInv, UNCHANGED <<queue, hooked>>, uploaded \subseteq uploaded',
         \A c \in Callers, j \in Job : Holds(c, j)' => Holds(c, j)
  PROVE  PInv'
<1>1. \A f \in Files : IndexJob(f) \in Job
  BY DEF IndexJob, Job
<1>2. Distinct(queue') /\ hooked' \subseteq uploaded'
  BY DEF PInv, Distinct
<1>3. \A j : OnList(queue', j) <=> OnList(queue, j)
  BY DEF OnList
<1>4. \A c \in Callers, j \in Job : Holds(c, j)' =>
          ~OnList(queue', j) /\ \A d \in Callers : Holds(d, j)' => d = c
  BY <1>3 DEF PInv
<1>5. \A f \in Files :
          (OnList(queue', IndexJob(f)) \/ \E c \in Callers : Holds(c, IndexJob(f))')
              => f \in uploaded' /\ f \notin hooked'
  BY <1>1, <1>3 DEF PInv
<1> QED BY <1>2, <1>4, <1>5 DEF PInv

LEMMA KindsDiffer ==
  /\ \A f, r : IndexJob(f) # JobOf(r)
  /\ \A f, g : IndexJob(f) = IndexJob(g) => f = g
  /\ \A j \in Job : j.kind = "index" => j.id \in Files /\ j = IndexJob(j.id)
BY DEF IndexJob, JobOf, Job

LEMMA PlaceStep == TInv /\ PInv /\ [Next]_vars => PInv'
<1> SUFFICES ASSUME TInv, PInv, [Next]_vars PROVE PInv'
  OBVIOUS
<1>0. Workers \subseteq Callers /\ Client \in Callers /\ Client \notin Workers
  BY GoldenAssumption DEF Callers
<1>1. /\ queue \in Seq(Job) /\ st \in [Callers -> State] /\ runs \in Seq(Run)
      /\ \A c \in Callers : st[c] \in State /\ Ready(c, st[c], DOMAIN runs)
      /\ \A k \in DOMAIN queue : Known(queue[k], DOMAIN runs)
  BY DEF TInv, Types
<1>2. /\ \A f \in Files : IndexJob(f) \in Job
      /\ \A r \in Nat : JobOf(r) \in Job
  BY DEF IndexJob, JobOf, Job
<1> USE <1>0, <1>1, <1>2
<1>3. ASSUME NEW f \in Files, Upload(f) PROVE PInv'
  <2> DEFINE j == IndexJob(f)
  <2>1. /\ f \notin uploaded /\ uploaded' = uploaded \cup {f}
        /\ queue' = Append(queue, j) /\ UNCHANGED <<st, hooked>>
    BY <1>3 DEF Upload, IndexJob
  <2>2. ~OnList(queue, j) /\ \A c \in Callers : ~Holds(c, j)
    BY <2>1 DEF PInv
  <2>3. f \notin hooked
    BY <2>1 DEF PInv
  <2>4. /\ Distinct(queue')
        /\ \A y : OnList(queue', y) => OnList(queue, y) \/ y = j
    BY <2>1, <2>2, PlaceAppend DEF PInv
  <2>5. \A c \in Callers, y \in Job : Holds(c, y)' <=> Holds(c, y)
    BY <2>1 DEF Holds
  <2>6. \A c \in Callers, y \in Job : Holds(c, y)' =>
            ~OnList(queue', y) /\ \A d \in Callers : Holds(d, y)' => d = c
    BY <2>2, <2>4, <2>5 DEF PInv
  <2>7. \A g \in Files :
            (OnList(queue', IndexJob(g)) \/ \E c \in Callers : Holds(c, IndexJob(g))')
                => g \in uploaded' /\ g \notin hooked'
    BY <2>1, <2>3, <2>4, <2>5, KindsDiffer DEF PInv
  <2> QED BY <2>1, <2>4, <2>6, <2>7 DEF PInv
<1>4. ASSUME NEW c \in Callers, CreateRun(c) PROVE PInv'
  <2> DEFINE r == Len(runs')
             s == [st[c] EXCEPT !.pc = "enqueue", !.run = r]
  <2>1. NewRun(st[c].ds) \in Run
    BY <1>4 DEF CreateRun, Ready, NewRun, Run
  <2>2. r \in Nat /\ r \notin DOMAIN runs
    BY <1>4, <2>1, ListAppend DEF CreateRun
  <2>3. st' = [st EXCEPT ![c] = s] /\ st[c].pc = "create" /\ UNCHANGED <<queue, uploaded, hooked>>
    BY <1>4 DEF CreateRun
  <2>4. s.pc = "enqueue" /\ s.run = r /\ s.job = st[c].job
    BY DEF State
  <2> HIDE DEF s, r
  <2>5. \A d \in Callers, y \in Job : Holds(d, y)' => Holds(d, y) \/ (d = c /\ y = JobOf(r))
    BY <2>3, <2>4 DEF Holds
  <2>6. ~OnList(queue, JobOf(r)) /\ \A d \in Callers : ~Holds(d, JobOf(r))
    <3>1. JobOf(r).kind = "rag_eval" /\ JobOf(r).id = r
      BY DEF JobOf
    <3>2. ~OnList(queue, JobOf(r))
      BY <2>2, <3>1 DEF OnList, Known
    <3>3. ASSUME NEW d \in Callers, Holds(d, JobOf(r)) PROVE FALSE
      <4>1. st[d].pc = "enqueue" => st[d].run # r
        BY <2>2 DEF Ready
      <4>2. st[d].pc # "enqueue" \/ JobOf(st[d].run) # JobOf(r)
        BY <4>1, JobOfInjective
      <4>3. d \in Workers /\ st[d].pc # "idle" /\ st[d].job = JobOf(r)
        BY <3>3, <4>2 DEF Holds
      <4> QED BY <2>2, <3>1, <4>3 DEF Ready, State, Pc
    <3> QED BY <3>2, <3>3
  <2>7. \A d \in Callers, y \in Job : Holds(d, y)' =>
            ~OnList(queue', y) /\ \A e \in Callers : Holds(e, y)' => e = d
    BY <2>3, <2>5, <2>6 DEF PInv
  <2>8. \A g \in Files :
            (OnList(queue', IndexJob(g)) \/ \E d \in Callers : Holds(d, IndexJob(g))')
                => g \in uploaded' /\ g \notin hooked'
    BY <2>3, <2>5, KindsDiffer DEF PInv
  <2> QED BY <2>3, <2>7, <2>8 DEF PInv
<1>5. ASSUME NEW c \in Callers,
             EnqueueRun(c) \/ EnqueueFails(c) \/ EnqueueFailsTwice(c)
      PROVE  PInv'
  <2> DEFINE j == JobOf(st[c].run)
  <2>1. /\ st[c].pc = "enqueue" /\ st' = [st EXCEPT ![c] = Idle] /\ UNCHANGED uploaded
        /\ hooked' = IF c = Client THEN hooked ELSE hooked \cup {st[c].job.id}
        /\ queue' = Append(queue, j) \/ UNCHANGED queue
    BY <1>5 DEF EnqueueRun, EnqueueFails, EnqueueFailsTwice, Answered, Raised
  <2>2. j \in Job /\ Holds(c, j)
    BY <2>1 DEF State, Holds
  <2>3. ~OnList(queue, j) /\ \A d \in Callers : Holds(d, j) => d = c
    BY <2>2 DEF PInv
  <2>4. \A d \in Callers, y \in Job : Holds(d, y)' => Holds(d, y) /\ d # c
    BY <2>1 DEF Holds, Idle
  <2>5. /\ Distinct(queue')
        /\ \A y : OnList(queue', y) => OnList(queue, y) \/ y = j
    <3>1. CASE UNCHANGED queue
      BY <3>1 DEF PInv, Distinct, OnList
    <3>2. CASE queue' = Append(queue, j)
      <4> HIDE DEF j
      <4> QED BY <2>2, <2>3, <3>2, PlaceAppend DEF PInv
    <3> QED BY <2>1, <3>1, <3>2
  <2>6. \A d \in Callers, y \in Job : Holds(d, y)' =>
            ~OnList(queue', y) /\ \A e \in Callers : Holds(e, y)' => e = d
    BY <2>3, <2>4, <2>5 DEF PInv
  <2>7. c # Client =>
            /\ st[c].job.id \in Files /\ st[c].job.id \in uploaded
            /\ Holds(c, IndexJob(st[c].job.id))
    <3> HAVE c # Client
    <3>1. c \in Workers /\ st[c].job \in Job /\ st[c].job.kind = "index"
      BY <2>1 DEF Callers, Ready
    <3>2. st[c].job.id \in Files /\ st[c].job = IndexJob(st[c].job.id)
      BY <3>1, KindsDiffer
    <3>3. Holds(c, IndexJob(st[c].job.id))
      BY <2>1, <3>1, <3>2 DEF Holds
    <3> QED BY <3>2, <3>3 DEF PInv
  <2>8. ASSUME NEW g \in Files,
               OnList(queue', IndexJob(g)) \/ \E d \in Callers : Holds(d, IndexJob(g))'
        PROVE  g \in uploaded' /\ g \notin hooked'
    <3>1. OnList(queue, IndexJob(g)) \/ \E d \in Callers : Holds(d, IndexJob(g)) /\ d # c
      BY <2>4, <2>5, <2>8, KindsDiffer
    <3>2. g \in uploaded /\ g \notin hooked
      BY <3>1 DEF PInv
    <3>3. c # Client => g # st[c].job.id
      BY <2>7, <3>1 DEF PInv
    <3> QED BY <2>1, <3>2, <3>3
  <2>9. hooked' \subseteq uploaded'
    BY <2>1, <2>7 DEF PInv
  <2> QED BY <2>5, <2>6, <2>8, <2>9 DEF PInv
<1>6. ASSUME NEW w \in Workers, Dequeue(w) PROVE PInv'
  <2> DEFINE s == [Idle EXCEPT
                      !.pc = IF Head(queue).kind = "index" THEN "index" ELSE "start",
                      !.job = Head(queue)]
  <2>1. /\ queue # <<>> /\ queue' = Tail(queue) /\ st[w].pc = "idle"
        /\ st' = [st EXCEPT ![w] = s] /\ UNCHANGED <<uploaded, hooked>>
    BY <1>6 DEF Dequeue
  <2>2. /\ Head(queue) \in Job /\ OnList(queue, Head(queue)) /\ Distinct(queue')
        /\ \A y : OnList(queue', y) => OnList(queue, y) /\ y # Head(queue)
    BY <2>1, PlacePop DEF PInv
  <2>3. s.pc # "enqueue" /\ s.job = Head(queue)
    BY DEF Idle
  <2> HIDE DEF s
  <2>4. \A d \in Callers, y \in Job :
            Holds(d, y)' => Holds(d, y) \/ (d = w /\ y = Head(queue))
    BY <2>1, <2>3 DEF Holds
  <2>5. \A d \in Callers, y \in Job : Holds(d, y)' =>
            ~OnList(queue', y) /\ \A e \in Callers : Holds(e, y)' => e = d
    BY <2>2, <2>4 DEF PInv
  <2>6. \A g \in Files :
            (OnList(queue', IndexJob(g)) \/ \E d \in Callers : Holds(d, IndexJob(g))')
                => g \in uploaded' /\ g \notin hooked'
    BY <2>1, <2>2, <2>4 DEF PInv
  <2> QED BY <2>1, <2>2, <2>5, <2>6 DEF PInv
<1>7. ASSUME NEW w \in Workers, EnqueueAfterIndex(w) \/ QueueRunRaises(w) PROVE PInv'
  <2> DEFINE f == st[w].job.id
  <2>1. /\ st[w].pc \in {"hook", "create"} /\ UNCHANGED <<queue, uploaded>>
        /\ \A d \in Callers \ {w} : st'[d] = st[d]
        /\ \/ hooked' = hooked /\ st'[w].pc = "create" /\ st'[w].job = st[w].job
           \/ hooked' \subseteq hooked \cup {f} /\ st'[w] = Idle
    <3>1. CASE EnqueueAfterIndex(w)
      BY <3>1 DEF EnqueueAfterIndex, State
    <3>2. CASE QueueRunRaises(w)
      BY <3>2 DEF QueueRunRaises, Raised
    <3> QED BY <1>7, <3>1, <3>2
  <2>2. f \in Files /\ st[w].job = IndexJob(f) /\ Holds(w, IndexJob(f)) /\ f \in uploaded
    <3>1. st[w].job \in Job /\ st[w].job.kind = "index"
      BY <2>1 DEF Ready
    <3>2. f \in Files /\ st[w].job = IndexJob(f)
      BY <3>1, KindsDiffer
    <3>3. Holds(w, IndexJob(f))
      BY <2>1, <3>2 DEF Holds
    <3> QED BY <3>2, <3>3 DEF PInv
  <2>3. CASE hooked' = hooked /\ st'[w].pc = "create" /\ st'[w].job = st[w].job
    <3>1. \A d \in Callers, y \in Job : Holds(d, y)' => Holds(d, y)
      BY <2>1, <2>3 DEF Holds
    <3> QED BY <2>1, <2>3, <3>1, PlaceFrame
  <2>4. CASE hooked' \subseteq hooked \cup {f} /\ st'[w] = Idle
    <3>1. \A d \in Callers, y \in Job : Holds(d, y)' => Holds(d, y) /\ d # w
      BY <2>1, <2>4 DEF Holds, Idle
    <3>2. \A d \in Callers, y \in Job : Holds(d, y)' =>
              ~OnList(queue', y) /\ \A e \in Callers : Holds(e, y)' => e = d
      BY <2>1, <3>1 DEF PInv
    <3>3. ASSUME NEW g \in Files,
                 OnList(queue', IndexJob(g)) \/ \E d \in Callers : Holds(d, IndexJob(g))'
          PROVE  g \in uploaded' /\ g \notin hooked'
      <4>1. OnList(queue, IndexJob(g)) \/ \E d \in Callers : Holds(d, IndexJob(g)) /\ d # w
        BY <2>1, <3>1, <3>3
      <4>2. g # f /\ g \in uploaded /\ g \notin hooked
        BY <2>2, <4>1 DEF PInv
      <4> QED BY <2>1, <2>4, <4>2
    <3>4. Distinct(queue') /\ hooked' \subseteq uploaded'
      BY <2>1, <2>2, <2>4 DEF PInv
    <3> QED BY <3>2, <3>3, <3>4 DEF PInv
  <2> QED BY <2>1, <2>3, <2>4
<1>8. ASSUME NEW w \in Workers, Shutdown(w) PROVE PInv'
  <2> DEFINE j == st[w].job
  <2>1. /\ st[w].pc # "idle" /\ queue' = <<j>> \o queue /\ st' = [st EXCEPT ![w] = Idle]
        /\ UNCHANGED <<uploaded, hooked>>
    BY <1>8 DEF Shutdown
  <2>2. j \in Job /\ Holds(w, j)
    BY <2>1 DEF Ready, State, Pc, Holds
  <2>3. ~OnList(queue, j)
    BY <2>2 DEF PInv
  <2>4. /\ Distinct(queue')
        /\ \A y : OnList(queue', y) => OnList(queue, y) \/ y = j
    BY <2>1, <2>2, <2>3, PlacePush DEF PInv
  <2>5. \A d \in Callers, y \in Job : Holds(d, y)' => Holds(d, y) /\ d # w
    BY <2>1 DEF Holds, Idle
  <2>6. \A d \in Callers, y \in Job : Holds(d, y)' =>
            ~OnList(queue', y) /\ \A e \in Callers : Holds(e, y)' => e = d
    BY <2>2, <2>4, <2>5 DEF PInv
  <2>7. \A g \in Files :
            (OnList(queue', IndexJob(g)) \/ \E d \in Callers : Holds(d, IndexJob(g))')
                => g \in uploaded' /\ g \notin hooked'
    BY <2>1, <2>2, <2>4, <2>5 DEF PInv
  <2> QED BY <2>1, <2>4, <2>6, <2>7 DEF PInv
<1>9. ASSUME NEW w \in Workers,
             \/ \E ok \in BOOLEAN : IndexFile(w, ok)
             \/ StartRun(w) \/ FailRun(w) \/ \E h \in Hits : FinishRun(w, h)
             \/ ReportRun(w) \/ JobRaises(w)
      PROVE  PInv'
  <2>1. /\ UNCHANGED <<queue, hooked, uploaded>> /\ st[w].pc # "idle"
        /\ \A d \in Callers \ {w} : st'[d] = st[d]
        /\ st'[w].pc = "idle" \/ (st'[w].job = st[w].job /\ st'[w].pc # "enqueue")
    <3>1. CASE ReportRun(w)
      BY <3>1 DEF ReportRun, Idle
    <3>2. CASE \E ok \in BOOLEAN : IndexFile(w, ok)
      BY <3>2 DEF IndexFile, State
    <3>3. CASE StartRun(w)
      BY <3>3 DEF StartRun, State
    <3>4. CASE FailRun(w) \/ \E h \in Hits : FinishRun(w, h)
      <4>1. /\ UNCHANGED <<queue, hooked, uploaded>> /\ st[w].pc = "retrieve"
            /\ st' = [st EXCEPT ![w].pc = "report"]
        BY <3>4 DEF FailRun, FinishRun, End
      <4> QED BY <4>1 DEF State
    <3>5. CASE JobRaises(w)
      BY <3>5, JobRaisesEffect DEF Idle
    <3> QED BY <1>9, <3>1, <3>2, <3>3, <3>4, <3>5
  <2>2. \A d \in Callers, y \in Job : Holds(d, y)' => Holds(d, y)
    BY <2>1 DEF Holds
  <2> QED BY <2>1, <2>2, PlaceFrame
<1>10. CASE \/ \E ds \in Sets : SetGoldenSet(ds)
            \/ Ask \/ RunGolden \/ Age \/ QueueRunRaises(Client)
            \/ \E c \in Callers : Kill(c)
            \/ UNCHANGED vars
  <2>1. /\ UNCHANGED <<queue, hooked, uploaded>>
        /\ \A d \in Callers : \/ st'[d] = st[d]
                              \/ st'[d].pc = "idle"
                              \/ d = Client /\ st'[d].pc = "create"
    <3>1. CASE RunGolden
      BY <3>1 DEF RunGolden, Idle
    <3>2. ASSUME NEW c \in Callers, Kill(c)
          PROVE  /\ UNCHANGED <<queue, hooked, uploaded>>
                 /\ \A d \in Callers : st'[d] = st[d] \/ st'[d].pc = "idle"
      BY <3>2 DEF Kill, Idle
    <3>3. CASE (\E ds \in Sets : SetGoldenSet(ds)) \/ Ask \/ Age \/ UNCHANGED vars
      BY <3>3 DEF SetGoldenSet, Ask, Age, vars
    <3>4. CASE QueueRunRaises(Client)
      BY <3>4 DEF QueueRunRaises, Raised, Idle
    <3> QED BY <1>10, <3>1, <3>2, <3>3, <3>4
  <2>2. \A d \in Callers, y \in Job : Holds(d, y)' => Holds(d, y)
    BY <2>1 DEF Holds
  <2> QED BY <2>1, <2>2, PlaceFrame
<1>11. ASSUME NEW c \in Callers, QueueRunRaises(c) PROVE PInv'
  BY <1>7, <1>10, <1>11 DEF Callers
<1> QED
  BY <1>3, <1>4, <1>5, <1>6, <1>7, <1>8, <1>9, <1>10, <1>11 DEF Next, QueueRun, WorkerStep

-----------------------------------------------------------------------------
(* The hook.                                                                *)

\* A run about to be pushed has not started, for its job is in nobody's hands; a
\* run being retrieved has.
StatusInv ==
    /\ \A c \in Callers : st[c].pc = "enqueue" => runs[st[c].run].status = "queued"
    /\ \A w \in Workers : st[w].pc = "retrieve" => runs[st[w].job.id].status # "queued"

\* A step's effect on a row other than the one it is about is none.
LEMMA OtherRows ==
  ASSUME TInv, [Next]_vars, NEW r \in DOMAIN runs, runs'[r] # runs[r]
  PROVE  \/ \E c \in Callers : EnqueueFails(c) /\ st[c].run = r
         \/ \E w \in Workers :
               /\ \/ StartRun(w) \/ FailRun(w) \/ \E h \in Hits : FinishRun(w, h)
                  \/ JobRaises(w) /\ st[w].pc = "start"
               /\ st[w].job = JobOf(r)
<1>1. /\ runs \in Seq(Run) /\ indexed \subseteq Files /\ Workers \subseteq Callers
      /\ \A c \in Callers : Ready(c, st[c], DOMAIN runs)
  BY DEF TInv, Types, Callers
<1>2. ASSUME NEW c \in Callers, CreateRun(c) PROVE FALSE
  <2>1. NewRun(st[c].ds) \in Run
    BY <1>1, <1>2 DEF CreateRun, Ready, NewRun, Run
  <2> QED BY <1>1, <1>2, <2>1, ListAppend DEF CreateRun
<1>3. ASSUME NEW c \in Callers, EnqueueFails(c) PROVE st[c].run = r
  <2>1. st[c].run \in DOMAIN runs
    BY <1>1, <1>3 DEF EnqueueFails, Ready
  <2> QED BY <1>1, <1>3, <2>1, FailedRow, RowUpdate DEF EnqueueFails
<1>4. ASSUME NEW w \in Workers, StartRun(w) \/ FailRun(w) \/ \E h \in Hits : FinishRun(w, h)
      PROVE  st[w].job = JobOf(r)
  <2>1. st[w].pc \in {"start", "retrieve"}
    BY <1>4 DEF StartRun, FailRun, FinishRun
  <2>2. /\ st[w].job.id \in DOMAIN runs /\ st[w].job = JobOf(st[w].job.id)
    BY <1>1, <2>1 DEF Ready, Job, JobOf
  <2>3. PICK x \in Run : runs' = [runs EXCEPT ![st[w].job.id] = x]
    <3>1. CASE StartRun(w)
      BY <1>1, <2>2, <3>1, StartedRow DEF StartRun
    <3>2. CASE FailRun(w)
      BY <1>1, <2>2, <3>2, FailedRow DEF FailRun
    <3>3. CASE \E h \in Hits : FinishRun(w, h)
      BY <3>3, FinishEffect
    <3> QED BY <1>4, <3>1, <3>2, <3>3
  <2> QED BY <1>1, <2>2, <2>3, RowUpdate
<1>5. ASSUME NEW w \in Workers,
             \/ Dequeue(w) \/ (\E ok \in BOOLEAN : IndexFile(w, ok))
             \/ EnqueueAfterIndex(w) \/ ReportRun(w)
      PROVE  FALSE
  BY <1>5 DEF Dequeue, IndexFile, EnqueueAfterIndex, ReportRun
<1>6. CASE \/ \E ds \in Sets : SetGoldenSet(ds)
           \/ \E f \in Files : Upload(f)
           \/ Ask \/ RunGolden \/ Age
           \/ \E w \in Workers : Shutdown(w)
           \/ \E c \in Callers : Kill(c) \/ EnqueueRun(c)
           \/ UNCHANGED vars
  BY <1>6 DEF SetGoldenSet, Upload, Ask, RunGolden, Age, Shutdown, Kill, EnqueueRun, vars
<1>7. ASSUME NEW c \in Callers, QueueRunRaises(c) \/ EnqueueFailsTwice(c) PROVE FALSE
  BY <1>1, <1>7, RaisedEffect, ListAppend
<1>8. ASSUME NEW w \in Workers, JobRaises(w)
      PROVE  st[w].pc = "start" /\ st[w].job = JobOf(r)
  <2>1. PICK x \in Run : /\ st[w].pc = "start" /\ st[w].job.id \in DOMAIN runs
                         /\ runs' = [runs EXCEPT ![st[w].job.id] = x]
    BY <1>8, JobRaisesEffect
  <2>2. st[w].job = JobOf(st[w].job.id)
    BY <1>1, <2>1 DEF Ready, Job, JobOf
  <2> QED BY <1>1, <2>1, <2>2, RowUpdate
<1> QED BY <1>2, <1>3, <1>4, <1>5, <1>6, <1>7, <1>8 DEF Next, QueueRun, WorkerStep

\* How a coroutine gets to the push of a run, and to its retrieval.
LEMMA Arrivals ==
  ASSUME TInv, [Next]_vars, NEW c \in Callers
  PROVE  /\ st'[c].pc = "enqueue" => CreateRun(c) \/ st'[c] = st[c]
         /\ st'[c].pc = "retrieve" => (c \in Workers /\ StartRun(c)) \/ st'[c] = st[c]
<1>0. /\ Workers \subseteq Callers /\ Client \in Callers
      /\ st \in [Callers -> State] /\ \A d \in Callers : st[d] \in State
  BY DEF Callers, TInv, Types
<1> USE <1>0
<1>1. ASSUME NEW d \in Callers, QueueRun(d)
      PROVE  st'[c] = st[c] \/ (d = c /\ CreateRun(c) /\ st'[c].pc = "enqueue")
                \/ st'[c].pc = "idle"
  <2>1. CASE CreateRun(d)
    BY <2>1 DEF CreateRun, State
  <2>2. CASE EnqueueRun(d) \/ EnqueueFails(d)
    <3>1. st' = [st EXCEPT ![d] = Idle]
      BY <2>2 DEF EnqueueRun, EnqueueFails, Answered
    <3> QED BY <3>1 DEF Idle
  <2> QED BY <1>1, <2>1, <2>2 DEF QueueRun
<1>2. ASSUME NEW w \in Workers, WorkerStep(w)
      PROVE  \/ st'[c] = st[c]
             \/ w = c /\ StartRun(c) /\ st'[c].pc = "retrieve"
             \/ st'[c].pc \notin {"enqueue", "retrieve"}
  <2>1. CASE Dequeue(w)
    BY <2>1 DEF Dequeue, Idle
  <2>2. CASE \E ok \in BOOLEAN : IndexFile(w, ok)
    BY <2>2 DEF IndexFile, State
  <2>3. CASE EnqueueAfterIndex(w)
    BY <2>3 DEF EnqueueAfterIndex, Idle, State
  <2>4. CASE StartRun(w)
    <3>1. st' = [st EXCEPT ![w].pc = "retrieve"]
      BY <2>4 DEF StartRun
    <3>2. \/ w # c /\ st'[c] = st[c]
          \/ w = c /\ st'[c].pc = "retrieve"
      BY <3>1 DEF State
    <3> QED BY <2>4, <3>2
  <2>5. CASE FailRun(w) \/ \E h \in Hits : FinishRun(w, h)
    <3>1. st' = [st EXCEPT ![w].pc = "report"]
      BY <2>5 DEF FailRun, FinishRun, End
    <3> QED BY <3>1 DEF State
  <2>6. CASE ReportRun(w)
    BY <2>6 DEF ReportRun, Idle
  <2> QED BY <1>2, <2>1, <2>2, <2>3, <2>4, <2>5, <2>6 DEF WorkerStep
<1>3. CASE RunGolden
  BY <1>3 DEF RunGolden, Idle
<1>4. ASSUME NEW d \in Callers,
             \/ Kill(d) \/ QueueRunRaises(d) \/ EnqueueFailsTwice(d)
             \/ d \in Workers /\ (Shutdown(d) \/ JobRaises(d))
      PROVE  st'[c] = st[c] \/ st'[c].pc = "idle"
  <2>1. st' = [st EXCEPT ![d] = Idle]
    BY <1>4 DEF Shutdown, Kill, QueueRunRaises, EnqueueFailsTwice, Raised, JobRaises
  <2> QED BY <2>1 DEF Idle
<1>5. CASE \/ \E ds \in Sets : SetGoldenSet(ds)
           \/ \E f \in Files : Upload(f)
           \/ Ask \/ Age \/ UNCHANGED vars
  BY <1>5 DEF SetGoldenSet, Upload, Ask, Age, vars
<1> QED BY <1>1, <1>2, <1>3, <1>4, <1>5 DEF Next

LEMMA StatusStep == TInv /\ PInv /\ StatusInv /\ [Next]_vars => StatusInv'
<1> SUFFICES ASSUME TInv, PInv, StatusInv, [Next]_vars PROVE StatusInv'
  OBVIOUS
<1>0. /\ runs \in Seq(Run) /\ st \in [Callers -> State] /\ indexed \subseteq Files
      /\ Workers \subseteq Callers
      /\ \A c \in Callers : st[c] \in State /\ Ready(c, st[c], DOMAIN runs)
      /\ \A r \in Nat : JobOf(r) \in Job
  BY DEF TInv, Types, Callers, JobOf, Job
<1>1. ASSUME NEW c \in Callers, st'[c].pc = "enqueue"
      PROVE  runs'[st'[c].run].status = "queued"
  <2>1. CASE CreateRun(c)
    <3>1. NewRun(st[c].ds) \in Run /\ NewRun(st[c].ds).status = "queued"
      BY <1>0, <2>1 DEF CreateRun, Ready, NewRun, Run
    <3>2. st'[c].run = Len(runs')
      BY <1>0, <2>1 DEF CreateRun, State
    <3> QED BY <1>0, <2>1, <3>1, <3>2, ListAppend DEF CreateRun
  <2>2. CASE st'[c] = st[c]
    <3> DEFINE r == st[c].run
    <3>1. /\ st[c].pc = "enqueue" /\ r \in DOMAIN runs /\ r \in Nat
          /\ runs[r].status = "queued"
      BY <1>0, <1>1, <2>2 DEF Ready, State, StatusInv
    <3>2. \A d \in Callers : Holds(d, JobOf(r)) => d = c
      BY <1>0, <3>1 DEF PInv, Holds
    <3>3. ASSUME NEW d \in Callers, EnqueueFails(d), st[d].run = r PROVE FALSE
      <4>1. d = c
        BY <3>2, <3>3 DEF EnqueueFails, Holds
      <4> QED BY <1>0, <1>1, <3>3, <4>1 DEF EnqueueFails, Answered, Idle
    <3>4. ASSUME NEW w \in Workers, st[w].job = JobOf(r),
                 \/ StartRun(w) \/ FailRun(w) \/ \E h \in Hits : FinishRun(w, h)
                 \/ JobRaises(w) /\ st[w].pc = "start"
          PROVE  FALSE
      <4>1. st[w].pc \in {"start", "retrieve"}
        BY <3>4 DEF StartRun, FailRun, FinishRun
      <4>2. Holds(w, JobOf(r))
        BY <3>4, <4>1 DEF Holds
      <4> QED BY <1>0, <3>1, <3>2, <4>1, <4>2
    <3>5. runs'[r] = runs[r]
      BY <3>1, <3>3, <3>4, OtherRows
    <3> QED BY <2>2, <3>1, <3>5
  <2> QED BY <1>1, <2>1, <2>2, Arrivals
<1>2. ASSUME NEW w \in Workers, st'[w].pc = "retrieve"
      PROVE  runs'[st'[w].job.id].status # "queued"
  <2>1. CASE StartRun(w)
    <3>1. st[w].job.id \in DOMAIN runs /\ st'[w].job = st[w].job
      BY <1>0, <2>1 DEF StartRun, Ready, State
    <3>2. PICK x \in Run : runs' = [runs EXCEPT ![st[w].job.id] = x] /\ x.status = "running"
      BY <1>0, <2>1, <3>1, StartedRow DEF StartRun
    <3> QED BY <1>0, <3>1, <3>2, RowUpdate
  <2>2. CASE st'[w] = st[w]
    <3>1. st[w].job.id \in DOMAIN runs /\ runs[st[w].job.id].status # "queued"
      BY <1>0, <1>2, <2>2 DEF Ready, StatusInv
    <3> QED BY <2>2, <3>1, RunsStep
  <2> QED BY <1>0, <1>2, <2>1, <2>2, Arrivals
<1> QED BY <1>1, <1>2 DEF StatusInv

LEMMA GateStep == TInv /\ PInv /\ StatusInv /\ IndexedIsGated /\ [Next]_vars => IndexedIsGated'
<1> SUFFICES ASSUME TInv, PInv, StatusInv, IndexedIsGated, [Next]_vars,
                    NEW f \in hooked', f \in indexed',
                    faults' \cap (LostRun \cup {"redis_down"}) = {}
             PROVE  \E r \in DOMAIN runs' : runs'[r].status = "queued" \/ f \in runs'[r].saw
  BY DEF IndexedIsGated
<1>0. /\ runs \in Seq(Run) /\ st \in [Callers -> State] /\ indexed \subseteq Files
      /\ Workers \subseteq Callers /\ aged \in Nat /\ hooked \subseteq Files
      /\ \A c \in Callers : st[c] \in State /\ Ready(c, st[c], DOMAIN runs)
  BY DEF TInv, Types, Callers
<1>1. ASSUME NEW c \in Callers, EnqueueFails(c) PROVE FALSE
  BY <1>1 DEF EnqueueFails, Event
<1>r. ASSUME NEW c \in Callers, QueueRunRaises(c) \/ EnqueueFailsTwice(c) PROVE FALSE
  BY <1>r, RaisedEffect
<1>j. ASSUME NEW w \in Workers, JobRaises(w)
      PROVE  st[w].pc # "start" /\ UNCHANGED <<runs, hooked, indexed>>
  BY <1>j, JobRaisesEffect
<1>2. CASE f \in hooked /\ f \in indexed
  <2>1. PICK r \in DOMAIN runs : runs[r].status = "queued" \/ f \in runs[r].saw
    BY <1>2, FaultsGrow DEF IndexedIsGated
  <2>2. r \in DOMAIN runs'
    BY <2>1, RunsStep
  <2>3. CASE runs'[r] = runs[r]
    BY <2>1, <2>2, <2>3
  <2>4. ASSUME NEW w \in Workers, StartRun(w), st[w].job = JobOf(r)
        PROVE  f \in runs'[r].saw
    <3>1. st[w].job.id = r
      BY <2>4 DEF JobOf
    <3>2. PICK x \in Run : runs' = [runs EXCEPT ![r] = x] /\ x.saw = indexed
      BY <1>0, <2>1, <2>4, <3>1, StartedRow DEF StartRun
    <3> QED BY <1>0, <1>2, <2>1, <3>2, RowUpdate
  <2>5. ASSUME NEW w \in Workers, FailRun(w) \/ \E h \in Hits : FinishRun(w, h),
               st[w].job = JobOf(r)
        PROVE  f \in runs'[r].saw
    <3>0. st[w].pc = "retrieve"
      BY <2>5 DEF FailRun, FinishRun
    <3>1. st[w].job.id = r /\ st[w].pc = "retrieve"
      BY <2>5, <3>0 DEF JobOf
    <3>2. f \in runs[r].saw
      BY <2>1, <3>1 DEF StatusInv
    <3>3. PICK x \in Run : runs' = [runs EXCEPT ![r] = x] /\ x.saw = runs[r].saw
      <4>1. CASE FailRun(w)
        BY <1>0, <2>1, <3>1, <4>1, FailedRow DEF FailRun
      <4>2. CASE \E h \in Hits : FinishRun(w, h)
        BY <3>1, <4>2, FinishEffect
      <4> QED BY <2>5, <4>1, <4>2
    <3> QED BY <1>0, <2>1, <3>2, <3>3, RowUpdate
  <2> QED BY <1>1, <1>j, <2>1, <2>2, <2>3, <2>4, <2>5, OtherRows
<1>3. CASE f \notin hooked
  <2>1. \/ \E w \in Workers : EnqueueAfterIndex(w)
        \/ \E c \in Callers : EnqueueRun(c) /\ c # Client
    <3>1. ASSUME NEW w \in Workers, WorkerStep(w) PROVE EnqueueAfterIndex(w)
      BY <1>3, <3>1 DEF WorkerStep, Dequeue, IndexFile, StartRun, FailRun, FinishRun, ReportRun
    <3>2. ASSUME NEW c \in Callers, QueueRun(c) PROVE EnqueueRun(c) /\ c # Client
      BY <1>1, <1>3, <3>2 DEF QueueRun, CreateRun, EnqueueRun, Answered
    <3>3. CASE \/ \E ds \in Sets : SetGoldenSet(ds)
               \/ \E g \in Files : Upload(g)
               \/ Ask \/ RunGolden \/ Age
               \/ \E w \in Workers : Shutdown(w)
               \/ \E c \in Callers : Kill(c)
               \/ UNCHANGED vars
      BY <1>3, <3>3 DEF SetGoldenSet, Upload, Ask, RunGolden, Age, Shutdown, Kill, vars
    <3> QED BY <1>3, <1>r, <1>j, <3>1, <3>2, <3>3 DEF Next
  <2>2. ASSUME NEW w \in Workers, EnqueueAfterIndex(w)
        PROVE  \E r \in DOMAIN runs : runs[r].status = "queued"
    <3>1. ActiveRun({"queued"}) # 0
      BY <1>3, <2>2 DEF EnqueueAfterIndex
    <3>2. {i \in aged + 1 .. Len(runs) : runs[i].status \in {"queued"}} # {}
      BY <3>1 DEF ActiveRun
    <3>3. PICK i \in aged + 1 .. Len(runs) : runs[i].status = "queued"
      BY <3>2
    <3> QED BY <1>0, <3>3
  <2>3. ASSUME NEW c \in Callers, EnqueueRun(c)
        PROVE  \E r \in DOMAIN runs : runs[r].status = "queued"
    BY <1>0, <2>3 DEF EnqueueRun, Ready, StatusInv
  <2>4. UNCHANGED runs
    BY <2>1 DEF EnqueueAfterIndex, EnqueueRun
  <2> QED BY <2>1, <2>2, <2>3, <2>4
<1>4. CASE f \in hooked /\ f \notin indexed
  <2>1. PICK w \in Workers, ok \in BOOLEAN : IndexFile(w, ok) /\ f = st[w].job.id
    <3>1. ASSUME NEW w \in Workers, WorkerStep(w)
          PROVE  \E ok \in BOOLEAN : IndexFile(w, ok) /\ f = st[w].job.id
      BY <1>4, <3>1 DEF WorkerStep, Dequeue, IndexFile, EnqueueAfterIndex, StartRun, FailRun,
                        FinishRun, ReportRun
    <3>2. ASSUME NEW c \in Callers, QueueRun(c) PROVE FALSE
      BY <1>4, <3>2 DEF QueueRun, CreateRun, EnqueueRun, EnqueueFails
    <3>3. CASE \/ \E ds \in Sets : SetGoldenSet(ds)
               \/ \E g \in Files : Upload(g)
               \/ Ask \/ RunGolden \/ Age
               \/ \E w \in Workers : Shutdown(w)
               \/ \E c \in Callers : Kill(c)
               \/ UNCHANGED vars
      BY <1>4, <3>3 DEF SetGoldenSet, Upload, Ask, RunGolden, Age, Shutdown, Kill, vars
    <3> QED BY <1>4, <1>r, <1>j, <3>1, <3>2, <3>3 DEF Next
  <2>2. st[w].pc = "index" /\ st[w].job \in Job /\ st[w].job.kind = "index"
    BY <1>0, <2>1 DEF IndexFile, Ready
  <2>3. st[w].job = IndexJob(f) /\ f \in Files
    BY <2>1, <2>2, KindsDiffer
  <2>4. Holds(w, IndexJob(f))
    BY <2>2, <2>3 DEF Holds
  <2> QED BY <1>0, <1>4, <2>3, <2>4 DEF PInv
<1> QED BY <1>2, <1>3, <1>4

\* One run per burst is enough: for any number of workers, files and runs, and over
\* shutdowns and restarts of a run, a file that went through the hook is covered by
\* a run that saw it or has not started, unless an event of LostRun or a failed
\* push came.
THEOREM HookCovers == Spec => []IndexedIsGated
<1>1. Init => PInv /\ StatusInv /\ IndexedIsGated
  BY DEF Init, PInv, Distinct, OnList, Holds, StatusInv, IndexedIsGated, Idle, Callers
<1> QED
  BY <1>1, PlaceStep, StatusStep, GateStep, TypeInvariance, PTL DEF Spec
=============================================================================
