--------------------------- MODULE Figures_proofs ---------------------------
(***************************************************************************)
(* What the figures of trades promise, for whatever rows, records and      *)
(* candles may come.                                                       *)
(***************************************************************************)
EXTENDS Figures, Signals_proofs

-----------------------------------------------------------------------------
(* Verdicts *)

\* The summary is what its parts make of each other.
LEMMA SummaryIs ==
  ASSUME NEW rows, NEW steady
  PROVE  Summary(rows, steady) = Verdicts(rows, Metrics(rows), WalkForward(rows), steady)
BY DEF Summary

\* Whatever was measured, the verdicts leave the live gate shut.
LEMMA VerdictsShut ==
  ASSUME NEW rows, NEW m, NEW oos, NEW steady, NEW s, s = Verdicts(rows, m, oos, steady)
  PROVE  /\ s.goLive = "REJECT" /\ s.system = "NOT_READY"
         /\ s.promotion \in {"REJECT", "RESEARCH_ONLY", "BACKTEST_OK"}
<1>. DEFINE paper == PaperStatus(rows, m, EquityStable(m, steady))
            goLive == GoLive(m, paper)
<1>1. goLive = "REJECT"
  BY DEF GoLive, StreakQuality
<1>2. s.goLive = goLive /\ s.system = Readiness(paper, oos, goLive) /\ s.promotion = Promotion(paper, oos, goLive)
  BY DEF Verdicts
<1>. HIDE DEF paper, goLive
<1>3. Readiness(paper, oos, "REJECT") = "NOT_READY"
  BY DEF Readiness, RegimeConsistency
<1>4. Promotion(paper, oos, "REJECT") \in {"REJECT", "RESEARCH_ONLY", "BACKTEST_OK"}
  BY DEF Promotion, MonitoringScore
<1>. QED BY <1>1, <1>2, <1>3, <1>4

LEMMA LiveShut == LiveStaysShut
BY SummaryIs, VerdictsShut DEF LiveStaysShut

LEMMA EngineFails == EngineNeverReady
<1>1. "pipeline_health_rate" \in FailedChecks(book, FALSE)
  BY DEF FailedChecks, Rated
<1>2. "pipeline_health_rate" \notin Warned
  BY DEF Warned
<1>. QED BY <1>1, <1>2 DEF EngineNeverReady, RunFullMetricsEngine, GenerateReadinessReport

LEMMA WorkspaceRateMissed ==
  ASSUME NEW n \in Nat, Len(book) = n, DOMAIN book = 1..n
  PROVE  WorkspaceRateNeverReached
<1>. DEFINE S == {k \in DOMAIN book : book[k].verdict = "PASS"}
<1>1. IsFiniteSet(1..n) /\ Cardinality(1..n) = n
  BY FS_Interval
<1>2. Cardinality(S) \in Nat /\ Cardinality(S) <= n
  BY <1>1, FS_Subset, FS_CardinalityType
<1>3. Validated(book) = Cardinality(S)
  BY DEF Validated, HowMany, Those
<1>4. AllCandidates(book, book) = 2 * n
  BY DEF AllCandidates
<1>5. Max({2 * n, 1}) \in Nat /\ Max({2 * n, 1}) >= 2 * n /\ Max({2 * n, 1}) >= 1
  <2>1. 2 * n \in Int /\ 1 \in Int
    OBVIOUS
  <2>. DEFINE m == 2 * n
  <2>2. m \in Int
    BY <2>1
  <2>. HIDE DEF m
  <2>3. Max({m, 1}) \in {m, 1} /\ Max({m, 1}) >= m /\ Max({m, 1}) >= 1
    BY <2>2, MaxOfTwo
  <2>. QED BY <2>2, <2>3 DEF m
<1>. QED BY <1>2, <1>3, <1>4, <1>5 DEF WorkspaceRateNeverReached, WorkspacePassRateReached, PassRateReached

-----------------------------------------------------------------------------
(* The order of rows *)

\* Places in order: each is once in it, after those that come before it.
Sorts(s, K, rank) ==
  /\ Cardinality(K) \in Nat /\ s \in [1..Cardinality(K) -> K] /\ Onto(s, K)
  /\ \A i, j \in 1..Cardinality(K) : i < j => s[i] \in Preceding(K, rank, s[j])

\* The rows at the places of an order.
Arranged(rows, s, n) == [i \in 1..n |-> rows[s[i]]]

\* Ranks of places, told apart by the places.
LEMMA RanksApart ==
  ASSUME NEW n \in Nat, NEW a \in Int, NEW b \in Int, NEW j \in 1..n, NEW k \in 1..n
  PROVE  /\ a * (n + 1) + j < b * (n + 1) + k <=> a < b \/ (a = b /\ j < k)
         /\ a * (n + 1) + j = b * (n + 1) + k => j = k
<1>. DEFINE m == n + 1
<1>1. CASE a = b
  BY <1>1
<1>2. CASE a < b
  <2>1. (a + 1) * m <= b * m
    <3>1. b - a - 1 \in Nat /\ m \in Nat
      BY <1>2
    <3>2. (b - a - 1) * m >= 0
      BY <3>1
    <3>. QED BY <3>2
  <2>2. (a + 1) * m = a * m + m
    OBVIOUS
  <2>. QED BY <1>2, <2>1, <2>2
<1>3. CASE b < a
  <2>1. (b + 1) * m <= a * m
    <3>1. a - b - 1 \in Nat /\ m \in Nat
      BY <1>3
    <3>2. (a - b - 1) * m >= 0
      BY <3>1
    <3>. QED BY <3>2
  <2>2. (b + 1) * m = b * m + m
    OBVIOUS
  <2>. QED BY <1>3, <2>1, <2>2
<1>. QED BY <1>1, <1>2, <1>3

LEMMA SomeOrder ==
  ASSUME NEW n \in Nat, NEW K, K \subseteq 1..n, NEW rank, \A k \in K : rank[k] \in Int
  PROVE  \E s : Sorts(s, K, rank)
<1>. DEFINE time == [k \in K |-> rank[k] * (n + 1) + k]
<1>1. \A k \in K : time[k] \in Int /\ k \in 1..n
  OBVIOUS
<1>2. \A j, k \in K : /\ time[j] < time[k] <=> rank[j] < rank[k] \/ (rank[j] = rank[k] /\ j < k)
                      /\ time[j] = time[k] => j = k
  BY RanksApart
<1>. HIDE DEF time
<1>3. PICK s : IsOrder(s, K, time)
  BY <1>1, <1>2, OrderExists
<1>4. Cardinality(K) \in Nat /\ DOMAIN s = 1..Cardinality(K) /\ Onto(s, K)
  BY <1>1, <1>3, OrderIsOnto
<1>5. s \in [1..Cardinality(K) -> K] /\ \A i, j \in DOMAIN s : i < j => time[s[i]] < time[s[j]]
  BY <1>3 DEF IsOrder
<1>6. ASSUME NEW i \in 1..Cardinality(K), NEW j \in 1..Cardinality(K), i < j
      PROVE  s[i] \in Preceding(K, rank, s[j])
  <2>1. s[i] \in K /\ s[j] \in K /\ time[s[i]] < time[s[j]]
    BY <1>4, <1>5, <1>6
  <2>. QED BY <1>2, <2>1 DEF Preceding
<1>7. Sorts(s, K, rank)
  BY <1>4, <1>5, <1>6 DEF Sorts
<1>. QED BY <1>7

\* In an order the i-th place is the one that i - 1 come before.
LEMMA PlaceInOrder ==
  ASSUME NEW n \in Nat, NEW K, K \subseteq 1..n, NEW rank, \A k \in K : rank[k] \in Int,
         NEW s, Sorts(s, K, rank)
  PROVE  /\ \A i \in 1..Cardinality(K) : Cardinality(Preceding(K, rank, s[i])) = i - 1
         /\ \A i, j \in 1..Cardinality(K) : s[i] = s[j] => i = j
<1>. DEFINE m == Cardinality(K)
<1>1. m \in Nat /\ s \in [1..m -> K] /\ \A k \in K : \E i \in 1..m : s[i] = k
  BY DEF Sorts, Onto
<1>2. \A i, j \in 1..m : i < j => s[i] \in Preceding(K, rank, s[j])
  BY DEF Sorts
<1>3. \A j, k \in K : ~(j \in Preceding(K, rank, k) /\ k \in Preceding(K, rank, j)) /\ k \notin Preceding(K, rank, k)
  <2>1. \A k \in K : k \in Int /\ rank[k] \in Int
    OBVIOUS
  <2>. QED BY <2>1 DEF Preceding
<1>. HIDE DEF m
<1>4. \A i, j \in 1..m : s[i] = s[j] => i = j
  <2>1. ASSUME NEW i \in 1..m, NEW j \in 1..m, s[i] = s[j], i < j PROVE FALSE
    BY <1>1, <1>2, <1>3, <2>1
  <2>2. \A i, j \in 1..m : i # j => i < j \/ j < i
    BY <1>1
  <2>. QED BY <2>1, <2>2
<1>5. ASSUME NEW i \in 1..m PROVE Cardinality(Preceding(K, rank, s[i])) = i - 1
  <2>. DEFINE P == Preceding(K, rank, s[i])
              t == [j \in 1..i - 1 |-> s[j]]
  <2>1. \A j \in 1..i - 1 : j \in 1..m /\ j < i
    BY <1>1
  <2>2. \A j \in 1..i - 1 : t[j] = s[j] /\ s[j] \in P
    BY <1>2, <2>1
  <2>3. ASSUME NEW k \in P PROVE \E j \in 1..i - 1 : s[j] = k
    <3>1. k \in K
      BY DEF Preceding
    <3>2. PICK j \in 1..m : s[j] = k
      BY <1>1, <3>1
    <3>3. ~(i < j) /\ i # j
      <4>1. s[i] \in K
        BY <1>1
      <4>. QED BY <1>2, <1>3, <3>1, <3>2, <4>1
    <3>4. j \in 1..i - 1
      BY <1>1, <3>3
    <3>. QED BY <3>2, <3>4
  <2>. HIDE DEF P
  <2>4. t \in Bijection(1..i - 1, P)
    <3>1. t \in [1..i - 1 -> P]
      BY <2>2
    <3>2. \A j, k \in 1..i - 1 : t[j] = t[k] => j = k
      BY <1>4, <2>1, <2>2
    <3>3. \A k \in P : \E j \in 1..i - 1 : t[j] = k
      BY <2>2, <2>3
    <3>. QED BY <3>1, <3>2, <3>3 DEF Bijection, Injection, IsInjective, Surjection
  <2>5. ExistsBijection(1..i - 1, P) /\ i - 1 \in Nat
    BY <1>1, <2>4 DEF ExistsBijection
  <2>. QED BY <2>5, FS_CountingElements DEF P
<1>. QED BY <1>4, <1>5 DEF m

\* Whatever sorts the places says what InOrder gives.
LEMMA InOrderIs ==
  ASSUME NEW n \in Nat, NEW K, K \subseteq 1..n, NEW rank, \A k \in K : rank[k] \in Int,
         NEW s, Sorts(s, K, rank), NEW rows
  PROVE  InOrder(rows, K, rank) = Arranged(rows, s, Cardinality(K))
<1>1. /\ \A i \in 1..Cardinality(K) : Cardinality(Preceding(K, rank, s[i])) = i - 1
      /\ \A i, j \in 1..Cardinality(K) : s[i] = s[j] => i = j
  BY PlaceInOrder, ZenonT(60)
<1>2. Cardinality(K) \in Nat /\ \A i \in 1..Cardinality(K) : s[i] \in K
  BY DEF Sorts
<1>3. \A k \in K : \E i \in 1..Cardinality(K) : s[i] = k
  BY DEF Sorts, Onto
<1>4. ASSUME NEW i \in 1..Cardinality(K)
      PROVE  (CHOOSE k \in K : Cardinality(Preceding(K, rank, k)) = i - 1) = s[i]
  <2>1. ASSUME NEW k \in K, Cardinality(Preceding(K, rank, k)) = i - 1 PROVE k = s[i]
    <3>1. PICK j \in 1..Cardinality(K) : s[j] = k
      BY <1>3
    <3>2. j - 1 = i - 1
      BY <1>1, <2>1, <3>1
    <3>. QED BY <1>2, <3>1, <3>2
  <2>2. s[i] \in K /\ Cardinality(Preceding(K, rank, s[i])) = i - 1
    BY <1>1, <1>2
  <2>. QED BY <2>1, <2>2
<1>5. \A i \in 1..Cardinality(K) : InOrder(rows, K, rank)[i] = rows[s[i]]
  BY <1>4 DEF InOrder
<1>6. InOrder(rows, K, rank) = [i \in 1..Cardinality(K) |-> InOrder(rows, K, rank)[i]]
  BY DEF InOrder
<1>. QED BY <1>5, <1>6 DEF Arranged

\* The rows are those at the places, as many as there are places.
LEMMA InOrderHolds ==
  ASSUME NEW n \in Nat, NEW K, K \subseteq 1..n, NEW rank, \A k \in K : rank[k] \in Int, NEW rows
  PROVE  /\ Cardinality(K) \in Nat /\ Cardinality(K) <= n
         /\ DOMAIN InOrder(rows, K, rank) = 1..Cardinality(K)
         /\ Len(InOrder(rows, K, rank)) = Cardinality(K)
         /\ \A i \in 1..Cardinality(K) : \E k \in K : InOrder(rows, K, rank)[i] = rows[k]
<1>1. PICK s : Sorts(s, K, rank)
  BY SomeOrder
<1>. DEFINE f == InOrder(rows, K, rank)
<1>2. f = [i \in 1..Cardinality(K) |-> rows[s[i]]]
  <2>1. f = Arranged(rows, s, Cardinality(K))
    BY <1>1, InOrderIs
  <2>. QED BY <2>1 DEF Arranged
<1>3. Cardinality(K) \in Nat /\ \A i \in 1..Cardinality(K) : s[i] \in K
  BY <1>1 DEF Sorts
<1>4. Cardinality(K) <= n
  <2>1. IsFiniteSet(1..n) /\ Cardinality(1..n) = n
    BY FS_Interval
  <2>. QED BY <2>1, FS_Subset
<1>. HIDE DEF f
<1>5. DOMAIN f = 1..Cardinality(K)
  BY <1>2
<1>6. Len(f) = Cardinality(K)
  BY <1>2, <1>3
<1>. QED BY <1>2, <1>3, <1>4, <1>5, <1>6 DEF f

-----------------------------------------------------------------------------
(* The journal *)

\* Trades by their time are rows of the journal.
LEMMA ByTimeIs ==
  ASSUME NEW rows \in Seq(Rows), NEW trades, trades \subseteq DOMAIN rows
  PROVE  ByTime(rows, trades) \in Seq(Rows)
<1>. DEFINE rank == [k \in trades |-> Anchor(rows[k])]
            n == Len(rows)
            f == InOrder(rows, trades, rank)
<1>1. n \in Nat /\ trades \subseteq 1..n /\ \A k \in trades : rows[k] \in Rows
  OBVIOUS
<1>2. \A k \in trades : rank[k] \in Int
  BY <1>1, JournalAssumption DEF Anchor
<1>. HIDE DEF rank, n
<1>3. /\ Cardinality(trades) \in Nat /\ DOMAIN f = 1..Cardinality(trades)
      /\ \A i \in 1..Cardinality(trades) : \E k \in trades : f[i] = rows[k]
  BY <1>1, <1>2, InOrderHolds, SMTT(30)
<1>4. f = [i \in 1..Cardinality(trades) |-> f[i]]
  BY DEF InOrder
<1>. HIDE DEF f
<1>5. \A i \in 1..Cardinality(trades) : f[i] \in Rows
  BY <1>1, <1>3
<1>6. f \in Seq(Rows)
  BY <1>3, <1>4, <1>5
<1>. QED BY <1>6 DEF ByTime, f, rank

LEMMA ClosedIs ==
  ASSUME NEW rows \in Seq(Rows)
  PROVE  Closed(rows) \in Seq(Rows) /\ Clean(rows) \in Seq(Rows)
BY ByTimeIs DEF Closed, Clean

LEMMA PnlsAre ==
  ASSUME NEW rows \in Seq(Rows)
  PROVE  Pnls(rows) \in Seq(Int)
<1>1. Len(rows) \in Nat /\ DOMAIN rows = 1..Len(rows) /\ \A i \in 1..Len(rows) : rows[i].pnl \in Int
  BY JournalAssumption
<1>. QED BY <1>1 DEF Pnls

-----------------------------------------------------------------------------
(* Windows *)

LEMMA WindowFits ==
  ASSUME NEW n \in Nat, NEW w \in 1..WindowCount(n)
  PROVE  (w - 1) * StepTrades \in Nat /\ (w - 1) * StepTrades + TrainTrades + TestTrades <= n
<1>1. TrainTrades \in Nat /\ TestTrades \in Nat /\ StepTrades \in Nat \ {0}
  BY WindowAssumption
<1>. DEFINE r == n - TrainTrades - TestTrades
            q == r \div StepTrades
<1>2. r \in Nat /\ WindowCount(n) = q + 1
  BY <1>1 DEF WindowCount
<1>. HIDE DEF r
<1>3. q \in Nat /\ q * StepTrades <= r
  BY <1>1, <1>2, Quotient
<1>. HIDE DEF q
<1>4. w - 1 \in Nat /\ q - (w - 1) \in Nat
  BY <1>2, <1>3
<1>5. (w - 1) * StepTrades \in Nat /\ (q - (w - 1)) * StepTrades \in Nat
  BY <1>1, <1>4
<1>6. (w - 1) * StepTrades <= q * StepTrades
  BY <1>1, <1>3, <1>4, <1>5
<1>. QED BY <1>1, <1>2, <1>3, <1>5, <1>6 DEF r

\* A window further on starts a step further at least.
LEMMA StepsApart ==
  ASSUME NEW k \in Nat, NEW l \in Nat, k < l
  PROVE  (k - 1) * StepTrades + TestTrades <= (l - 1) * StepTrades
<1>1. TestTrades \in Nat /\ StepTrades \in Nat /\ TestTrades <= StepTrades
  BY WindowAssumption
<1>2. l - k - 1 \in Nat
  OBVIOUS
<1>3. (l - k - 1) * StepTrades >= 0
  BY <1>1, <1>2
<1>. QED BY <1>1, <1>2, <1>3

\* A part of the places 1..n is the places from its beginning to its end.
LEMMA PartOfPlaces ==
  ASSUME NEW n \in Nat, NEW a \in Nat, NEW b \in Nat, b <= n
  PROVE  Range(SubSeq([i \in 1..n |-> i], a + 1, b)) = (a + 1)..b
<1>. DEFINE s == SubSeq([i \in 1..n |-> i], a + 1, b)
            id == [i \in 1..n |-> i]
<1>1. DOMAIN s = 1..(b - a) /\ \A i \in 1..(b - a) : s[i] = i + a
  <2>1. s = [i \in 1..(1 + b - (a + 1)) |-> id[i + (a + 1) - 1]]
    OBVIOUS
  <2>2. 1 + b - (a + 1) = b - a
    OBVIOUS
  <2>3. \A i \in 1..(b - a) : i + (a + 1) - 1 = i + a /\ i + a \in 1..n
    OBVIOUS
  <2>4. \A i \in 1..n : id[i] = i
    OBVIOUS
  <2>. HIDE DEF s, id
  <2>. QED BY <2>1, <2>2, <2>3, <2>4
<1>. HIDE DEF s, id
<1>2. \A x \in (a + 1)..b : x - a \in 1..(b - a) /\ s[x - a] = x
  BY <1>1
<1>3. \A i \in 1..(b - a) : i + a \in (a + 1)..b
  OBVIOUS
<1>4. Range(s) = (a + 1)..b
  BY <1>1, <1>2, <1>3 DEF Range
<1>. QED BY <1>4 DEF s, id

LEMMA TestedOnceHolds ==
  ASSUME journal \in Seq(Rows)
  PROVE  TestedOnce
<1>. DEFINE n == Len(Closed(journal))
            places == [i \in DOMAIN Closed(journal) |-> i]
            w == Windows(places)
            start(k) == (k - 1) * StepTrades
<1>1. n \in Nat /\ places = [i \in 1..n |-> i]
  BY ClosedIs
<1>. HIDE DEF n
<1>2. Len(places) = n
  BY <1>1
<1>3. DOMAIN w = 1..WindowCount(n)
  BY <1>2 DEF Windows
<1>4. ASSUME NEW k \in DOMAIN w
      PROVE  /\ Range(w[k].train) = start(k) + 1..start(k) + TrainTrades
             /\ Range(w[k].test) = start(k) + TrainTrades + 1..start(k) + TrainTrades + TestTrades
             /\ start(k) \in Nat
  <2>. DEFINE a == start(k)
              b == a + TrainTrades
              c == b + TestTrades
  <2>1. TrainTrades \in Nat /\ TestTrades \in Nat
    BY WindowAssumption
  <2>2. a \in Nat /\ c <= n
    BY <1>1, <1>3, <1>4, WindowFits
  <2>3. w[k].train = SubSeq(places, a + 1, b) /\ w[k].test = SubSeq(places, b + 1, c)
    BY <1>2, <1>3, <1>4 DEF Windows
  <2>. HIDE DEF a, w, places
  <2>4. b \in Nat /\ c \in Nat /\ b <= n
    BY <1>1, <2>1, <2>2
  <2>5. Range(w[k].train) = a + 1..b
    <3>. HIDE DEF b
    <3>. QED BY <1>1, <2>2, <2>3, <2>4, PartOfPlaces
  <2>6. Range(w[k].test) = b + 1..c
    <3>. HIDE DEF b, c
    <3>. QED BY <1>1, <2>2, <2>3, <2>4, PartOfPlaces
  <2>. QED BY <2>2, <2>5, <2>6 DEF a
<1>5. TrainTrades \in Nat /\ TestTrades \in Nat
  BY WindowAssumption
<1>6. ASSUME NEW k \in DOMAIN w, NEW l \in DOMAIN w, k < l PROVE start(k) + TestTrades <= start(l)
  BY <1>3, <1>6, StepsApart
<1>. HIDE DEF w, start
<1>7. ASSUME NEW k \in DOMAIN w, NEW l \in DOMAIN w
      PROVE  /\ \A i \in Range(w[k].train), j \in Range(w[k].test) : i < j
             /\ k # l => Range(w[k].test) \cap Range(w[l].test) = {}
  <2>1. \A i \in Range(w[k].train), j \in Range(w[k].test) : i < j
    BY <1>4, <1>5
  <2>2. k < l => Range(w[k].test) \cap Range(w[l].test) = {}
    BY <1>4, <1>5, <1>6
  <2>3. l < k => Range(w[k].test) \cap Range(w[l].test) = {}
    BY <1>4, <1>5, <1>6
  <2>4. k # l => k < l \/ l < k
    BY <1>3 DEF w
  <2>. QED BY <2>1, <2>2, <2>3, <2>4
<1>. QED BY <1>7 DEF TestedOnce, w

-----------------------------------------------------------------------------
(* Sums of profits *)

\* Only the summands count.
LEMMA SumSame ==
  ASSUME NEW S, IsFiniteSet(S), NEW a, NEW b, \A i \in S : a[i] = b[i]
  PROVE  SumFunctionOnSet(a, S) = SumFunctionOnSet(b, S)
<1>1. Tallies(a, S, Tally(a, S)) /\ Tallies(b, S, Tally(b, S))
  BY TalliesExist
<1>2. S \subseteq S /\ S \in SUBSET S
  OBVIOUS
<1>3. \A T \in SUBSET S : Tally(a, S)[T] = Tally(b, S)[T]
  BY <1>1, <1>2, TalliesAgree
<1>. QED BY <1>2, <1>3, SumIs

LEMMA ProfitType ==
  ASSUME NEW S, IsFiniteSet(S), NEW a, \A i \in S : a[i] \in Int
  PROVE  SumFunctionOnSet(a, S) \in Int
<1>. DEFINE Bad == {T \in SUBSET S : SumFunctionOnSet(a, T) \notin Int}
<1>. SUFFICES ASSUME Bad # {} PROVE FALSE
  OBVIOUS
<1>1. PICK T \in Bad : \A U \in Bad : U \subseteq T => U = T
  <2>1. Bad \subseteq SUBSET S
    OBVIOUS
  <2>. HIDE DEF Bad
  <2>. QED BY <2>1, SmallestSubset
<1>2. T # {} /\ T \subseteq S /\ IsFiniteSet(T)
  <2>1. T # {}
    BY SumEmpty
  <2>. QED BY <2>1, FS_Subset
<1>3. Pick(T) \in T
  BY <1>2, PickIn
<1>4. SumFunctionOnSet(a, T \ {Pick(T)}) \in Int
  BY <1>1, <1>2, <1>3
<1>5. a[Pick(T)] \in Int
  BY <1>2, <1>3
<1>6. SumFunctionOnSet(a, T) = a[Pick(T)] + SumFunctionOnSet(a, T \ {Pick(T)})
  BY <1>2, SumPicks
<1>. QED BY <1>4, <1>5, <1>6

\* Any summand may be taken out.
LEMMA ProfitWithout ==
  ASSUME NEW S, IsFiniteSet(S), NEW a, \A i \in S : a[i] \in Int, NEW x \in S
  PROVE  SumFunctionOnSet(a, S) = a[x] + SumFunctionOnSet(a, S \ {x})
<1>. DEFINE Splits(T, z) == SumFunctionOnSet(a, T) = a[z] + SumFunctionOnSet(a, T \ {z})
            Bad == {T \in SUBSET S : \E z \in T : ~Splits(T, z)}
<1>. SUFFICES ASSUME Bad # {} PROVE FALSE
  <2>1. S \in SUBSET S
    OBVIOUS
  <2>. QED BY <2>1
<1>1. PICK T \in Bad : \A U \in Bad : U \subseteq T => U = T
  <2>1. Bad \subseteq SUBSET S
    OBVIOUS
  <2>. HIDE DEF Bad
  <2>. QED BY <2>1, SmallestSubset
<1>2. PICK z \in T : ~Splits(T, z)
  OBVIOUS
<1>. DEFINE y == Pick(T)
<1>3. z \in T /\ y \in T /\ T \subseteq S /\ IsFiniteSet(T)
  BY <1>2, PickIn, FS_Subset
<1>4. Splits(T, y)
  BY <1>3, SumPicks
<1>. HIDE DEF y
<1>5. y # z
  BY <1>2, <1>4
<1>6. T \ {y} \in SUBSET S /\ T \ {z} \in SUBSET S /\ T \ {y} # T /\ T \ {z} # T
  BY <1>3
<1>7. T \ {y} \notin Bad /\ T \ {z} \notin Bad
  BY <1>1, <1>6
<1>8. Splits(T \ {y}, z) /\ Splits(T \ {z}, y)
  BY <1>3, <1>5, <1>6, <1>7
<1>9. (T \ {y}) \ {z} = (T \ {z}) \ {y}
  OBVIOUS
<1>. DEFINE R == (T \ {z}) \ {y}
<1>10. IsFiniteSet(R) /\ \A i \in R : a[i] \in Int
  BY <1>3, FS_Subset
<1>. HIDE DEF R
<1>11. SumFunctionOnSet(a, R) \in Int
  BY <1>10, ProfitType
<1>12. /\ SumFunctionOnSet(a, T) = a[y] + SumFunctionOnSet(a, T \ {y})
       /\ SumFunctionOnSet(a, T \ {y}) = a[z] + SumFunctionOnSet(a, R)
       /\ SumFunctionOnSet(a, T \ {z}) = a[y] + SumFunctionOnSet(a, R)
  BY <1>4, <1>8, <1>9 DEF R
<1>13. a[y] \in Int /\ a[z] \in Int
  BY <1>3
<1>14. SumFunctionOnSet(a, T) = a[z] + SumFunctionOnSet(a, T \ {z})
  BY <1>11, <1>12, <1>13
<1>. QED BY <1>2, <1>14

\* The sum up to a place.
SumTo(p, i) == SumFunctionOnSet(p, 1..i)

LEMMA SumToGrows ==
  ASSUME NEW p, NEW n \in Nat, \A i \in 1..n : p[i] \in Int
  PROVE  /\ SumTo(p, 0) = 0
         /\ \A i \in 0..n : SumTo(p, i) \in Int
         /\ \A i \in 1..n : SumTo(p, i) = SumTo(p, i - 1) + p[i]
<1>1. \A i \in 0..n : IsFiniteSet(1..i) /\ \A k \in 1..i : p[k] \in Int
  BY FS_Interval
<1>2. \A i \in 0..n : SumTo(p, i) \in Int
  BY <1>1, ProfitType DEF SumTo
<1>3. SumTo(p, 0) = 0
  <2>1. 1..0 = {}
    OBVIOUS
  <2>. QED BY <2>1, SumEmpty DEF SumTo
<1>4. ASSUME NEW i \in 1..n PROVE SumTo(p, i) = SumTo(p, i - 1) + p[i]
  <2>1. i \in 0..n /\ i - 1 \in 0..n /\ i \in 1..i /\ (1..i) \ {i} = 1..(i - 1)
    OBVIOUS
  <2>2. SumTo(p, i) = p[i] + SumFunctionOnSet(p, (1..i) \ {i})
    BY <1>1, <2>1, ProfitWithout DEF SumTo
  <2>3. SumTo(p, i) = p[i] + SumTo(p, i - 1)
    BY <2>1, <2>2 DEF SumTo
  <2>. QED BY <1>2, <2>1, <2>3
<1>. QED BY <1>2, <1>3, <1>4

LEMMA TotalIs ==
  ASSUME NEW p \in Seq(Int), NEW i \in 0..Len(p)
  PROVE  Total(SubSeq(p, 1, i)) = SumTo(p, i)
<1>1. /\ DOMAIN SubSeq(p, 1, i) = 1..i
      /\ \A k \in 1..i : SubSeq(p, 1, i)[k] = p[k]
  OBVIOUS
<1>2. IsFiniteSet(1..i)
  BY FS_Interval
<1>. DEFINE s == SubSeq(p, 1, i)
<1>. HIDE DEF s
<1>3. SumFunctionOnSet(s, 1..i) = SumFunctionOnSet(p, 1..i)
  BY <1>1, <1>2, SumSame DEF s
<1>. QED BY <1>1, <1>3 DEF Total, SumFunction, SumTo, s

-----------------------------------------------------------------------------
(* Drawdown *)

Flat == [equity |-> 0, peak |-> 0, run |-> 0, fall |-> 0, share |-> <<0, 1>>, longest |-> 0]
Equities == [equity : Int, peak : Int, run : Int, fall : Int, share : Int \X Int, longest : Int]
EquityRun(e, p) == e = [k \in 0..Len(p) |-> IF k = 0 THEN Flat ELSE EquityStep(e[k - 1], p[k])]

LEMMA EquityStepType ==
  ASSUME NEW s \in Equities, NEW pnl \in Int
  PROVE  EquityStep(s, pnl) \in Equities
<1>1. s.equity \in Int /\ s.peak \in Int /\ s.run \in Int /\ s.fall \in Int /\ s.share \in Int \X Int /\ s.longest \in Int
  BY DEF Equities
<1>. QED BY <1>1 DEF EquityStep, Equities

LEMMA EquityRuns ==
  ASSUME NEW p \in Seq(Int)
  PROVE  \E e : EquityRun(e, p)
<1>. DEFINE n == Len(p)
            step == [k \in 1..n |-> [s \in Equities |-> EquityStep(s, p[k])]]
<1>1. n \in Nat /\ \A k \in 1..n : p[k] \in Int
  OBVIOUS
<1>2. Flat \in Equities
  BY DEF Flat, Equities
<1>3. IsSteps(step, n, Equities)
  BY <1>1, EquityStepType DEF IsSteps
<1>4. \A k \in 1..n : \A s \in Equities : step[k][s] = EquityStep(s, p[k])
  OBVIOUS
<1>. HIDE DEF step, n
<1>5. PICK e : IsScan(e, step, n, Equities, Flat)
  BY <1>1, <1>2, <1>3, ScanExists
<1>6. e \in [0..n -> Equities] /\ e[0] = Flat /\ \A k \in 1..n : e[k] = step[k][e[k - 1]]
  BY <1>5 DEF IsScan
<1>7. ASSUME NEW k \in 1..n PROVE e[k] = EquityStep(e[k - 1], p[k])
  <2>1. k - 1 \in 0..n
    BY <1>1
  <2>. QED BY <1>4, <1>6, <2>1
<1>8. \A k \in 0..n : k # 0 => k \in 1..n
  BY <1>1
<1>9. e = [k \in 0..n |-> IF k = 0 THEN Flat ELSE EquityStep(e[k - 1], p[k])]
  BY <1>6, <1>7, <1>8
<1>10. EquityRun(e, p)
  BY <1>9 DEF EquityRun, n
<1>. QED BY <1>10

LEMMA EquityIs ==
  ASSUME NEW p \in Seq(Int)
  PROVE  \E e : EquityRun(e, p) /\ Equity(p) = e[Len(p)]
<1>. DEFINE e == CHOOSE e : EquityRun(e, p)
<1>1. EquityRun(e, p)
  BY EquityRuns
<1>2. Equity(p) = e[Len(p)]
  BY DEF Equity, EquityRun, Flat
<1>. QED BY <1>1, <1>2

\* At every moment: the equity, its peak, and the worst fall between two moments.
Fallen(s, p, k) ==
  /\ s.equity = SumTo(p, k) /\ s.peak \in Int /\ s.fall \in Int
  /\ \A i \in 0..k : SumTo(p, i) <= s.peak
  /\ \E i \in 0..k : SumTo(p, i) = s.peak
  /\ \A i, j \in 0..k : i <= j => SumTo(p, i) - SumTo(p, j) <= s.fall
  /\ \E i, j \in 0..k : i <= j /\ SumTo(p, i) - SumTo(p, j) = s.fall

LEMMA FallenNext ==
  ASSUME NEW p \in Seq(Int), NEW k \in 1..Len(p), NEW s, Fallen(s, p, k - 1), NEW t, t = EquityStep(s, p[k])
  PROVE  Fallen(t, p, k)
<1>. DEFINE n == Len(p)
            at(i) == SumTo(p, i)
            up == IF at(k) > s.peak THEN at(k) ELSE s.peak
<1>1. n \in Nat /\ k \in 1..n /\ \A i \in 1..n : p[i] \in Int
  OBVIOUS
<1>. HIDE DEF n
<1>2. (\A i \in 0..n : at(i) \in Int) /\ at(k) = at(k - 1) + p[k]
  BY <1>1, SumToGrows
<1>3. s.equity = at(k - 1) /\ s.peak \in Int /\ s.fall \in Int
  BY DEF Fallen
<1>. HIDE DEF at
<1>4. k \in 0..n /\ k - 1 \in 0..n /\ s.equity + p[k] = at(k)
  BY <1>1, <1>2, <1>3
<1>5. t.equity = at(k) /\ t.peak = up /\ t.fall = IF up - at(k) > s.fall THEN up - at(k) ELSE s.fall
  BY <1>4 DEF EquityStep
<1>6. up \in Int /\ up >= at(k) /\ up >= s.peak /\ up \in {at(k), s.peak}
  BY <1>2, <1>3, <1>4
<1>. HIDE DEF up
<1>7. /\ \A i \in 0..k - 1 : at(i) <= s.peak
      /\ \E i \in 0..k - 1 : at(i) = s.peak
  BY DEF Fallen, at
<1>8. /\ \A i, j \in 0..k - 1 : i <= j => at(i) - at(j) <= s.fall
      /\ \E i, j \in 0..k - 1 : i <= j /\ at(i) - at(j) = s.fall
  BY DEF Fallen, at
<1>9. \A i \in 0..k : i \in 0..n /\ at(i) \in Int /\ (i = k \/ i \in 0..k - 1)
  BY <1>1, <1>2
<1>10. \A i \in 0..k - 1 : i \in 0..k /\ i <= k
  BY <1>1
<1>11. \A i \in 0..k : at(i) <= up
  BY <1>3, <1>6, <1>7, <1>9, SMTT(30)
<1>12. \E i \in 0..k : at(i) = up
  BY <1>1, <1>6, <1>7, <1>10
<1>13. t.fall \in Int /\ t.fall >= up - at(k) /\ t.fall >= s.fall /\ (t.fall = up - at(k) \/ t.fall = s.fall)
  BY <1>2, <1>3, <1>4, <1>5, <1>6
<1>14. ASSUME NEW i \in 0..k, NEW j \in 0..k, i <= j PROVE at(i) - at(j) <= t.fall
  <2>1. CASE j = k
    BY <1>2, <1>4, <1>6, <1>9, <1>11, <1>13, <2>1, SMTT(30)
  <2>2. CASE j # k
    <3>1. i \in 0..k - 1 /\ j \in 0..k - 1
      BY <1>1, <1>14, <2>2
    <3>2. at(i) - at(j) <= s.fall /\ at(i) \in Int /\ at(j) \in Int
      BY <1>8, <1>9, <1>14, <3>1
    <3>. QED BY <1>3, <1>13, <3>2
  <2>. QED BY <2>1, <2>2
<1>15. \E i, j \in 0..k : i <= j /\ at(i) - at(j) = t.fall
  <2>1. CASE t.fall = up - at(k)
    <3>1. PICK i \in 0..k : at(i) = up
      BY <1>12
    <3>2. k \in 0..k /\ i <= k
      BY <1>1
    <3>. QED BY <2>1, <3>1, <3>2
  <2>2. CASE t.fall = s.fall
    BY <1>8, <1>10, <2>2
  <2>. QED BY <1>13, <2>1, <2>2
<1>. QED BY <1>5, <1>6, <1>11, <1>12, <1>13, <1>14, <1>15 DEF Fallen, at

LEMMA FallenFirst == ASSUME NEW p \in Seq(Int) PROVE Fallen(Flat, p, 0)
<1>1. SumTo(p, 0) = 0
  <2>1. Len(p) \in Nat /\ \A i \in 1..Len(p) : p[i] \in Int
    OBVIOUS
  <2>. QED BY <2>1, SumToGrows
<1>2. \A i \in 0..0 : i = 0
  OBVIOUS
<1>. QED BY <1>1, <1>2 DEF Fallen, Flat

LEMMA FallenAlways ==
  ASSUME NEW p \in Seq(Int), NEW e, EquityRun(e, p)
  PROVE  Fallen(e[Len(p)], p, Len(p))
<1>. DEFINE n == Len(p)
            S == {k \in 0..n : Fallen(e[k], p, k)}
<1>1. n \in Nat
  OBVIOUS
<1>2. e[0] = Flat /\ \A k \in 1..n : e[k] = EquityStep(e[k - 1], p[k])
  BY <1>1 DEF EquityRun
<1>3. 0 \in S
  BY <1>1, <1>2, FallenFirst
<1>4. ASSUME NEW k \in 1..n, k - 1 \in S PROVE k \in S
  BY <1>1, <1>2, <1>4, FallenNext
<1>5. 0..n \subseteq S
  <2>. HIDE DEF S
  <2>. QED BY <1>1, <1>3, <1>4, Climb
<1>6. n \in 0..n
  BY <1>1
<1>. QED BY <1>5, <1>6

LEMMA DrawdownHolds ==
  ASSUME journal \in Seq(Rows)
  PROVE  DrawdownIsWorst
<1>. DEFINE p == Pnls(Closed(journal))
            n == Len(p)
            at(i) == Total(SubSeq(p, 1, i))
            worst == Equity(p).fall
<1>1. p \in Seq(Int)
  BY ClosedIs, PnlsAre
<1>. HIDE DEF p
<1>2. PICK e : EquityRun(e, p) /\ Equity(p) = e[Len(p)]
  BY <1>1, EquityIs
<1>3. Fallen(Equity(p), p, n)
  BY <1>1, <1>2, FallenAlways
<1>4. \A i \in 0..n : at(i) = SumTo(p, i)
  BY <1>1, TotalIs
<1>. HIDE DEF at, n
<1>5. /\ \A i, j \in 0..n : i <= j => at(i) - at(j) <= worst
      /\ \E i, j \in 0..n : i <= j /\ at(i) - at(j) = worst
  BY <1>3, <1>4 DEF Fallen
<1>. QED BY <1>5 DEF DrawdownIsWorst, p, at, n

-----------------------------------------------------------------------------
(* Streaks *)

NoStreak == [now |-> 0, all |-> <<>>]
StreakStates == [now : Nat, all : Seq(Nat)]
StreakRun(e, h) == e = [k \in 0..Len(h) |-> IF k = 0 THEN NoStreak ELSE StreakStep(e[k - 1], h[k])]
Ended(s) == IF s.now > 0 THEN Append(s.all, s.now) ELSE s.all

LEMMA StreakStepType ==
  ASSUME NEW s \in StreakStates, NEW match
  PROVE  StreakStep(s, match) \in StreakStates
<1>1. s.now \in Nat /\ s.all \in Seq(Nat) /\ Append(s.all, s.now) \in Seq(Nat)
  BY DEF StreakStates
<1>2. [s EXCEPT !.now = @ + 1] \in StreakStates
  BY DEF StreakStates
<1>. QED BY <1>1, <1>2 DEF StreakStep, StreakStates

LEMMA StreakRuns ==
  ASSUME NEW n \in Nat, NEW h, Len(h) = n
  PROVE  \E e : StreakRun(e, h) /\ e \in [0..n -> StreakStates]
<1>. DEFINE step == [k \in 1..n |-> [s \in StreakStates |-> StreakStep(s, h[k])]]
<1>2. NoStreak \in StreakStates
  BY DEF NoStreak, StreakStates
<1>3. IsSteps(step, n, StreakStates)
  BY StreakStepType DEF IsSteps
<1>4. \A k \in 1..n : \A s \in StreakStates : step[k][s] = StreakStep(s, h[k])
  OBVIOUS
<1>. HIDE DEF step
<1>5. PICK e : IsScan(e, step, n, StreakStates, NoStreak)
  BY <1>2, <1>3, ScanExists
<1>6. e \in [0..n -> StreakStates] /\ e[0] = NoStreak /\ \A k \in 1..n : e[k] = step[k][e[k - 1]]
  BY <1>5 DEF IsScan
<1>7. ASSUME NEW k \in 1..n PROVE e[k] = StreakStep(e[k - 1], h[k])
  <2>1. k - 1 \in 0..n
    OBVIOUS
  <2>. QED BY <1>4, <1>6, <2>1
<1>8. \A k \in 0..n : k # 0 => k \in 1..n
  OBVIOUS
<1>9. e = [k \in 0..n |-> IF k = 0 THEN NoStreak ELSE StreakStep(e[k - 1], h[k])]
  BY <1>6, <1>7, <1>8
<1>10. StreakRun(e, h)
  BY <1>9 DEF StreakRun
<1>. QED BY <1>6, <1>10

\* There is one such run.
LEMMA StreakRunAlone ==
  ASSUME NEW n \in Nat, NEW h, Len(h) = n, NEW e, StreakRun(e, h), NEW t, StreakRun(t, h)
  PROVE  e = t
<1>. DEFINE S == {k \in 0..n : e[k] = t[k]}
<1>1. /\ e[0] = NoStreak /\ \A k \in 1..n : e[k] = StreakStep(e[k - 1], h[k])
      /\ t[0] = NoStreak /\ \A k \in 1..n : t[k] = StreakStep(t[k - 1], h[k])
  BY DEF StreakRun
<1>2. 0 \in S
  BY <1>1
<1>3. ASSUME NEW k \in 1..n, k - 1 \in S PROVE k \in S
  BY <1>1, <1>3
<1>4. 0..n \subseteq S
  <2>. HIDE DEF S
  <2>. QED BY <1>2, <1>3, Climb
<1>5. e = [k \in 0..n |-> e[k]] /\ t = [k \in 0..n |-> t[k]]
  BY DEF StreakRun
<1>. QED BY <1>4, <1>5

LEMMA StreaksAre ==
  ASSUME NEW n \in Nat, NEW h, Len(h) = n
  PROVE  \E e : StreakRun(e, h) /\ e \in [0..n -> StreakStates] /\ Streaks(h) = Ended(e[n])
<1>. DEFINE e == CHOOSE e : StreakRun(e, h)
<1>1. StreakRun(e, h)
  BY StreakRuns
<1>2. Streaks(h) = Ended(e[n])
  BY DEF Streaks, StreakRun, NoStreak, Ended
<1>. HIDE DEF e
<1>3. PICK t : StreakRun(t, h) /\ t \in [0..n -> StreakStates]
  BY StreakRuns
<1>4. e = t
  BY <1>1, <1>3, StreakRunAlone
<1>. QED BY <1>1, <1>2, <1>3, <1>4

LEMMA RangeGrows ==
  ASSUME NEW s \in Seq(Nat), NEW x \in Nat
  PROVE  Range(Append(s, x)) = Range(s) \cup {x}
<1>. DEFINE t == Append(s, x)
<1>1. Len(s) \in Nat /\ DOMAIN s = 1..Len(s) /\ DOMAIN t = 1..(Len(s) + 1)
  OBVIOUS
<1>2. (\A i \in 1..Len(s) : t[i] = s[i]) /\ t[Len(s) + 1] = x
  OBVIOUS
<1>3. \A i \in 1..(Len(s) + 1) : i \in 1..Len(s) \/ i = Len(s) + 1
  BY <1>1
<1>4. \A i \in 1..Len(s) : i \in 1..(Len(s) + 1)
  BY <1>1
<1>5. Len(s) + 1 \in 1..(Len(s) + 1)
  BY <1>1
<1>. HIDE DEF t
<1>. QED BY <1>1, <1>2, <1>3, <1>4, <1>5 DEF Range, t

\* The longest of the streaks that ended and of the one that lasts.
Tops(m, s) ==
  /\ m \in Nat /\ m >= s.now /\ \A x \in Range(s.all) : x <= m
  /\ m \in Range(s.all) \cup {s.now, 0}

LEMMA TopsNext ==
  ASSUME NEW s \in StreakStates, NEW m, Tops(m, s), NEW match \in BOOLEAN,
         NEW c, c = (IF match THEN s.now + 1 ELSE 0), NEW t, t = StreakStep(s, match)
  PROVE  t.now = c /\ Tops(IF c > m THEN c ELSE m, t)
<1>1. s.now \in Nat /\ s.all \in Seq(Nat) /\ m \in Nat
  BY DEF StreakStates, Tops
<1>2. CASE match
  <2>1. t.now = s.now + 1 /\ t.all = s.all
    BY <1>1, <1>2 DEF StreakStep, StreakStates
  <2>. DEFINE R == Range(s.all)
              new == IF c > m THEN c ELSE m
  <2>2. c = s.now + 1 /\ Range(t.all) = R
    BY <1>2, <2>1
  <2>3. m >= s.now /\ (\A x \in R : x <= m /\ x \in Int) /\ m \in R \cup {s.now, 0}
    <3>1. \A x \in R : x \in Nat
      BY <1>1 DEF Range
    <3>. QED BY <3>1 DEF Tops
  <2>. HIDE DEF R
  <2>4. new \in Nat /\ new >= c /\ new >= m /\ (new = c \/ new = m) /\ (new = m => m # s.now)
    BY <1>1, <2>2, <2>3
  <2>5. \A x \in R : x <= new
    BY <1>1, <2>3, <2>4
  <2>6. new \in R \cup {c, 0}
    BY <2>2, <2>3, <2>4
  <2>. QED BY <2>1, <2>2, <2>4, <2>5, <2>6 DEF Tops
<1>3. CASE ~match /\ s.now > 0
  <2>1. t.now = 0 /\ t.all = Append(s.all, s.now)
    BY <1>1, <1>3 DEF StreakStep
  <2>2. Range(t.all) = Range(s.all) \cup {s.now}
    BY <1>1, <2>1, RangeGrows
  <2>. QED BY <1>1, <1>3, <2>1, <2>2 DEF Tops
<1>4. CASE ~match /\ ~(s.now > 0)
  <2>1. t = s /\ s.now = 0
    BY <1>1, <1>4 DEF StreakStep
  <2>. QED BY <1>1, <1>4, <2>1 DEF Tops
<1>. QED BY <1>2, <1>3, <1>4

\* What counts matches in a row, and what keeps the highest count.
Counting(c, h, n) == c[0] = 0 /\ \A k \in 1..n : c[k] = (IF h[k] THEN c[k - 1] + 1 ELSE 0)
KeepsHighest(m, c, n) == m[0] = 0 /\ \A k \in 1..n : m[k] = (IF c[k] > m[k - 1] THEN c[k] ELSE m[k - 1])

\* They find the longest streak.
LEMMA CountedStreaks ==
  ASSUME NEW n \in Nat, NEW h, Len(h) = n, \A k \in 1..n : h[k] \in BOOLEAN,
         NEW c, NEW m, Counting(c, h, n), KeepsHighest(m, c, n)
  PROVE  m[n] = Largest(0, Streaks(h))
<1>1. PICK e : StreakRun(e, h) /\ e \in [0..n -> StreakStates] /\ Streaks(h) = Ended(e[n])
  BY StreaksAre
<1>2. e[0] = NoStreak /\ \A k \in 1..n : e[k] = StreakStep(e[k - 1], h[k])
  BY <1>1 DEF StreakRun
<1>. DEFINE S == {k \in 0..n : e[k].now = c[k] /\ Tops(m[k], e[k])}
<1>3. 0 \in S
  BY <1>2 DEF Counting, KeepsHighest, NoStreak, Tops, Range
<1>4. ASSUME NEW k \in 1..n, k - 1 \in S PROVE k \in S
  <2>1. k - 1 \in 0..n /\ e[k - 1] \in StreakStates
    BY <1>1
  <2>2. e[k - 1].now = c[k - 1] /\ Tops(m[k - 1], e[k - 1])
    BY <1>4
  <2>3. c[k] = IF h[k] THEN e[k - 1].now + 1 ELSE 0
    BY <2>2 DEF Counting
  <2>4. e[k].now = c[k] /\ Tops(IF c[k] > m[k - 1] THEN c[k] ELSE m[k - 1], e[k])
    BY <1>2, <2>1, <2>2, <2>3, TopsNext
  <2>5. m[k] = IF c[k] > m[k - 1] THEN c[k] ELSE m[k - 1]
    BY DEF KeepsHighest
  <2>. QED BY <2>4, <2>5
<1>5. 0..n \subseteq S
  <2>. HIDE DEF S
  <2>. QED BY <1>3, <1>4, Climb
<1>6. Tops(m[n], e[n]) /\ e[n] \in StreakStates
  BY <1>1, <1>5
<1>. DEFINE s == e[n]
            V == {0} \cup Range(Ended(s))
<1>7. s.now \in Nat /\ s.all \in Seq(Nat) /\ m[n] \in Nat
  BY <1>6 DEF StreakStates, Tops
<1>. HIDE DEF s
<1>8. Range(Ended(s)) = Range(s.all) \cup (IF s.now > 0 THEN {s.now} ELSE {})
  BY <1>7, RangeGrows DEF Ended
<1>9. \A x \in V : x <= m[n] /\ x \in Int
  <2>1. \A x \in Range(s.all) : x \in Nat
    BY <1>7 DEF Range
  <2>. QED BY <1>6, <1>7, <1>8, <2>1 DEF Tops, s
<1>10. m[n] \in V
  BY <1>6, <1>7, <1>8 DEF Tops, s
<1>. HIDE DEF V
<1>11. \A x \in V : (\A y \in V : x >= y) => x = m[n]
  BY <1>7, <1>9, <1>10
<1>12. \A y \in V : m[n] >= y
  BY <1>7, <1>9
<1>13. Max(V) = m[n]
  BY <1>10, <1>11, <1>12 DEF Max
<1>. QED BY <1>1, <1>13 DEF Largest, V, s

LEMMA CountRuns ==
  ASSUME NEW p \in Seq(Int)
  PROVE  \E e : /\ DOMAIN e = 0..Len(p) /\ e[0] = [wins |-> 0, losses |-> 0, maxWins |-> 0, maxLosses |-> 0]
                /\ \A k \in 1..Len(p) : e[k] = CountStep(e[k - 1], p[k])
                /\ MaxConsecutive(p) = e[Len(p)]
<1>. DEFINE n == Len(p)
            A == [wins : Nat, losses : Nat, maxWins : Nat, maxLosses : Nat]
            none == [wins |-> 0, losses |-> 0, maxWins |-> 0, maxLosses |-> 0]
            step == [k \in 1..n |-> [s \in A |-> CountStep(s, p[k])]]
            Runs(e) == e = [k \in 0..n |-> IF k = 0 THEN none ELSE CountStep(e[k - 1], p[k])]
<1>1. n \in Nat /\ \A k \in 1..n : p[k] \in Int
  OBVIOUS
<1>2. none \in A
  OBVIOUS
<1>3. ASSUME NEW s \in A, NEW pnl PROVE CountStep(s, pnl) \in A
  BY DEF CountStep
<1>4. IsSteps(step, n, A)
  <2>. HIDE DEF A, n
  <2>. QED BY <1>3 DEF IsSteps
<1>5. \A k \in 1..n : \A s \in A : step[k][s] = CountStep(s, p[k])
  OBVIOUS
<1>. HIDE DEF step, n, A, none
<1>6. PICK e : IsScan(e, step, n, A, none)
  BY <1>1, <1>2, <1>4, ScanExists
<1>7. e \in [0..n -> A] /\ e[0] = none /\ \A k \in 1..n : e[k] = step[k][e[k - 1]]
  BY <1>6 DEF IsScan
<1>8. ASSUME NEW k \in 1..n PROVE e[k] = CountStep(e[k - 1], p[k])
  <2>1. k - 1 \in 0..n
    BY <1>1
  <2>. QED BY <1>5, <1>7, <2>1
<1>9. \A k \in 0..n : k # 0 => k \in 1..n
  BY <1>1
<1>10. Runs(e)
  BY <1>7, <1>8, <1>9
<1>. DEFINE f == CHOOSE f : Runs(f)
<1>11. Runs(f)
  BY <1>10
<1>12. MaxConsecutive(p) = f[n]
  BY DEF MaxConsecutive, n, none
<1>. HIDE DEF f
<1>13. DOMAIN f = 0..n /\ f[0] = none /\ \A k \in 1..n : f[k] = CountStep(f[k - 1], p[k])
  BY <1>1, <1>11
<1>. QED BY <1>12, <1>13 DEF n, none

LEMMA StreaksHold ==
  ASSUME journal \in Seq(Rows)
  PROVE  StreaksAgree
<1>. DEFINE p == Pnls(Closed(journal))
            n == Len(p)
            won == [i \in DOMAIN p |-> p[i] > 0]
            lost == [i \in DOMAIN p |-> p[i] < 0]
<1>1. p \in Seq(Int)
  BY ClosedIs, PnlsAre
<1>. HIDE DEF p
<1>2. n \in Nat /\ DOMAIN p = 1..n /\ \A i \in 1..n : p[i] \in Int
  BY <1>1
<1>3. PICK e : /\ DOMAIN e = 0..n /\ e[0] = [wins |-> 0, losses |-> 0, maxWins |-> 0, maxLosses |-> 0]
               /\ \A k \in 1..n : e[k] = CountStep(e[k - 1], p[k])
               /\ MaxConsecutive(p) = e[n]
  BY <1>1, CountRuns
<1>4. /\ Len(won) = n /\ Len(lost) = n
      /\ \A k \in 1..n : won[k] \in BOOLEAN /\ lost[k] \in BOOLEAN
      /\ \A k \in 1..n : (won[k] <=> p[k] > 0) /\ (lost[k] <=> p[k] < 0)
  <2>. HIDE DEF n
  <2>1. DOMAIN won = 1..n /\ DOMAIN lost = 1..n
    BY <1>2
  <2>2. Len(won) = n /\ Len(lost) = n
    BY <1>2, <2>1
  <2>3. \A k \in 1..n : won[k] = (p[k] > 0) /\ lost[k] = (p[k] < 0)
    BY <1>2
  <2>. HIDE DEF won, lost, p
  <2>4. ASSUME NEW k \in 1..n PROVE won[k] \in BOOLEAN /\ lost[k] \in BOOLEAN
    <3>1. (p[k] > 0) \in BOOLEAN /\ (p[k] < 0) \in BOOLEAN
      OBVIOUS
    <3>. QED BY <2>3, <3>1
  <2>5. ASSUME NEW k \in 1..n PROVE won[k] <=> p[k] > 0
    BY <2>3, Zenon
  <2>6. ASSUME NEW k \in 1..n PROVE lost[k] <=> p[k] < 0
    BY <2>3, Zenon
  <2>. QED BY <2>2, <2>4, <2>5, <2>6
<1>. DEFINE cw == [k \in 0..n |-> e[k].wins]
            mw == [k \in 0..n |-> e[k].maxWins]
            cl == [k \in 0..n |-> e[k].losses]
            ml == [k \in 0..n |-> e[k].maxLosses]
<1>5. \A k \in 0..n : cw[k] = e[k].wins /\ mw[k] = e[k].maxWins /\ cl[k] = e[k].losses /\ ml[k] = e[k].maxLosses
  OBVIOUS
<1>6. \A k \in 1..n : k \in 0..n /\ k - 1 \in 0..n
  BY <1>2
<1>7. 0 \in 0..n /\ n \in 0..n
  BY <1>2
<1>. HIDE DEF cw, mw, cl, ml, won, lost, n
<1>8. cw[0] = 0 /\ mw[0] = 0 /\ cl[0] = 0 /\ ml[0] = 0
  BY <1>3, <1>5, <1>7
<1>9. ASSUME NEW k \in 1..n
      PROVE  /\ cw[k] = IF won[k] THEN cw[k - 1] + 1 ELSE 0
             /\ mw[k] = IF cw[k] > mw[k - 1] THEN cw[k] ELSE mw[k - 1]
             /\ cl[k] = IF lost[k] THEN cl[k - 1] + 1 ELSE 0
             /\ ml[k] = IF cl[k] > ml[k - 1] THEN cl[k] ELSE ml[k - 1]
  <2>. DEFINE s == e[k - 1]
  <2>1. e[k] = CountStep(s, p[k])
    BY <1>3
  <2>2. k \in 0..n /\ k - 1 \in 0..n
    BY <1>6
  <2>3. (won[k] <=> p[k] > 0) /\ (lost[k] <=> p[k] < 0)
    BY <1>4
  <2>4. cw[k] = e[k].wins /\ mw[k] = e[k].maxWins /\ cl[k] = e[k].losses /\ ml[k] = e[k].maxLosses
    BY <1>5, <2>2
  <2>5. cw[k - 1] = s.wins /\ mw[k - 1] = s.maxWins /\ cl[k - 1] = s.losses /\ ml[k - 1] = s.maxLosses
    BY <1>5, <2>2
  <2>. HIDE DEF s
  <2>6. /\ e[k].wins = IF won[k] THEN s.wins + 1 ELSE 0
        /\ e[k].losses = IF lost[k] THEN s.losses + 1 ELSE 0
    BY <2>1, <2>3 DEF CountStep
  <2>7. /\ e[k].maxWins = IF e[k].wins > s.maxWins THEN e[k].wins ELSE s.maxWins
        /\ e[k].maxLosses = IF e[k].losses > s.maxLosses THEN e[k].losses ELSE s.maxLosses
    BY <2>1 DEF CountStep
  <2>. QED BY <2>4, <2>5, <2>6, <2>7
<1>10. mw[n] = Largest(0, Streaks(won))
  <2>1. n \in Nat /\ Len(won) = n /\ \A k \in 1..n : won[k] \in BOOLEAN
    BY <1>2, <1>4
  <2>2. Counting(cw, won, n) /\ KeepsHighest(mw, cw, n)
    BY <1>8, <1>9 DEF Counting, KeepsHighest
  <2>. QED BY <2>1, <2>2, CountedStreaks
<1>11. ml[n] = Largest(0, Streaks(lost))
  <2>1. n \in Nat /\ Len(lost) = n /\ \A k \in 1..n : lost[k] \in BOOLEAN
    BY <1>2, <1>4
  <2>2. Counting(cl, lost, n) /\ KeepsHighest(ml, cl, n)
    BY <1>8, <1>9 DEF Counting, KeepsHighest
  <2>. QED BY <2>1, <2>2, CountedStreaks
<1>. QED BY <1>3, <1>5, <1>7, <1>10, <1>11 DEF StreaksAgree, won, lost, p

-----------------------------------------------------------------------------
(* The expectancy *)

LEMMA SumApart ==
  ASSUME NEW A, NEW B, IsFiniteSet(A), IsFiniteSet(B), A \cap B = {}, NEW a, \A i \in A \cup B : a[i] \in Int
  PROVE  SumFunctionOnSet(a, A \cup B) = SumFunctionOnSet(a, A) + SumFunctionOnSet(a, B)
<1>. DEFINE Adds(T) == SumFunctionOnSet(a, A \cup T) = SumFunctionOnSet(a, A) + SumFunctionOnSet(a, T)
            Bad == {T \in SUBSET B : ~Adds(T)}
<1>. SUFFICES ASSUME Bad # {} PROVE FALSE
  <2>1. B \in SUBSET B
    OBVIOUS
  <2>. QED BY <2>1
<1>1. PICK T \in Bad : \A U \in Bad : U \subseteq T => U = T
  <2>1. Bad \subseteq SUBSET B
    OBVIOUS
  <2>. HIDE DEF Bad
  <2>. QED BY <2>1, SmallestSubset
<1>2. T \subseteq B /\ IsFiniteSet(T) /\ ~Adds(T)
  <2>1. T \subseteq B /\ ~Adds(T)
    OBVIOUS
  <2>. QED BY <2>1, FS_Subset
<1>3. SumFunctionOnSet(a, A) \in Int
  BY ProfitType
<1>4. T # {}
  <2>. SUFFICES ASSUME T = {} PROVE FALSE
    OBVIOUS
  <2>1. SumFunctionOnSet(a, T) = 0
    BY SumEmpty
  <2>2. A \cup T = A
    OBVIOUS
  <2>. DEFINE sum == SumFunctionOnSet(a, A)
  <2>3. sum = sum + 0
    BY <1>3
  <2>4. Adds(T)
    BY <2>1, <2>2, <2>3
  <2>. QED BY <1>2, <2>4
<1>5. PICK x : x \in T
  BY <1>4
<1>. DEFINE U == T \ {x}
<1>6. U \subseteq T /\ U # T /\ U \in SUBSET B
  BY <1>2, <1>5
<1>7. Adds(U)
  BY <1>1, <1>6
<1>8. IsFiniteSet(A \cup T) /\ (A \cup T) \ {x} = A \cup U /\ x \in A \cup T /\ \A i \in A \cup T : a[i] \in Int
  <2>1. IsFiniteSet(A \cup T)
    BY <1>2, FS_Union
  <2>2. x \notin A
    BY <1>2, <1>5
  <2>. QED BY <1>2, <1>5, <2>1, <2>2
<1>9. SumFunctionOnSet(a, A \cup T) = a[x] + SumFunctionOnSet(a, A \cup U)
  BY <1>8, ProfitWithout
<1>10. SumFunctionOnSet(a, T) = a[x] + SumFunctionOnSet(a, U)
  BY <1>2, <1>5, <1>8, ProfitWithout
<1>11. IsFiniteSet(U) /\ \A i \in U : a[i] \in Int
  BY <1>2, <1>6, FS_Subset
<1>. HIDE DEF U
<1>12. SumFunctionOnSet(a, U) \in Int
  BY <1>11, ProfitType
<1>13. a[x] \in Int
  BY <1>5, <1>8
<1>. QED BY <1>2, <1>3, <1>7, <1>9, <1>10, <1>12, <1>13

\* Of losses the sum is none but a loss, and nothing adds nothing.
LEMMA SumSign ==
  ASSUME NEW S, IsFiniteSet(S), NEW a, \A i \in S : a[i] \in Int
  PROVE  /\ (\A i \in S : a[i] <= 0) => SumFunctionOnSet(a, S) <= 0
         /\ (\A i \in S : a[i] >= 0) => SumFunctionOnSet(a, S) >= 0
<1>. DEFINE t == SumFunctionOnSet(a, S)
            Right(T) == LET s == SumFunctionOnSet(a, T)
                        IN  ((\A i \in S : a[i] <= 0) => s <= 0) /\ ((\A i \in S : a[i] >= 0) => s >= 0)
            Bad == {T \in SUBSET S : ~Right(T)}
<1>. SUFFICES ASSUME Bad # {} PROVE FALSE
  <2>1. S \in SUBSET S
    OBVIOUS
  <2>2. Right(S)
    BY <2>1
  <2>. QED BY <2>2
<1>1. PICK T \in Bad : \A U \in Bad : U \subseteq T => U = T
  <2>1. Bad \subseteq SUBSET S
    OBVIOUS
  <2>. HIDE DEF Bad
  <2>. QED BY <2>1, SmallestSubset
<1>2. T \subseteq S /\ IsFiniteSet(T) /\ ~Right(T)
  <2>1. T \subseteq S /\ ~Right(T)
    OBVIOUS
  <2>. QED BY <2>1, FS_Subset
<1>3. T # {}
  <2>1. SumFunctionOnSet(a, {}) = 0
    BY SumEmpty
  <2>2. Right({})
    BY <2>1
  <2>. QED BY <1>2, <2>2
<1>4. PICK x : x \in T
  BY <1>3
<1>. DEFINE U == T \ {x}
<1>5. U \subseteq T /\ U # T /\ U \in SUBSET S
  BY <1>2, <1>4
<1>6. Right(U)
  BY <1>1, <1>5
<1>7. SumFunctionOnSet(a, T) = a[x] + SumFunctionOnSet(a, U)
  BY <1>2, <1>4, ProfitWithout
<1>8. IsFiniteSet(U) /\ \A i \in U : a[i] \in Int
  BY <1>2, <1>5, FS_Subset
<1>. HIDE DEF U
<1>9. SumFunctionOnSet(a, U) \in Int
  BY <1>8, ProfitType
<1>10. x \in S /\ a[x] \in Int
  BY <1>2, <1>4
<1>11. (\A i \in S : a[i] <= 0) => SumFunctionOnSet(a, T) <= 0
  BY <1>6, <1>7, <1>9, <1>10
<1>12. (\A i \in S : a[i] >= 0) => SumFunctionOnSet(a, T) >= 0
  BY <1>6, <1>7, <1>9, <1>10
<1>. QED BY <1>2, <1>11, <1>12

\* The arithmetic of the gap between the average and the expectancy.
LEMMA GapIs ==
  ASSUME NEW n \in Int, NEW w \in Int, NEW l \in Int, NEW won \in Int, NEW lost \in Int
  PROVE  (won - lost) * (n * l) - (won * l - (n - w) * lost) * n = (n * lost) * (n - w - l)
<1>1. (won - lost) * (n * l) = won * n * l - lost * n * l
  OBVIOUS
<1>2. (won * l - (n - w) * lost) * n = won * l * n - (n * lost - w * lost) * n
  OBVIOUS
<1>3. (n * lost - w * lost) * n = n * lost * n - w * lost * n
  OBVIOUS
<1>4. (n * lost) * (n - w - l) = n * lost * n - n * lost * w - n * lost * l
  OBVIOUS
<1>. QED BY <1>1, <1>2, <1>3, <1>4

-----------------------------------------------------------------------------
(* The book *)

BookLike(r) ==
  /\ r \in [id : {r.id}, contract : {r.contract}, exit : Nat, pnl : Int, status : {r.status}, verdict : {r.verdict},
          reasons : {r.reasons}, points : Nat \cup {Unknown}, score : Nat \cup {Unknown}, strong : {r.strong}]

\* Points on the side of the threshold on which the verdict is.
Settled(r) ==
  /\ r.points \in Nat
  /\ r.verdict = "PASS" /\ r.reasons = {} => r.points >= 7
  /\ r.verdict = "FAIL" /\ r.reasons # {} => r.points < 7

LEMMA MinAtMost ==
  ASSUME NEW a \in Int, NEW b \in Int
  PROVE  Min({a, b}) = (IF a <= b THEN a ELSE b)
<1>1. Min({a, b}) \in {a, b} /\ Min({a, b}) <= a /\ Min({a, b}) <= b
  BY MinOfTwo
<1>. QED BY <1>1

LEMMA MaxAtLeast ==
  ASSUME NEW a \in Int, NEW b \in Int
  PROVE  Max({a, b}) = (IF a >= b THEN a ELSE b)
<1>1. Max({a, b}) \in {a, b} /\ Max({a, b}) >= a /\ Max({a, b}) >= b
  BY MaxOfTwo
<1>. QED BY <1>1

\* The points that a record tells.
Told(r) ==
  IF r.points # Unknown THEN r.points
  ELSE IF r.score = Unknown THEN 7 ELSE IF r.score <= 10 THEN r.score ELSE r.score \div 10

LEMMA InferredIs ==
  ASSUME NEW r, BookLike(r)
  PROVE  /\ Told(r) \in Nat
         /\ InferStrictScore(r) = (IF r.verdict = "FAIL" /\ r.reasons # {} THEN IF Told(r) <= 6 THEN Told(r) ELSE 6
                                   ELSE IF r.verdict = "PASS" /\ r.reasons = {} THEN IF Told(r) >= 7 THEN Told(r) ELSE 7
                                   ELSE Told(r))
<1>1. r.points \in Nat \cup {-1} /\ r.score \in Nat \cup {-1}
  BY DEF BookLike, Unknown
<1>2. Told(r) \in Nat
  <2>1. r.score \in Nat => r.score \div 10 \in Nat
    BY Quotient
  <2>. QED BY <1>1, <2>1 DEF Told, Unknown
<1>. DEFINE t == Told(r)
<1>3. InferStrictScore(r) = CASE r.verdict = "FAIL" /\ r.reasons # {} -> Min({t, 6})
                              [] r.verdict = "PASS" /\ r.reasons = {} -> Max({t, 7})
                              [] OTHER -> t
  BY DEF InferStrictScore, Told
<1>. HIDE DEF t
<1>4. Min({t, 6}) = (IF t <= 6 THEN t ELSE 6) /\ Max({t, 7}) = (IF t >= 7 THEN t ELSE 7)
  BY <1>2, MinAtMost, MaxAtLeast DEF t
<1>. QED BY <1>2, <1>3, <1>4 DEF t

LEMMA BackfilledIs ==
  ASSUME NEW r, BookLike(r), NEW b, b = Backfilled(r)
  PROVE  /\ BookLike(b) /\ Settled(b) /\ Backfilled(b) = b
         /\ DedupeKey(b) = DedupeKey(r) /\ b.pnl = r.pnl /\ b.exit = r.exit /\ b.status = r.status
<1>. DEFINE x == InferStrictScore(r)
<1>1. b = [id |-> r.id, contract |-> r.contract, exit |-> r.exit, pnl |-> r.pnl, status |-> r.status,
           verdict |-> r.verdict, reasons |-> r.reasons, points |-> x, score |-> r.score, strong |-> r.strong]
  <2>. HIDE DEF x
  <2>1. r = [id |-> r.id, contract |-> r.contract, exit |-> r.exit, pnl |-> r.pnl, status |-> r.status,
           verdict |-> r.verdict, reasons |-> r.reasons, points |-> r.points, score |-> r.score, strong |-> r.strong]
    BY DEF BookLike
  <2>2. b = [r EXCEPT !.points = x]
    BY DEF Backfilled, x
  <2>. QED BY <2>1, <2>2
<1>2. x \in Nat /\ (r.verdict = "PASS" /\ r.reasons = {} => x >= 7) /\ (r.verdict = "FAIL" /\ r.reasons # {} => x < 7)
  BY InferredIs
<1>. HIDE DEF x
<1>3. r.exit \in Nat /\ r.pnl \in Int /\ r.score \in Nat \cup {Unknown}
  BY DEF BookLike
<1>4. BookLike(b)
  BY <1>1, <1>2, <1>3 DEF BookLike
<1>5. Settled(b)
  BY <1>1, <1>2 DEF Settled
<1>6. Told(b) = x
  BY <1>1, <1>2 DEF Told, Unknown
<1>7. InferStrictScore(b) = x
  BY <1>1, <1>2, <1>4, <1>6, InferredIs
<1>8. Backfilled(b) = b
  <2>1. Backfilled(b) = [b EXCEPT !.points = x]
    BY <1>7 DEF Backfilled
  <2>2. [b EXCEPT !.points = x] = b
    BY <1>1
  <2>. QED BY <2>1, <2>2
<1>9. DedupeKey(b) = DedupeKey(r)
  BY <1>1 DEF DedupeKey
<1>. QED BY <1>1, <1>4, <1>5, <1>8, <1>9

IsBook(rows) == Len(rows) \in Nat /\ DOMAIN rows = 1..Len(rows) /\ \A i \in 1..Len(rows) : BookLike(rows[i])

\* Of each key the last record: no two of them have the same.
KeysApart(rows) == \A i, j \in 1..Len(rows) : i < j => DedupeKey(rows[i]) # DedupeKey(rows[j])

\* Some rows in their order: later ones are from later places.
LEMMA ChosenIs ==
  ASSUME NEW n \in Nat, NEW K, K \subseteq 1..n, NEW rows
  PROVE  \E s : /\ Cardinality(K) \in Nat /\ s \in [1..Cardinality(K) -> K] /\ Onto(s, K)
                /\ \A i, j \in 1..Cardinality(K) : i < j => s[i] < s[j]
                /\ Chosen(rows, K) = Arranged(rows, s, Cardinality(K))
<1>. DEFINE rank == [k \in K |-> 0]
<1>1. \A k \in K : rank[k] = 0 /\ rank[k] \in Int
  OBVIOUS
<1>2. Chosen(rows, K) = InOrder(rows, K, rank)
  BY DEF Chosen
<1>. HIDE DEF rank
<1>3. PICK s : Sorts(s, K, rank)
  BY <1>1, SomeOrder
<1>4. InOrder(rows, K, rank) = Arranged(rows, s, Cardinality(K))
  BY <1>1, <1>3, InOrderIs
<1>5. Cardinality(K) \in Nat /\ s \in [1..Cardinality(K) -> K] /\ Onto(s, K)
  BY <1>3 DEF Sorts
<1>6. ASSUME NEW i \in 1..Cardinality(K), NEW j \in 1..Cardinality(K), i < j PROVE s[i] < s[j]
  <2>1. s[i] \in Preceding(K, rank, s[j]) /\ s[i] \in K /\ s[j] \in K
    BY <1>3, <1>5, <1>6 DEF Sorts
  <2>2. rank[s[i]] = 0 /\ rank[s[j]] = 0
    BY <1>1, <2>1
  <2>. QED BY <2>1, <2>2 DEF Preceding
<1>. QED BY <1>2, <1>4, <1>5, <1>6

LEMMA AllChosen ==
  ASSUME NEW n \in Nat, NEW rows
  PROVE  Chosen(rows, 1..n) = [i \in 1..n |-> rows[i]]
<1>. DEFINE rank == [k \in 1..n |-> 0]
            s == [i \in 1..n |-> i]
<1>1. \A k \in 1..n : rank[k] = 0 /\ rank[k] \in Int
  OBVIOUS
<1>2. Chosen(rows, 1..n) = InOrder(rows, 1..n, rank)
  BY DEF Chosen
<1>3. \A i \in 1..n : s[i] = i
  OBVIOUS
<1>4. s \in [1..n -> 1..n]
  OBVIOUS
<1>. HIDE DEF rank, s
<1>5. Cardinality(1..n) = n
  BY FS_Interval
<1>6. Sorts(s, 1..n, rank)
  <2>1. Onto(s, 1..n)
    BY <1>3, <1>4, <1>5 DEF Onto
  <2>2. \A i, j \in 1..n : i < j => s[i] \in Preceding(1..n, rank, s[j])
    BY <1>1, <1>3 DEF Preceding
  <2>. QED BY <1>4, <1>5, <2>1, <2>2 DEF Sorts
<1>7. InOrder(rows, 1..n, rank) = Arranged(rows, s, n)
  BY <1>1, <1>5, <1>6, InOrderIs
<1>. QED BY <1>2, <1>3, <1>7 DEF Arranged

LEMMA CoerceIs ==
  ASSUME NEW rows, IsBook(rows), NEW once, once = CoerceTradeRecords(rows)
  PROVE  IsBook(once) /\ KeysApart(once) /\ \A k \in DOMAIN once : Settled(once[k]) /\ Backfilled(once[k]) = once[k]
<1>. DEFINE n == Len(rows)
            K == {k \in DOMAIN rows : \A i \in DOMAIN rows : i > k => DedupeKey(rows[i]) # DedupeKey(rows[k])}
            m == Cardinality(K)
            last == Chosen(rows, K)
<1>1. n \in Nat /\ DOMAIN rows = 1..n /\ \A i \in 1..n : BookLike(rows[i])
  BY DEF IsBook
<1>2. K \subseteq 1..n /\ \A k \in K, i \in K : i > k => DedupeKey(rows[i]) # DedupeKey(rows[k])
  BY <1>1
<1>3. once = [i \in DOMAIN last |-> Backfilled(last[i])]
  BY DEF CoerceTradeRecords
<1>. HIDE DEF n, K
<1>4. PICK s : /\ m \in Nat /\ s \in [1..m -> K]
               /\ \A i, j \in 1..m : i < j => s[i] < s[j]
               /\ last = Arranged(rows, s, m)
  BY <1>1, <1>2, ChosenIs
<1>. HIDE DEF m, last
<1>5. DOMAIN last = 1..m /\ \A i \in 1..m : last[i] = rows[s[i]]
  BY <1>4 DEF Arranged
<1>6. DOMAIN once = 1..m /\ Len(once) = m /\ \A i \in 1..m : once[i] = Backfilled(rows[s[i]])
  BY <1>3, <1>4, <1>5
<1>7. \A i \in 1..m : s[i] \in K /\ s[i] \in 1..n
  BY <1>2, <1>4
<1>8. ASSUME NEW i \in 1..m
      PROVE  /\ BookLike(once[i]) /\ Settled(once[i]) /\ Backfilled(once[i]) = once[i]
             /\ DedupeKey(once[i]) = DedupeKey(rows[s[i]])
  <2>. DEFINE r == rows[s[i]]
  <2>1. BookLike(r) /\ once[i] = Backfilled(r)
    BY <1>1, <1>6, <1>7
  <2>. HIDE DEF r
  <2>. QED BY <2>1, BackfilledIs DEF r
<1>9. ASSUME NEW i \in 1..m, NEW j \in 1..m, i < j PROVE DedupeKey(once[i]) # DedupeKey(once[j])
  <2>1. s[i] < s[j] /\ s[i] \in K /\ s[j] \in K
    BY <1>4, <1>7, <1>9
  <2>2. s[j] > s[i]
    BY <1>1, <1>2, <2>1
  <2>. QED BY <1>2, <1>8, <2>1, <2>2
<1>. QED BY <1>4, <1>6, <1>8, <1>9 DEF IsBook, KeysApart

\* Records of one form, no two of the same key, stay what they are.
LEMMA CoerceAgain ==
  ASSUME NEW rows, IsBook(rows), KeysApart(rows), rows = [i \in DOMAIN rows |-> rows[i]],
         \A k \in DOMAIN rows : Backfilled(rows[k]) = rows[k]
  PROVE  CoerceTradeRecords(rows) = rows
<1>. DEFINE n == Len(rows)
            K == {k \in DOMAIN rows : \A i \in DOMAIN rows : i > k => DedupeKey(rows[i]) # DedupeKey(rows[k])}
            last == Chosen(rows, K)
<1>1. n \in Nat /\ DOMAIN rows = 1..n
  BY DEF IsBook
<1>2. \A i, j \in 1..n : i < j => DedupeKey(rows[i]) # DedupeKey(rows[j])
  BY DEF KeysApart
<1>3. K = 1..n
  BY <1>1, <1>2
<1>4. CoerceTradeRecords(rows) = [i \in DOMAIN last |-> Backfilled(last[i])]
  BY DEF CoerceTradeRecords
<1>. HIDE DEF n, K
<1>5. last = [i \in 1..n |-> rows[i]]
  BY <1>1, <1>3, AllChosen
<1>6. last = rows
  BY <1>1, <1>5
<1>. HIDE DEF last
<1>. QED BY <1>1, <1>4, <1>6

LEMMA BookIs ==
  ASSUME book \in Seq(BookEntries)
  PROVE  IsBook(book)
<1>1. Len(book) \in Nat /\ DOMAIN book = 1..Len(book) /\ \A i \in 1..Len(book) : book[i] \in BookEntries
  OBVIOUS
<1>2. \A e \in BookEntries : BookLike(e)
  BY BookAssumption DEF BookLike
<1>. QED BY <1>1, <1>2 DEF IsBook

LEMMA FormHolds ==
  ASSUME book \in Seq(BookEntries)
  PROVE  FormIsFinal
<1>. DEFINE once == CoerceTradeRecords(book)
<1>1. IsBook(book)
  BY BookIs
<1>2. once = [i \in DOMAIN once |-> once[i]]
  BY DEF CoerceTradeRecords
<1>. HIDE DEF once
<1>3. IsBook(once) /\ KeysApart(once) /\ \A k \in DOMAIN once : Settled(once[k]) /\ Backfilled(once[k]) = once[k]
  BY <1>1, CoerceIs DEF once
<1>4. CoerceTradeRecords(once) = once
  BY <1>2, <1>3, CoerceAgain
<1>. QED BY <1>3, <1>4 DEF FormIsFinal, Settled, once

\* The closed ones of a book are a book.
LEMMA ClosedBook ==
  ASSUME NEW rows, IsBook(rows), NEW closed, closed = ClosedTradesOnly(rows)
  PROVE  IsBook(closed)
<1>. DEFINE n == Len(rows)
            K == {k \in DOMAIN rows : HasExited(rows[k])}
            m == Cardinality(K)
<1>1. n \in Nat /\ DOMAIN rows = 1..n /\ \A i \in 1..n : BookLike(rows[i])
  BY DEF IsBook
<1>2. K \subseteq 1..n /\ closed = Chosen(rows, K)
  BY <1>1 DEF ClosedTradesOnly
<1>. HIDE DEF n, K
<1>3. PICK s : m \in Nat /\ s \in [1..m -> K] /\ closed = Arranged(rows, s, m)
  BY <1>1, <1>2, ChosenIs
<1>. HIDE DEF m
<1>4. closed = [i \in 1..m |-> rows[s[i]]]
  BY <1>3 DEF Arranged
<1>5. DOMAIN closed = 1..m /\ Len(closed) = m
  BY <1>3, <1>4
<1>6. \A i \in 1..m : BookLike(closed[i])
  BY <1>1, <1>2, <1>3, <1>4
<1>. QED BY <1>3, <1>5, <1>6 DEF IsBook

LEMMA ExpectancyGap ==
  ASSUME NEW closed, IsBook(closed), NEW n \in Nat \ {0}, Len(closed) = n,
         NEW expected, expected = ExpectancyRatio(closed), NEW gap,
         gap = SumOver(closed, LAMBDA row : TRUE) * expected.under - expected.over * Len(closed)
  PROVE  gap >= 0 /\ ((\A k \in DOMAIN closed : closed[k].pnl # 0) => gap = 0)
<1>. DEFINE W == {k \in DOMAIN closed : closed[k].pnl > 0}
            L == {k \in DOMAIN closed : closed[k].pnl < 0}
            Z == {k \in DOMAIN closed : closed[k].pnl = 0}
            all == [k \in DOMAIN closed |-> closed[k].pnl]
            w == Cardinality(W)
            c == Cardinality(L)
            l == Max({c, 1})
            won == SumFunctionOnSet(all, W)
            lost == -SumFunctionOnSet(all, L)
<1>1. DOMAIN closed = 1..n /\ \A k \in 1..n : BookLike(closed[k])
  BY DEF IsBook
<1>2. \A k \in 1..n : closed[k].pnl \in Int /\ all[k] = closed[k].pnl
  BY <1>1 DEF BookLike
<1>3. /\ W \subseteq 1..n /\ L \subseteq 1..n /\ Z \subseteq 1..n
      /\ W \cap L = {} /\ (W \cup L) \cap Z = {} /\ (W \cup L) \cup Z = 1..n
      /\ (\A k \in DOMAIN closed : closed[k].pnl # 0) => Z = {}
      /\ \A k \in 1..n : (k \in W => all[k] > 0) /\ (k \in L => all[k] <= 0) /\ (k \in Z => all[k] = 0)
  BY <1>1, <1>2
<1>4. SumOver(closed, Won) = won /\ SumOver(closed, Lost) = -lost /\ SumOver(closed, LAMBDA row : TRUE) = SumFunctionOnSet(all, 1..n)
  <2>. DEFINE fw == [k \in W |-> closed[k].pnl]
              fl == [k \in L |-> closed[k].pnl]
              fa == [k \in {k \in DOMAIN closed : TRUE} |-> closed[k].pnl]
  <2>1. SumOver(closed, Won) = SumFunction(fw) /\ SumOver(closed, Lost) = SumFunction(fl)
    BY DEF SumOver, Those, Won, Lost
  <2>2. SumOver(closed, LAMBDA row : TRUE) = SumFunction(fa)
    BY DEF SumOver, Those
  <2>3. DOMAIN fw = W /\ DOMAIN fl = L /\ DOMAIN fa = 1..n
    BY <1>1
  <2>4. /\ \A k \in W : fw[k] = all[k]
        /\ \A k \in L : fl[k] = all[k]
        /\ \A k \in 1..n : fa[k] = all[k]
    BY <1>1
  <2>. HIDE DEF fw, fl, fa, W, L, all
  <2>5. IsFiniteSet(W) /\ IsFiniteSet(L) /\ IsFiniteSet(1..n)
    <3>1. IsFiniteSet(1..n) /\ W \subseteq 1..n /\ L \subseteq 1..n
      BY <1>3, FS_Interval
    <3>. QED BY <3>1, FS_Subset
  <2>6. SumFunctionOnSet(fw, W) = won /\ SumFunctionOnSet(fl, L) = SumFunctionOnSet(all, L)
        /\ SumFunctionOnSet(fa, 1..n) = SumFunctionOnSet(all, 1..n)
    BY <2>4, <2>5, SumSame
  <2>7. SumFunctionOnSet(all, L) \in Int
    BY <1>2, <1>3, <2>5, ProfitType
  <2>. QED BY <2>1, <2>2, <2>3, <2>6, <2>7 DEF SumFunction
<1>5. expected.over = won * l - (n - w) * lost /\ expected.under = n * l
  <2>1. HowMany(closed, Won) = w /\ HowMany(closed, Lost) = c
    BY DEF HowMany, Those, Won, Lost
  <2>. HIDE DEF w, c, won, lost, W, L, all
  <2>2. Max({RatedTrades(closed), 1}) = n
    <3>1. RatedTrades(closed) = n /\ n \in Int /\ n >= 1
      BY DEF RatedTrades
    <3>. QED BY <3>1, MaxAtLeast
  <2>3. -SumOver(closed, Lost) = lost
    <3>1. -(-lost) = lost
      <4>1. SumFunctionOnSet(all, L) \in Int
        <5>1. L \subseteq 1..n
          BY <1>3
        <5>2. IsFiniteSet(1..n)
          BY FS_Interval
        <5>3. IsFiniteSet(L)
          BY <5>1, <5>2, FS_Subset
        <5>4. \A k \in L : all[k] \in Int
          BY <1>2, <5>1
        <5>. QED BY <5>3, <5>4, ProfitType
      <4>. QED BY <4>1 DEF lost
    <3>. QED BY <1>4, <3>1
  <2>. QED BY <1>4, <2>1, <2>2, <2>3 DEF ExpectancyRatio
<1>6. IsFiniteSet(W) /\ IsFiniteSet(L) /\ IsFiniteSet(Z) /\ IsFiniteSet(W \cup L) /\ Cardinality(1..n) = n
  <2>. HIDE DEF W, L, Z, all
  <2>0. IsFiniteSet(1..n) /\ Cardinality(1..n) = n
    BY FS_Interval
  <2>1. IsFiniteSet(1..n) /\ Cardinality(1..n) = n /\ W \subseteq 1..n /\ L \subseteq 1..n /\ Z \subseteq 1..n
    BY <1>3, <2>0
  <2>2. IsFiniteSet(W) /\ IsFiniteSet(L) /\ IsFiniteSet(Z)
    BY <2>1, FS_Subset
  <2>. QED BY <2>1, <2>2, FS_Union
<1>. HIDE DEF W, L, Z, all
<1>7. /\ \A k \in W \cup L : all[k] \in Int
      /\ \A k \in (W \cup L) \cup Z : all[k] \in Int
  BY <1>2, <1>3
<1>8. SumFunctionOnSet(all, (W \cup L) \cup Z) = SumFunctionOnSet(all, W \cup L) + SumFunctionOnSet(all, Z)
  BY <1>3, <1>6, <1>7, SumApart
<1>9. SumFunctionOnSet(all, W \cup L) = won + SumFunctionOnSet(all, L)
  BY <1>3, <1>6, <1>7, SumApart
<1>10. SumFunctionOnSet(all, Z) = 0
  <2>1. \A k \in Z : all[k] = 0 /\ all[k] \in Int
    BY <1>3
  <2>2. SumFunctionOnSet(all, Z) \in Int
    BY <1>6, <2>1, ProfitType
  <2>3. SumFunctionOnSet(all, Z) <= 0 /\ SumFunctionOnSet(all, Z) >= 0
    BY <1>6, <2>1, SumSign
  <2>. QED BY <2>2, <2>3
<1>11. won \in Int /\ SumFunctionOnSet(all, L) \in Int /\ SumFunctionOnSet(all, L) <= 0
  <2>1. \A k \in L : all[k] \in Int /\ all[k] <= 0
    BY <1>2, <1>3
  <2>2. \A k \in W : all[k] \in Int
    BY <1>2, <1>3
  <2>. QED BY <1>6, <2>1, <2>2, ProfitType, SumSign
<1>12. SumFunctionOnSet(all, 1..n) = won - lost /\ lost \in Int /\ lost >= 0
  <2>1. SumFunctionOnSet(all, 1..n) = SumFunctionOnSet(all, (W \cup L) \cup Z)
    BY <1>3
  <2>. DEFINE t == SumFunctionOnSet(all, L)
              u == SumFunctionOnSet(all, 1..n)
  <2>2. u = (won + t) + 0 /\ won \in Int /\ t \in Int /\ t <= 0 /\ lost = -t
    BY <1>8, <1>9, <1>10, <1>11, <2>1
  <2>. HIDE DEF t, u, lost, won
  <2>3. u = won - lost /\ lost \in Int /\ lost >= 0
    BY <2>2
  <2>. QED BY <2>3 DEF u
<1>13. w \in Nat /\ c \in Nat /\ w + c <= n /\ (Z = {} => w + c = n)
  <2>1. w \in Nat /\ c \in Nat /\ Cardinality(Z) \in Nat /\ Cardinality(W \cup L) \in Nat
    BY <1>6, FS_CardinalityType
  <2>2. Cardinality(W \cup L) = w + c
    <3>1. Cardinality(W \cap L) = 0
      BY <1>3, FS_EmptySet
    <3>2. Cardinality(W \cup L) = Cardinality(W) + Cardinality(L) - Cardinality(W \cap L)
      BY <1>6, FS_Union
    <3>. QED BY <2>1, <3>1, <3>2
  <2>3. n = Cardinality(W \cup L) + Cardinality(Z)
    <3>1. Cardinality((W \cup L) \cap Z) = 0
      BY <1>3, FS_EmptySet
    <3>2. Cardinality((W \cup L) \cup Z) = n
      BY <1>3, <1>6
    <3>. DEFINE A == W \cup L
    <3>3. IsFiniteSet(A) /\ IsFiniteSet(Z)
      BY <1>6
    <3>. HIDE DEF A
    <3>4. Cardinality(A \cup Z) = Cardinality(A) + Cardinality(Z) - Cardinality(A \cap Z)
      BY <3>3, FS_Union
    <3>. QED BY <2>1, <3>1, <3>2, <3>4 DEF A
  <2>4. Z = {} => Cardinality(Z) = 0
    BY FS_EmptySet
  <2>. QED BY <2>1, <2>2, <2>3, <2>4
<1>14. c = 0 => lost = 0
  <2>. SUFFICES ASSUME c = 0 PROVE lost = 0
    OBVIOUS
  <2>1. L = {}
    BY <1>6, FS_EmptySet
  <2>2. SumFunctionOnSet(all, L) = 0
    BY <2>1, SumEmpty
  <2>. DEFINE t == SumFunctionOnSet(all, L)
  <2>3. t = 0 /\ t \in Int /\ lost = -t
    BY <1>11, <2>2
  <2>. HIDE DEF t
  <2>. QED BY <2>3
<1>. HIDE DEF w, c, won, lost
<1>15. l \in Int /\ l = IF c >= 1 THEN c ELSE 1
  BY <1>13, MaxAtLeast
<1>. HIDE DEF l
<1>16. gap = (n * lost) * (n - w - l)
  <2>1. gap = (won - lost) * (n * l) - (won * l - (n - w) * lost) * n
    BY <1>4, <1>5, <1>12
  <2>2. n \in Int /\ w \in Int /\ l \in Int /\ won \in Int /\ lost \in Int
    BY <1>11, <1>12, <1>13, <1>15
  <2>3. (won - lost) * (n * l) - (won * l - (n - w) * lost) * n = (n * lost) * (n - w - l)
    BY <2>2, GapIs
  <2>. QED BY <2>1, <2>3
<1>17. CASE c = 0
  <2>1. lost = 0
    BY <1>14, <1>17
  <2>2. (n * lost) * (n - w - l) = 0
    BY <1>13, <1>15, <2>1
  <2>. QED BY <1>16, <2>2
<1>18. CASE c # 0
  <2>1. l = c /\ n - w - l \in Nat /\ (Z = {} => n - w - l = 0)
    BY <1>13, <1>15, <1>18
  <2>. DEFINE d == n - w - l
              b == n * lost
  <2>2. b \in Nat
    BY <1>12
  <2>3. d \in Nat /\ (Z = {} => d = 0) /\ gap = b * d
    BY <1>16, <2>1
  <2>. HIDE DEF b, d
  <2>4. gap >= 0
    BY <2>2, <2>3
  <2>5. d = 0 => gap = 0
    BY <2>2, <2>3
  <2>. QED BY <1>3, <2>3, <2>4, <2>5
<1>. QED BY <1>13, <1>17, <1>18

LEMMA ExpectancyHolds ==
  ASSUME book \in Seq(BookEntries)
  PROVE  ExpectancyIsCautious
<1>. DEFINE once == CoerceTradeRecords(book)
            closed == ClosedTradesOnly(once)
            n == Len(closed)
<1>1. IsBook(book)
  BY BookIs
<1>2. IsBook(once)
  BY <1>1, CoerceIs
<1>. HIDE DEF once
<1>3. IsBook(closed)
  BY <1>2, ClosedBook
<1>4. closed = [i \in DOMAIN closed |-> closed[i]]
  BY DEF ClosedTradesOnly, Chosen, InOrder
<1>. HIDE DEF closed
<1>5. n \in Nat /\ DOMAIN closed = 1..n
  BY <1>3 DEF IsBook
<1>6. closed # <<>> => n # 0
  <2>. SUFFICES ASSUME n = 0 PROVE closed = <<>>
    BY <1>5
  <2>1. closed = [i \in 1..0 |-> closed[i]]
    BY <1>4, <1>5
  <2>. QED BY <2>1
<1>7. ASSUME closed # <<>>
      PROVE  /\ SumOver(closed, LAMBDA row : TRUE) * ExpectancyRatio(closed).under - ExpectancyRatio(closed).over * Len(closed) >= 0
             /\ (\A k \in DOMAIN closed : closed[k].pnl # 0)
                   => SumOver(closed, LAMBDA row : TRUE) * ExpectancyRatio(closed).under - ExpectancyRatio(closed).over * Len(closed) = 0
  <2>1. n \in Nat \ {0}
    BY <1>5, <1>6, <1>7
  <2>. QED BY <1>3, <2>1, ExpectancyGap
<1>. QED BY <1>7 DEF ExpectancyIsCautious, closed, once

-----------------------------------------------------------------------------
(* The segments *)

LEMMA PartsJoin ==
  ASSUME NEW S, NEW p \in Seq(S), NEW a \in Nat, NEW b \in Nat, a <= b, b <= Len(p)
  PROVE  SubSeq(p, 1, a) \o SubSeq(p, a + 1, b) = SubSeq(p, 1, b)
<1>. DEFINE s == SubSeq(p, 1, a)
            t == SubSeq(p, a + 1, b)
            u == SubSeq(p, 1, b)
<1>1. s \in Seq(S) /\ Len(s) = a /\ \A i \in 1..a : s[i] = p[i]
  OBVIOUS
<1>2. u \in Seq(S) /\ Len(u) = b /\ \A i \in 1..b : u[i] = p[i]
  OBVIOUS
<1>3. t \in Seq(S) /\ Len(t) = b - a /\ \A i \in 1..(b - a) : t[i] = p[i + a]
  <2>1. \A i \in 1..(b - a) : (a + 1) + i - 1 = i + a
    OBVIOUS
  <2>. QED BY <2>1
<1>. HIDE DEF s, t, u
<1>4. s \o t \in Seq(S) /\ Len(s \o t) = b /\ \A i \in 1..b : (s \o t)[i] = IF i <= a THEN s[i] ELSE t[i - a]
  <2>1. s \in Seq(S) /\ t \in Seq(S)
    BY <1>1, <1>3
  <2>2. /\ s \o t \in Seq(S)
        /\ Len(s \o t) = Len(s) + Len(t)
        /\ \A i \in 1..Len(s) + Len(t) : (s \o t)[i] = IF i <= Len(s) THEN s[i] ELSE t[i - Len(s)]
    BY <2>1, ConcatProperties
  <2>3. Len(s) = a /\ Len(s) + Len(t) = b
    BY <1>1, <1>3
  <2>. QED BY <2>2, <2>3
<1>5. ASSUME NEW i \in 1..b PROVE (s \o t)[i] = u[i]
  <2>1. CASE i <= a
    <3>1. i \in 1..a
      BY <2>1
    <3>2. (s \o t)[i] = s[i]
      BY <1>4, <2>1
    <3>. QED BY <1>1, <1>2, <3>1, <3>2
  <2>2. CASE a < i
    <3>1. i - a \in 1..(b - a) /\ (i - a) + a = i /\ ~(i <= a)
      BY <2>2
    <3>2. (s \o t)[i] = t[i - a]
      BY <1>4, <3>1
    <3>3. t[i - a] = p[i]
      BY <1>3, <3>1
    <3>. QED BY <1>2, <3>2, <3>3
  <2>3. i <= a \/ a < i
    OBVIOUS
  <2>. QED BY <2>1, <2>2, <2>3
<1>. QED BY <1>2, <1>4, <1>5, SeqEqual

\* Parts that follow each other, the first from the beginning, flatten to the whole.
PartsFollow(parts, p, ends, m) ==
  /\ DOMAIN parts = 1..m /\ Len(parts) = m
  /\ ends[0] = 0 /\ \A k \in 1..m : /\ ends[k - 1] \in Nat /\ ends[k] \in Nat /\ ends[k - 1] <= ends[k] /\ ends[k] <= Len(p)
                                    /\ parts[k] = SubSeq(p, ends[k - 1] + 1, ends[k])

LEMMA PartsFlatten ==
  ASSUME NEW S, NEW p \in Seq(S), NEW m \in Nat \ {0}, NEW parts, NEW ends, PartsFollow(parts, p, ends, m)
  PROVE  FlattenSeq(parts) = SubSeq(p, 1, ends[m])
<1>. DEFINE Runs(f) == f = [i \in 1..Len(parts) |-> IF i = 1 THEN parts[i] ELSE f[i - 1] \o parts[i]]
            g == [k \in 1..m |-> SubSeq(p, 1, ends[k])]
            flat == CHOOSE f : Runs(f)
<1>1. FlattenSeq(parts) = flat[m]
  BY DEF FlattenSeq, PartsFollow
<1>2. /\ Len(parts) = m /\ ends[0] = 0
      /\ \A k \in 1..m : /\ ends[k - 1] \in Nat /\ ends[k] \in Nat /\ ends[k - 1] <= ends[k] /\ ends[k] <= Len(p)
                         /\ parts[k] = SubSeq(p, ends[k - 1] + 1, ends[k])
  BY DEF PartsFollow
<1>3. ASSUME NEW k \in 1..m PROVE g[k] = IF k = 1 THEN parts[k] ELSE g[k - 1] \o parts[k]
  <2>1. CASE k = 1
    <3>1. k - 1 = 0 /\ ends[0] + 1 = 1
      BY <1>2, <2>1
    <3>2. g[k] = SubSeq(p, 1, ends[k])
      OBVIOUS
    <3>3. parts[k] = SubSeq(p, ends[0] + 1, ends[k])
      BY <1>2, <3>1
    <3>. HIDE DEF g
    <3>. QED BY <2>1, <3>1, <3>2, <3>3
  <2>2. CASE k # 1
    <3>1. k - 1 \in 1..m
      BY <2>2
    <3>2. g[k - 1] = SubSeq(p, 1, ends[k - 1]) /\ g[k] = SubSeq(p, 1, ends[k])
      BY <3>1
    <3>. DEFINE a == ends[k - 1]
                b == ends[k]
    <3>3. a \in Nat /\ b \in Nat /\ a <= b /\ b <= Len(p) /\ parts[k] = SubSeq(p, a + 1, b)
      BY <1>2
    <3>. HIDE DEF a, b, g
    <3>4. SubSeq(p, 1, a) \o SubSeq(p, a + 1, b) = SubSeq(p, 1, b)
      BY <3>3, PartsJoin
    <3>. QED BY <2>2, <3>2, <3>3, <3>4 DEF a, b
  <2>. QED BY <2>1, <2>2
<1>4. \A k \in 1..m : g[k] = SubSeq(p, 1, ends[k])
  OBVIOUS
<1>5. g[m] = SubSeq(p, 1, ends[m])
  <2>1. m \in 1..m
    OBVIOUS
  <2>. HIDE DEF g
  <2>. QED BY <1>4, <2>1
<1>6. g = [k \in 1..m |-> SubSeq(p, 1, ends[k])]
  OBVIOUS
<1>. HIDE DEF g
<1>7. Runs(g)
  <2>1. \A k \in 1..m : SubSeq(p, 1, ends[k]) = IF k = 1 THEN parts[k] ELSE g[k - 1] \o parts[k]
    BY <1>3, <1>4
  <2>2. [k \in 1..m |-> SubSeq(p, 1, ends[k])] = [k \in 1..m |-> IF k = 1 THEN parts[k] ELSE g[k - 1] \o parts[k]]
    BY <2>1
  <2>. QED BY <1>2, <1>6, <2>2
<1>8. Runs(flat)
  BY <1>7
<1>. HIDE DEF flat
<1>9. \A k \in 1..m : flat[k] = IF k = 1 THEN parts[k] ELSE flat[k - 1] \o parts[k]
  BY <1>2, <1>8
<1>. DEFINE T == {k \in 0..m : k = 0 \/ flat[k] = g[k]}
<1>10. 0 \in T
  OBVIOUS
<1>11. ASSUME NEW k \in 1..m, k - 1 \in T PROVE k \in T
  <2>1. k = 1 \/ flat[k - 1] = g[k - 1]
    BY <1>11
  <2>2. flat[k] = g[k]
    BY <1>3, <1>9, <2>1
  <2>. QED BY <2>2
<1>12. 0..m \subseteq T
  <2>. HIDE DEF T
  <2>. QED BY <1>10, <1>11, Climb
<1>13. m \in T /\ m # 0
  <2>1. m \in 0..m
    OBVIOUS
  <2>. QED BY <1>12, <2>1
<1>14. flat[m] = g[m]
  BY <1>13
<1>. QED BY <1>1, <1>5, <1>14

LEMMA SegmentsHold ==
  ASSUME journal \in Seq(Rows)
  PROVE  SegmentsPartition
<1>. DEFINE p == Pnls(Clean(journal))
            n == Len(p)
            c == SegmentCount(n)
            size == Max({n \div c, 1})
            m == Min({c, n})
            ends == [k \in 0..m |-> IF k = c THEN n ELSE k * size]
            parts == Segments(p, c)
<1>1. p \in Seq(Int) /\ n \in Nat
  BY ClosedIs, PnlsAre
<1>. HIDE DEF p
<1>. SUFFICES ASSUME n >= SegmentFloor PROVE FlattenSeq(parts) = p
  BY DEF SegmentsPartition, p
<1>2. n \in Nat \ {0}
  BY <1>1, SegmentAssumption
<1>3. c \in Nat \ {0}
  <2>. DEFINE K == {s \in SegmentSteps : n >= s}
  <2>1. Cardinality(K) \in Nat
    <3>1. IsFiniteSet(SegmentSteps) /\ K \subseteq SegmentSteps
      BY SegmentAssumption
    <3>2. IsFiniteSet(K)
      BY <3>1, FS_Subset
    <3>. QED BY <3>2, FS_CardinalityType
  <2>2. c = BaseSegments + Cardinality(K)
    BY <1>2, SegmentAssumption DEF SegmentCount
  <2>. HIDE DEF K
  <2>. QED BY <2>1, <2>2, SegmentAssumption
<1>. HIDE DEF n, c
<1>4. n \div c \in Nat /\ (n \div c) * c <= n
  BY <1>2, <1>3, Quotient
<1>. DEFINE q == n \div c
<1>5. size = (IF q >= 1 THEN q ELSE 1) /\ m = (IF c <= n THEN c ELSE n)
  <2>1. q \in Int
    BY <1>4
  <2>. HIDE DEF q
  <2>2. Max({q, 1}) = (IF q >= 1 THEN q ELSE 1)
    BY <2>1, MaxAtLeast
  <2>3. Min({c, n}) = (IF c <= n THEN c ELSE n)
    BY <1>2, <1>3, MinAtMost
  <2>. QED BY <2>2, <2>3 DEF q
<1>6. parts = [k \in 1..m |-> SubSeq(p, (k - 1) * size + 1, IF k = c THEN n ELSE k * size)]
  BY <1>3 DEF Segments, n
<1>. HIDE DEF size, m, parts
<1>7. m \in Nat \ {0} /\ size \in Nat \ {0} /\ m <= c
  BY <1>2, <1>3, <1>4, <1>5
<1>8. m * size <= n
  <2>1. CASE c <= n
    <3>1. q >= 1
      <4>1. n < (q + 1) * c
        BY <1>2, <1>3, Quotient
      <4>2. q = 0 => (q + 1) * c = c
        BY <1>3
      <4>. QED BY <1>2, <1>3, <1>4, <2>1, <4>1, <4>2
    <3>2. size = q /\ m = c
      BY <1>5, <2>1, <3>1
    <3>. QED BY <1>3, <1>4, <3>2
  <2>2. CASE n < c
    <3>1. q = 0
      <4>. SUFFICES ASSUME q >= 1 PROVE FALSE
        BY <1>4
      <4>1. q * c >= c
        <5>1. q \in Nat /\ q >= 1
          BY <1>4
        <5>. HIDE DEF q
        <5>. QED BY <1>3, <5>1
      <4>. QED BY <1>2, <1>3, <1>4, <2>2, <4>1
    <3>2. size = 1 /\ m = n
      BY <1>2, <1>3, <1>5, <2>2, <3>1
    <3>. QED BY <1>2, <3>2
  <2>. QED BY <1>2, <1>3, <2>1, <2>2
<1>9. \A k \in 0..m : ends[k] = IF k = c THEN n ELSE k * size
  OBVIOUS
<1>. HIDE DEF ends, q
<1>10. ASSUME NEW k \in 1..m
       PROVE  /\ ends[k - 1] = (k - 1) * size /\ ends[k - 1] \in Nat /\ ends[k] \in Nat
              /\ ends[k - 1] <= ends[k] /\ ends[k] <= n
  <2>1. k \in 0..m /\ k - 1 \in 0..m /\ k - 1 # c /\ k \in Nat /\ k - 1 \in Nat /\ m - k \in Nat
    BY <1>3, <1>7
  <2>2. ends[k - 1] = (k - 1) * size
    BY <1>9, <2>1
  <2>3. (k - 1) * size \in Nat /\ k * size \in Nat /\ k * size = (k - 1) * size + size
    BY <1>7, <2>1
  <2>4. k * size <= m * size
    <3>1. (m - k) * size >= 0
      BY <1>7, <2>1
    <3>2. (m - k) * size = m * size - k * size
      BY <1>7, <2>1
    <3>3. m * size \in Nat
      BY <1>7
    <3>. QED BY <2>3, <3>1, <3>2, <3>3
  <2>. DEFINE a == (k - 1) * size
              b == k * size
              d == m * size
  <2>5. a \in Nat /\ b \in Nat /\ b = a + size /\ b <= d /\ d <= n /\ d \in Nat
    BY <1>7, <1>8, <2>3, <2>4
  <2>6. ends[k] = n \/ ends[k] = b
    BY <1>9, <2>1
  <2>7. ends[k - 1] = a
    BY <2>2
  <2>. HIDE DEF a, b, d
  <2>8. ends[k - 1] \in Nat /\ ends[k] \in Nat /\ ends[k - 1] <= ends[k] /\ ends[k] <= n
    BY <1>2, <1>7, <2>5, <2>6, <2>7
  <2>. QED BY <2>2, <2>8
<1>11. ends[0] = 0 /\ ends[m] = n
  <2>1. 0 \in 0..m /\ m \in 0..m
    BY <1>7
  <2>2. ends[0] = 0
    BY <1>3, <1>7, <1>9, <2>1
  <2>3. CASE m = c
    BY <1>9, <2>1, <2>2, <2>3
  <2>4. CASE m # c
    <3>1. m = n /\ ~(c <= n)
      BY <1>5, <2>4
    <3>2. m * size = n * size /\ n * size <= n
      BY <1>8, <3>1
    <3>3. n * size >= n
      BY <1>2, <1>7
    <3>4. n * size \in Nat
      BY <1>2, <1>7
    <3>5. ends[m] = m * size
      BY <1>9, <2>1, <2>4
    <3>. QED BY <1>2, <2>2, <3>2, <3>3, <3>4, <3>5
  <2>. QED BY <2>3, <2>4
<1>12. PartsFollow(parts, p, ends, m)
  <2>1. DOMAIN parts = 1..m /\ Len(parts) = m
    BY <1>6, <1>7
  <2>2. ASSUME NEW k \in 1..m PROVE parts[k] = SubSeq(p, ends[k - 1] + 1, ends[k])
    <3>1. k \in 0..m
      BY <1>7
    <3>2. ends[k] = (IF k = c THEN n ELSE k * size) /\ ends[k - 1] = (k - 1) * size
      BY <1>9, <1>10, <3>1
    <3>3. parts[k] = SubSeq(p, (k - 1) * size + 1, IF k = c THEN n ELSE k * size)
      BY <1>6
    <3>. QED BY <3>2, <3>3
  <2>. QED BY <1>10, <1>11, <2>1, <2>2 DEF PartsFollow, n
<1>13. FlattenSeq(parts) = SubSeq(p, 1, n)
  BY <1>1, <1>7, <1>11, <1>12, PartsFlatten
<1>14. SubSeq(p, 1, n) = p
  <2>1. SubSeq(p, 1, n) \in Seq(Int) /\ Len(SubSeq(p, 1, n)) = n /\ \A i \in 1..n : SubSeq(p, 1, n)[i] = p[i]
    BY <1>1 DEF n
  <2>. QED BY <1>1, <2>1, SeqEqual DEF n
<1>. QED BY <1>13, <1>14

-----------------------------------------------------------------------------
(* The journal the other way round *)

\* The same rows, from the last to the first.
Turns(rows, n, back) ==
  /\ DOMAIN rows = 1..n /\ DOMAIN back = 1..n
  /\ \A i \in 1..n : n + 1 - i \in 1..n /\ back[i] = rows[n + 1 - i]

LEMMA ReverseTurns ==
  ASSUME NEW n \in Nat, NEW rows, DOMAIN rows = 1..n, Len(rows) = n
  PROVE  Turns(rows, n, Reverse(rows)) /\ Len(Reverse(rows)) = n
<1>. DEFINE back == Reverse(rows)
<1>1. back = [i \in 1..n |-> rows[(n - i) + 1]]
  BY DEF Reverse
<1>2. \A i \in 1..n : (n - i) + 1 = n + 1 - i /\ n + 1 - i \in 1..n
  OBVIOUS
<1>. HIDE DEF back
<1>3. DOMAIN back = 1..n /\ Len(back) = n /\ \A i \in 1..n : back[i] = rows[n + 1 - i]
  BY <1>1, <1>2
<1>. QED BY <1>2, <1>3 DEF Turns, back

\* The same places seen from the other end, and their ranks, each one's own.
OtherEnd(L, K, n) == K \subseteq 1..n /\ L \subseteq 1..n /\ \A k \in 1..n : k \in L <=> n + 1 - k \in K
Reranked(knar, L, rank, K, n) ==
  /\ \A k \in K : rank[k] \in Int
  /\ \A j, k \in K : rank[j] = rank[k] => j = k
  /\ \A k \in L : knar[k] = rank[n + 1 - k]

\* What has ranks of its own comes in the same order from either end.
LEMMA TurnedOrder ==
  ASSUME NEW n \in Nat, NEW rows, NEW back, Turns(rows, n, back),
         NEW K, NEW L, OtherEnd(L, K, n), NEW rank, NEW knar, Reranked(knar, L, rank, K, n)
  PROVE  InOrder(back, L, knar) = InOrder(rows, K, rank)
<1>. DEFINE m == Cardinality(K)
            other(k) == n + 1 - k
<1>0. /\ K \subseteq 1..n /\ L \subseteq 1..n /\ \A k \in 1..n : k \in L <=> n + 1 - k \in K
      /\ \A k \in K : rank[k] \in Int
      /\ \A j, k \in K : rank[j] = rank[k] => j = k
      /\ \A k \in L : knar[k] = rank[n + 1 - k]
  BY DEF OtherEnd, Reranked
<1>1. PICK s : Sorts(s, K, rank)
  BY <1>0, SomeOrder
<1>2. m \in Nat /\ s \in [1..m -> K] /\ \A k \in K : \E i \in 1..m : s[i] = k
  BY <1>1 DEF Sorts, Onto
<1>3. \A i, j \in 1..m : i < j => s[i] \in Preceding(K, rank, s[j])
  BY <1>1 DEF Sorts
<1>4. \A i, j \in 1..m : s[i] = s[j] => i = j
  <2>1. K \subseteq 1..n /\ \A k \in K : rank[k] \in Int
    BY <1>0
  <2>. HIDE DEF m
  <2>2. /\ \A i \in 1..Cardinality(K) : Cardinality(Preceding(K, rank, s[i])) = i - 1
        /\ \A i, j \in 1..Cardinality(K) : s[i] = s[j] => i = j
    BY <1>1, <2>1, PlaceInOrder, ZenonT(60)
  <2>. QED BY <2>2 DEF m
<1>. HIDE DEF m
<1>. DEFINE t == [i \in 1..m |-> other(s[i])]
<1>5. \A i \in 1..m : t[i] = n + 1 - s[i] /\ s[i] \in K /\ s[i] \in 1..n
  BY <1>0, <1>2
<1>6. DOMAIN t = 1..m
  OBVIOUS
<1>7. t = [i \in 1..m |-> t[i]]
  OBVIOUS
<1>. HIDE DEF t
<1>8. \A i \in 1..m : t[i] \in 1..n /\ n + 1 - t[i] = s[i] /\ t[i] \in L
  BY <1>0, <1>5
<1>9. t \in [1..m -> L]
  BY <1>7, <1>8
<1>10. \A k \in L : \E i \in 1..m : t[i] = k
  <2>. SUFFICES ASSUME NEW k \in L PROVE \E i \in 1..m : t[i] = k
    OBVIOUS
  <2>1. k \in 1..n /\ n + 1 - k \in K
    BY <1>0
  <2>2. PICK i \in 1..m : s[i] = n + 1 - k
    BY <1>2, <2>1
  <2>3. t[i] = k
    BY <1>5, <2>1, <2>2
  <2>. QED BY <2>3
<1>11. Cardinality(L) = m
  <2>1. t \in Bijection(1..m, L)
    <3>1. \A i, j \in 1..m : t[i] = t[j] => i = j
      BY <1>4, <1>5
    <3>. QED BY <1>9, <1>10, <3>1 DEF Bijection, Injection, IsInjective, Surjection
  <2>2. ExistsBijection(1..m, L)
    BY <2>1 DEF ExistsBijection
  <2>. QED BY <1>2, <2>2, FS_CountingElements
<1>12. Sorts(t, L, knar)
  <2>1. ASSUME NEW i \in 1..m, NEW j \in 1..m, i < j PROVE t[i] \in Preceding(L, knar, t[j])
    <3>1. s[i] \in Preceding(K, rank, s[j]) /\ s[i] # s[j]
      BY <1>3, <1>4, <2>1
    <3>2. rank[s[i]] < rank[s[j]]
      <4>1. rank[s[i]] # rank[s[j]]
        BY <1>0, <1>5, <3>1
      <4>. QED BY <3>1, <4>1 DEF Preceding
    <3>3. knar[t[i]] = rank[s[i]] /\ knar[t[j]] = rank[s[j]]
      BY <1>0, <1>8
    <3>. QED BY <1>8, <3>2, <3>3 DEF Preceding
  <2>2. Onto(t, L)
    BY <1>6, <1>10 DEF Onto
  <2>. QED BY <1>2, <1>9, <1>11, <2>1, <2>2 DEF Sorts
<1>13. \A k \in L : knar[k] \in Int
  BY <1>0
<1>14. InOrder(back, L, knar) = Arranged(back, t, m)
  BY <1>0, <1>11, <1>12, <1>13, InOrderIs
<1>15. InOrder(rows, K, rank) = Arranged(rows, s, m)
  BY <1>0, <1>1, InOrderIs DEF m
<1>16. \A i \in 1..m : back[t[i]] = rows[s[i]]
  BY <1>8 DEF Turns
<1>. QED BY <1>14, <1>15, <1>16 DEF Arranged

\* Trades with times of their own.
TimesApart(rows) == \A i, j \in DOMAIN rows : Anchor(rows[i]) = Anchor(rows[j]) => i = j

LEMMA TurnedTrades ==
  ASSUME NEW n \in Nat, NEW rows \in Seq(Rows), NEW back, Turns(rows, n, back), TimesApart(rows),
         NEW K, NEW L, OtherEnd(L, K, n)
  PROVE  ByTime(back, L) = ByTime(rows, K)
<1>. DEFINE rank == [k \in K |-> Anchor(rows[k])]
            knar == [k \in L |-> Anchor(back[k])]
<1>0. K \subseteq 1..n /\ L \subseteq 1..n /\ \A k \in 1..n : k \in L <=> n + 1 - k \in K
  BY DEF OtherEnd
<1>1. DOMAIN rows = 1..n /\ \A i \in 1..n : n + 1 - i \in 1..n /\ back[i] = rows[n + 1 - i]
  BY DEF Turns
<1>2. \A k \in 1..n : rows[k] \in Rows
  BY <1>1
<1>3. \A k \in K : rank[k] = Anchor(rows[k]) /\ rank[k] \in Int
  <2>. SUFFICES ASSUME NEW k \in K PROVE rank[k] = Anchor(rows[k]) /\ rank[k] \in Int
    OBVIOUS
  <2>. DEFINE r == rows[k]
  <2>1. r \in Rows
    BY <1>0, <1>2
  <2>2. r.entry \in Nat /\ r.exit \in Nat
    BY <2>1, JournalAssumption
  <2>3. rank[k] = Anchor(r)
    OBVIOUS
  <2>. HIDE DEF r, rank
  <2>4. Anchor(r) \in Int
    BY <2>2 DEF Anchor
  <2>. QED BY <2>3, <2>4 DEF r
<1>4. \A j, k \in K : rank[j] = rank[k] => j = k
  BY <1>0, <1>1, <1>3 DEF TimesApart
<1>5. \A k \in L : knar[k] = Anchor(back[k])
  OBVIOUS
<1>6. ByTime(back, L) = InOrder(back, L, knar) /\ ByTime(rows, K) = InOrder(rows, K, rank)
  BY DEF ByTime
<1>. HIDE DEF rank, knar
<1>7. \A k \in L : knar[k] = rank[n + 1 - k]
  <2>. SUFFICES ASSUME NEW k \in L PROVE knar[k] = rank[n + 1 - k]
    OBVIOUS
  <2>1. n + 1 - k \in K /\ back[k] = rows[n + 1 - k]
    BY <1>0, <1>1
  <2>. QED BY <1>3, <1>5, <2>1
<1>8. Reranked(knar, L, rank, K, n)
  BY <1>3, <1>4, <1>7 DEF Reranked
<1>9. InOrder(back, L, knar) = InOrder(rows, K, rank)
  BY <1>8, TurnedOrder
<1>. QED BY <1>6, <1>9

LEMMA TurnedClosed ==
  ASSUME NEW n \in Nat, NEW rows \in Seq(Rows), NEW back, Turns(rows, n, back), TimesApart(rows)
  PROVE  Closed(back) = Closed(rows) /\ Clean(back) = Clean(rows)
<1>. DEFINE K == {k \in DOMAIN rows : Counts(rows[k]) /\ IsClosed(rows[k])}
            L == {k \in DOMAIN back : Counts(back[k]) /\ IsClosed(back[k])}
            U == {k \in DOMAIN rows : IsClean(rows[k])}
            V == {k \in DOMAIN back : IsClean(back[k])}
<1>1. /\ DOMAIN rows = 1..n /\ DOMAIN back = 1..n
      /\ \A i \in 1..n : n + 1 - i \in 1..n /\ back[i] = rows[n + 1 - i]
  BY DEF Turns
<1>2. OtherEnd(L, K, n) /\ OtherEnd(V, U, n)
  BY <1>1 DEF OtherEnd
<1>3. /\ Closed(rows) = ByTime(rows, K) /\ Closed(back) = ByTime(back, L)
      /\ Clean(rows) = ByTime(rows, U) /\ Clean(back) = ByTime(back, V)
  BY DEF Closed, Clean
<1>. HIDE DEF K, L, U, V
<1>4. ByTime(back, L) = ByTime(rows, K)
  BY <1>2, TurnedTrades
<1>5. ByTime(back, V) = ByTime(rows, U)
  BY <1>2, TurnedTrades
<1>. QED BY <1>3, <1>4, <1>5

\* What the verdict of a journal is made of.
LEMMA MetricsIs == ASSUME NEW rows PROVE Metrics(rows) = Figures(Pnls(Clean(rows)), Equity(Pnls(Clean(rows))))
BY DEF Metrics

LEMMA WalkForwardIs == ASSUME NEW rows PROVE WalkForward(rows) = Walked(Judged(Windows(Closed(rows))))
BY DEF WalkForward

LEMMA SameVerdicts ==
  ASSUME NEW a, NEW b, NEW steady, Closed(a) = Closed(b), Clean(a) = Clean(b),
         Duplicated(a) <=> Duplicated(b), Disciplined(a) <=> Disciplined(b)
  PROVE  Summary(a, steady) = Summary(b, steady)
<1>1. Metrics(a) = Metrics(b)
  BY MetricsIs
<1>2. WalkForward(a) = WalkForward(b)
  BY WalkForwardIs
<1>3. ASSUME NEW m, NEW stable PROVE PaperStatus(a, m, stable) = PaperStatus(b, m, stable)
  <2>1. LiveReady(a, m, stable) <=> LiveReady(b, m, stable)
    BY Zenon DEF LiveReady
  <2>2. HardFail(a, m, stable) <=> HardFail(b, m, stable)
    BY Zenon DEF HardFail
  <2>. QED BY <2>1, <2>2 DEF PaperStatus
<1>. DEFINE m == Metrics(b)
            oos == WalkForward(b)
            stable == EquityStable(m, steady)
<1>4. Summary(a, steady) = Verdicts(a, m, oos, steady) /\ Summary(b, steady) = Verdicts(b, m, oos, steady)
  BY <1>1, <1>2, SummaryIs
<1>. HIDE DEF m, oos, stable
<1>5. PaperStatus(a, m, EquityStable(m, steady)) = PaperStatus(b, m, EquityStable(m, steady))
  BY <1>3
<1>6. Verdicts(a, m, oos, steady) = Verdicts(b, m, oos, steady)
  BY <1>5 DEF Verdicts
<1>. QED BY <1>4, <1>6

LEMMA OrderHolds ==
  ASSUME journal \in Seq(Rows)
  PROVE  OrderIrrelevant
<1>. SUFFICES ASSUME TimesApart(journal) PROVE Summary(Reverse(journal), TRUE) = Summary(journal, TRUE)
  BY DEF OrderIrrelevant, TimesApart
<1>. DEFINE n == Len(journal)
            back == Reverse(journal)
<1>1. n \in Nat /\ DOMAIN journal = 1..n
  OBVIOUS
<1>. HIDE DEF n, back
<1>2. Turns(journal, n, back)
  BY <1>1, ReverseTurns DEF n, back
<1>3. /\ DOMAIN back = 1..n
      /\ \A i \in 1..n : n + 1 - i \in 1..n /\ back[i] = journal[n + 1 - i]
  BY <1>2 DEF Turns
<1>4. \A i \in 1..n : n + 1 - i \in 1..n /\ journal[i] = back[n + 1 - i]
  <2>. SUFFICES ASSUME NEW i \in 1..n PROVE n + 1 - i \in 1..n /\ journal[i] = back[n + 1 - i]
    OBVIOUS
  <2>. DEFINE j == n + 1 - i
  <2>1. j \in 1..n /\ n + 1 - j = i
    BY <1>1
  <2>. HIDE DEF j
  <2>2. back[j] = journal[n + 1 - j]
    BY <1>3, <2>1
  <2>. QED BY <2>1, <2>2 DEF j
<1>5. Closed(back) = Closed(journal) /\ Clean(back) = Clean(journal)
  BY <1>1, <1>2, TurnedClosed
<1>6. Duplicated(back) <=> Duplicated(journal)
  BY <1>1, <1>3, <1>4 DEF Duplicated
<1>7. Revenge(back) = Revenge(journal)
  BY <1>5 DEF Revenge
<1>8. (\A i \in DOMAIN back : back[i].fault # "MAX_TRADES_PER_DAY") <=> (\A i \in DOMAIN journal : journal[i].fault # "MAX_TRADES_PER_DAY")
  BY <1>1, <1>3, <1>4
<1>9. Disciplined(back) <=> Disciplined(journal)
  BY <1>6, <1>7, <1>8 DEF Disciplined
<1>. QED BY <1>5, <1>6, <1>9, SameVerdicts DEF back

-----------------------------------------------------------------------------
(* The drawdown of the book *)

ValuesAt(g, S) == {g[k] : k \in S}
IsTop(x, a, g, S) == x \in Int /\ x >= a /\ (\A k \in S : g[k] <= x) /\ (x = a \/ \E k \in S : x = g[k])

\* The greatest of a number and of the values at some places.
LEMMA MaxWith ==
  ASSUME NEW n \in Nat, NEW S, S \subseteq 1..n, NEW g, \A k \in S : g[k] \in Int,
         NEW a \in Int
  PROVE  IsTop(Max({a} \cup ValuesAt(g, S)), a, g, S)
<1>. DEFINE V == ValuesAt(g, S)
            U == {a} \cup V
<1>0. V = {g[k] : k \in S}
  BY DEF ValuesAt
<1>1. \E x \in U : \A y \in U : x >= y
  <2>1. CASE S = {}
    <3>1. U = {a}
      BY <1>0, <2>1
    <3>. HIDE DEF U
    <3>2. a \in U /\ \A y \in U : a >= y
      BY <3>1
    <3>. QED BY <3>2
  <2>2. CASE S # {}
    <3>1. PICK j \in S : \A k \in S : g[k] <= g[j]
      BY <2>2, Greatest
    <3>2. g[j] \in Int /\ \A k \in S : g[k] \in Int
      BY <3>1
    <3>3. CASE a >= g[j]
      <4>1. \A y \in U : a >= y
        BY <1>0, <3>1, <3>2, <3>3
      <4>. QED BY <4>1
    <3>4. CASE ~(a >= g[j])
      <4>1. \A y \in U : g[j] >= y
        BY <1>0, <3>1, <3>2, <3>4
      <4>2. g[j] \in U
        BY <1>0, <3>1
      <4>. QED BY <4>1, <4>2
    <3>. QED BY <3>3, <3>4
  <2>. QED BY <2>1, <2>2
<1>2. Max(U) \in U /\ \A y \in U : Max(U) >= y
  BY <1>1 DEF Max
<1>3. /\ Max(U) \in Int /\ Max(U) >= a /\ \A k \in S : g[k] <= Max(U)
      /\ Max(U) = a \/ \E k \in S : Max(U) = g[k]
  BY <1>0, <1>2
<1>. QED BY <1>3 DEF IsTop

\* Figures of money, at places from 1 to m.
IsCurve(c, m) == m \in Nat /\ c \in Seq(Int) /\ Len(c) = m

\* A number is the worst fall of a curve.
IsWorst(w, c, m) ==
  /\ w \in Nat
  /\ \A j, k \in 1..m : j <= k => c[j] - c[k] <= w
  /\ w = 0 \/ \E j, k \in 1..m : j <= k /\ w = c[j] - c[k]

LEMMA WorstIs ==
  ASSUME NEW m, NEW c, IsCurve(c, m)
  PROVE  IsWorst(WorstDrawdown(c), c, m)
<1>. DEFINE peak == [k \in 1..m |-> PeakOf(c, k)]
            fall == [k \in 1..m |-> peak[k] - c[k]]
            V == {fall[k] : k \in 1..m}
            w == WorstDrawdown(c)
<1>1. m \in Nat /\ DOMAIN c = 1..m /\ \A k \in 1..m : c[k] \in Int
  BY DEF IsCurve
<1>2. ASSUME NEW k \in 1..m
      PROVE  /\ peak[k] \in Int /\ \A j \in 1..k : c[j] <= peak[k]
             /\ \E j \in 1..k : peak[k] = c[j]
  <2>. DEFINE P == {c[j] : j \in 1..k}
  <2>1. k \in Nat /\ 1..k \subseteq 1..k /\ 1..k # {} /\ \A j \in 1..k : c[j] \in Int
    BY <1>1
  <2>2. peak[k] = Max(P)
    BY DEF PeakOf
  <2>3. \A x \in P : \E j \in 1..k : x = c[j]
    OBVIOUS
  <2>. HIDE DEF peak
  <2>4. Max(P) \in P /\ Max(P) \in Int /\ \A j \in 1..k : c[j] <= Max(P)
    BY <2>1, MaxAmong
  <2>. HIDE DEF P
  <2>. QED BY <2>2, <2>3, <2>4
<1>3. w = Max({0} \cup V)
  <2>1. V = {PeakOf(c, k) - c[k] : k \in DOMAIN c}
    BY <1>1
  <2>. HIDE DEF V
  <2>. QED BY <2>1 DEF WorstDrawdown
<1>4. \A k \in 1..m : fall[k] = peak[k] - c[k]
  OBVIOUS
<1>. HIDE DEF peak, fall
<1>5. \A k \in 1..m : fall[k] \in Int
  BY <1>1, <1>2, <1>4
<1>6. /\ Max({0} \cup V) \in Int /\ Max({0} \cup V) >= 0 /\ \A k \in 1..m : fall[k] <= Max({0} \cup V)
      /\ Max({0} \cup V) = 0 \/ \E k \in 1..m : Max({0} \cup V) = fall[k]
  <2>. DEFINE S == 1..m
              z == 0
  <2>1. S \subseteq 1..m /\ z \in Int /\ V = ValuesAt(fall, S)
    BY DEF ValuesAt
  <2>2. \A k \in S : fall[k] \in Int
    BY <1>5
  <2>. HIDE DEF V, S, z
  <2>3. IsTop(Max({z} \cup ValuesAt(fall, S)), z, fall, S)
    BY <1>1, <2>1, <2>2, MaxWith
  <2>4. IsTop(Max({z} \cup V), z, fall, S)
    BY <2>1, <2>3
  <2>. QED BY <2>4 DEF S, z, IsTop
<1>. HIDE DEF w, V
<1>7. w \in Nat /\ (\A k \in 1..m : fall[k] <= w) /\ (w = 0 \/ \E k \in 1..m : w = fall[k])
  BY <1>3, <1>6
<1>8. ASSUME NEW j \in 1..m, NEW k \in 1..m, j <= k PROVE c[j] - c[k] <= w
  <2>1. j \in 1..k
    BY <1>1, <1>8
  <2>2. c[j] <= peak[k] /\ peak[k] \in Int /\ peak[k] - c[k] <= w
    BY <1>2, <1>4, <1>7, <2>1
  <2>3. c[j] \in Int /\ c[k] \in Int
    BY <1>1
  <2>. QED BY <1>7, <2>2, <2>3
<1>9. ASSUME w # 0 PROVE \E j, k \in 1..m : j <= k /\ w = c[j] - c[k]
  <2>1. PICK k \in 1..m : w = fall[k]
    BY <1>7, <1>9
  <2>2. PICK j \in 1..k : peak[k] = c[j]
    BY <1>2
  <2>3. j \in 1..m /\ j <= k /\ w = c[j] - c[k]
    BY <1>1, <1>4, <2>1, <2>2
  <2>. QED BY <2>3
<1>. QED BY <1>7, <1>8, <1>9 DEF IsWorst, w

\* Without the beginning a curve misses no more than the first fall.
LEMMA FirstFall ==
  ASSUME NEW m, NEW c, IsCurve(c, m), NEW a \in Int,
         NEW w, w = WorstDrawdown(c), NEW u, u = WorstDrawdown(<<a>> \o c)
  PROVE  u >= w /\ (m # 0 => u - w <= Max({0, a - c[1]}))
<1>. DEFINE b == <<a>> \o c
<1>1. m \in Nat /\ DOMAIN c = 1..m /\ Len(c) = m /\ \A k \in 1..m : c[k] \in Int
  BY DEF IsCurve
<1>2. /\ b \in Seq(Int) /\ Len(b) = 1 + m
      /\ \A i \in 1..1 + m : b[i] = IF i <= 1 THEN a ELSE c[i - 1]
  <2>. DEFINE h == <<a>>
  <2>1. h \in Seq(Int) /\ Len(h) = 1 /\ h[1] = a
    OBVIOUS
  <2>2. c \in Seq(Int) /\ Len(c) = m
    BY DEF IsCurve
  <2>. HIDE DEF h
  <2>3. /\ h \o c \in Seq(Int)
        /\ Len(h \o c) = Len(h) + Len(c)
        /\ \A i \in 1..Len(h) + Len(c) : (h \o c)[i] = IF i <= Len(h) THEN h[i] ELSE c[i - Len(h)]
    BY <2>1, <2>2, ConcatProperties
  <2>4. \A i \in 1..1 + m : (h \o c)[i] = IF i <= 1 THEN a ELSE c[i - 1]
    <3>. SUFFICES ASSUME NEW i \in 1..1 + m PROVE (h \o c)[i] = IF i <= 1 THEN a ELSE c[i - 1]
      OBVIOUS
    <3>1. (h \o c)[i] = IF i <= 1 THEN h[i] ELSE c[i - 1]
      BY <2>1, <2>2, <2>3
    <3>2. i <= 1 => i = 1
      OBVIOUS
    <3>. QED BY <2>1, <3>1, <3>2
  <2>. QED BY <2>1, <2>2, <2>3, <2>4 DEF h
<1>. HIDE DEF b
<1>3. /\ DOMAIN b = 1..m + 1 /\ Len(b) = m + 1 /\ b[1] = a
      /\ \A k \in 1..m : k + 1 \in 1..m + 1 /\ b[k + 1] = c[k]
  BY <1>1, <1>2
<1>4. \A k \in 1..m + 1 : b[k] \in Int /\ (k = 1 \/ (k - 1 \in 1..m /\ b[k] = c[k - 1]))
  BY <1>1, <1>2
<1>5. IsCurve(b, m + 1)
  BY <1>1, <1>2 DEF IsCurve
<1>6. IsWorst(w, c, m) /\ IsWorst(u, b, m + 1)
  BY <1>5, WorstIs DEF b
<1>7. /\ w \in Nat /\ \A j, k \in 1..m : j <= k => c[j] - c[k] <= w
      /\ w = 0 \/ \E j, k \in 1..m : j <= k /\ w = c[j] - c[k]
  BY <1>6 DEF IsWorst
<1>8. /\ u \in Nat /\ \A j, k \in 1..m + 1 : j <= k => b[j] - b[k] <= u
      /\ u = 0 \/ \E j, k \in 1..m + 1 : j <= k /\ u = b[j] - b[k]
  BY <1>6 DEF IsWorst
<1>9. u >= w
  <2>1. CASE w = 0
    BY <1>8, <2>1
  <2>2. CASE w # 0
    <3>1. PICK j \in 1..m, k \in 1..m : j <= k /\ w = c[j] - c[k]
      BY <1>7, <2>2
    <3>2. j + 1 \in 1..m + 1 /\ k + 1 \in 1..m + 1 /\ j + 1 <= k + 1 /\ b[j + 1] = c[j] /\ b[k + 1] = c[k]
      BY <1>3, <3>1
    <3>3. b[j + 1] - b[k + 1] <= u
      BY <1>8, <3>2
    <3>. QED BY <3>1, <3>2, <3>3
  <2>. QED BY <2>1, <2>2
<1>10. ASSUME m # 0 PROVE u - w <= Max({0, a - c[1]})
  <2>. DEFINE d == a - c[1]
              x == Max({0, d})
  <2>1. 1 \in 1..m /\ c[1] \in Int
    BY <1>1, <1>10
  <2>2. d \in Int
    BY <2>1
  <2>. HIDE DEF d
  <2>3. x \in Int /\ x >= 0 /\ x >= d
    BY <2>2, MaxAtLeast
  <2>. HIDE DEF x
  <2>4. CASE u = 0
    BY <1>7, <2>3, <2>4 DEF x, d
  <2>5. CASE u # 0
    <3>1. PICK j \in 1..m + 1, k \in 1..m + 1 : j <= k /\ u = b[j] - b[k]
      BY <1>8, <2>5
    <3>2. CASE j = 1 /\ k = 1
      <4>1. u = 0
        BY <1>4, <3>1, <3>2
      <4>. QED BY <2>5, <4>1
    <3>3. CASE j = 1 /\ k # 1
      <4>1. k - 1 \in 1..m /\ b[k] = c[k - 1] /\ c[k - 1] \in Int /\ b[1] = a
        BY <1>1, <1>3, <1>4, <3>3
      <4>2. 1 <= k - 1
        BY <4>1
      <4>3. c[1] - c[k - 1] <= w
        BY <1>7, <2>1, <4>1, <4>2
      <4>4. u = a - c[k - 1]
        BY <3>1, <3>3, <4>1
      <4>5. a - c[1] <= x
        BY <2>3 DEF d
      <4>6. u - w <= x
        BY <1>7, <1>8, <2>1, <2>3, <4>1, <4>3, <4>4, <4>5
      <4>. QED BY <4>6 DEF x, d
    <3>4. CASE j # 1
      <4>1. j - 1 \in 1..m /\ k - 1 \in 1..m /\ b[k] = c[k - 1] /\ b[j] = c[j - 1] /\ j - 1 <= k - 1
        BY <1>1, <1>4, <3>1, <3>4
      <4>2. u <= w
        BY <1>7, <3>1, <4>1
      <4>3. u - w <= x
        BY <1>7, <1>8, <2>3, <4>2
      <4>. QED BY <4>3 DEF x, d
    <3>. QED BY <3>2, <3>3, <3>4
  <2>. QED BY <2>4, <2>5
<1>. QED BY <1>9, <1>10

\* The closed records, the time of the last exit and a later one.
Exited(rows) == {k \in DOMAIN rows : HasExited(rows[k])}
Never(rows) == 1 + Max({0} \cup {rows[k].exit : k \in Exited(rows)})
ExitRank(rows) == [k \in Exited(rows) |-> IF rows[k].exit = 0 THEN Never(rows) ELSE rows[k].exit]

LEMMA ByExitIs ==
  ASSUME NEW rows
  PROVE  ByExit(rows) = InOrder(rows, Exited(rows), ExitRank(rows))
BY DEF ByExit, Exited, Never, ExitRank

LEMMA NeverIs ==
  ASSUME NEW rows, IsBook(rows)
  PROVE  /\ Never(rows) \in Int /\ \A k \in Exited(rows) : rows[k].exit \in Nat /\ rows[k].exit < Never(rows)
         /\ \A k \in Exited(rows) : ExitRank(rows)[k] \in Int
         /\ Exited(rows) \subseteq 1..Len(rows)
<1>. DEFINE n == Len(rows)
            K == Exited(rows)
            exit == [k \in 1..n |-> rows[k].exit]
            V == {rows[k].exit : k \in K}
            z == 0
<1>1. n \in Nat /\ DOMAIN rows = 1..n /\ K \subseteq 1..n
  BY DEF IsBook, Exited
<1>2. \A k \in 1..n : exit[k] = rows[k].exit /\ rows[k].exit \in Nat
  BY DEF IsBook, BookLike
<1>. HIDE DEF n, exit, K
<1>3. V = ValuesAt(exit, K) /\ z \in Int /\ \A k \in K : exit[k] \in Int
  <2>1. \A k \in K : exit[k] = rows[k].exit /\ exit[k] \in Int
    BY <1>1, <1>2
  <2>2. V = {exit[k] : k \in K}
    BY <2>1
  <2>. HIDE DEF V
  <2>. QED BY <2>1, <2>2 DEF ValuesAt
<1>4. Never(rows) = 1 + Max({z} \cup V)
  BY DEF Never, K
<1>. HIDE DEF z, V
<1>5. IsTop(Max({z} \cup ValuesAt(exit, K)), z, exit, K)
  BY <1>1, <1>3, MaxWith
<1>6. IsTop(Never(rows) - 1, z, exit, K) /\ Never(rows) \in Int
  <2>1. Max({z} \cup V) \in Int
    BY <1>3, <1>5 DEF IsTop
  <2>2. Never(rows) - 1 = Max({z} \cup V) /\ Never(rows) \in Int
    BY <1>4, <2>1
  <2>. QED BY <1>3, <1>5, <2>2
<1>7. \A k \in K : rows[k].exit \in Nat /\ rows[k].exit < Never(rows)
  BY <1>1, <1>2, <1>6 DEF IsTop
<1>8. \A k \in K : ExitRank(rows)[k] \in Int
  BY <1>6, <1>7 DEF ExitRank, K
<1>. QED BY <1>1, <1>6, <1>7, <1>8 DEF K, n

\* Rows at places, one for each.
Takes(f, rows, K) ==
  /\ Cardinality(K) \in Nat /\ DOMAIN f = 1..Cardinality(K)
  /\ \A i \in 1..Cardinality(K) : \E k \in K : f[i] = rows[k]

LEMMA InOrderTakes ==
  ASSUME NEW n \in Nat, NEW K, K \subseteq 1..n, NEW rank, \A k \in K : rank[k] \in Int, NEW rows
  PROVE  Takes(InOrder(rows, K, rank), rows, K)
<1>1. PICK s : Sorts(s, K, rank)
  BY SomeOrder
<1>2. InOrder(rows, K, rank) = Arranged(rows, s, Cardinality(K))
  BY <1>1, InOrderIs
<1>3. Cardinality(K) \in Nat /\ \A i \in 1..Cardinality(K) : s[i] \in K
  BY <1>1 DEF Sorts
<1>. QED BY <1>2, <1>3 DEF Takes, Arranged

LEMMA CurveIs ==
  ASSUME NEW rows, IsBook(rows)
  PROVE  IsCurve(EquityCurve(rows), Cardinality(Exited(rows)))
<1>. DEFINE n == Len(rows)
            K == Exited(rows)
            m == Cardinality(K)
            rank == ExitRank(rows)
            o == InOrder(rows, K, rank)
            sums == [k \in 1..m |-> SumFunction([i \in 1..k |-> o[i].pnl])]
<1>1. n \in Nat /\ DOMAIN rows = 1..n /\ \A k \in 1..n : BookLike(rows[k])
  BY DEF IsBook
<1>2. K \subseteq 1..n /\ \A k \in K : rank[k] \in Int
  BY NeverIs
<1>. HIDE DEF n, K, rank
<1>3. m \in Nat /\ DOMAIN o = 1..m /\ \A i \in 1..m : \E k \in K : o[i] = rows[k]
  <2>1. \A k \in K : rank[k] \in Int
    BY <1>2
  <2>2. n \in Nat /\ K \subseteq 1..n
    BY <1>1, <1>2
  <2>. HIDE DEF o, m
  <2>3. Takes(InOrder(rows, K, rank), rows, K)
    BY <2>1, <2>2, InOrderTakes
  <2>. QED BY <2>3 DEF o, m, Takes
<1>4. EquityCurve(rows) = [k \in 1..m |-> Capital + sums[k]]
  <2>1. ByExit(rows) = o
    BY ByExitIs DEF K, rank
  <2>. HIDE DEF o, m
  <2>2. EquityCurve(rows) = [k \in 1..m |-> Capital + SumFunction([i \in 1..k |-> o[i].pnl])]
    BY <1>3, <2>1 DEF EquityCurve
  <2>3. \A k \in 1..m : sums[k] = SumFunction([i \in 1..k |-> o[i].pnl])
    OBVIOUS
  <2>. HIDE DEF sums
  <2>. QED BY <2>2, <2>3
<1>. HIDE DEF o, m
<1>5. \A i \in 1..m : o[i].pnl \in Int
  <2>. SUFFICES ASSUME NEW i \in 1..m PROVE o[i].pnl \in Int
    OBVIOUS
  <2>1. PICK k \in K : o[i] = rows[k]
    BY <1>3
  <2>2. BookLike(o[i])
    BY <1>1, <1>2, <2>1
  <2>. QED BY <2>2 DEF BookLike
<1>6. ASSUME NEW k \in 1..m PROVE sums[k] \in Int
  <2>. DEFINE f == [i \in 1..k |-> o[i].pnl]
              S == 1..k
  <2>1. DOMAIN f = S /\ \A i \in S : f[i] \in Int
    BY <1>3, <1>5
  <2>2. IsFiniteSet(S)
    BY <1>3, FS_Interval
  <2>3. sums[k] = SumFunction(f)
    OBVIOUS
  <2>. HIDE DEF f, S, sums
  <2>4. SumFunctionOnSet(f, S) \in Int
    BY <2>1, <2>2, ProfitType
  <2>. QED BY <2>1, <2>3, <2>4 DEF SumFunction
<1>. HIDE DEF sums
<1>7. \A k \in 1..m : Capital + sums[k] \in Int
  BY <1>6, BookAssumption
<1>8. EquityCurve(rows) \in Seq(Int) /\ Len(EquityCurve(rows)) = m
  BY <1>3, <1>4, <1>7
<1>. QED BY <1>3, <1>8 DEF IsCurve, m, K

\* No two records were closed at the same time.
ExitsApart(rows) == \A j, k \in DOMAIN rows : j # k => rows[j].exit # rows[k].exit

LEMMA TurnedCurve ==
  ASSUME NEW rows, IsBook(rows), ExitsApart(rows)
  PROVE  EquityCurve(Reverse(rows)) = EquityCurve(rows)
<1>. DEFINE n == Len(rows)
            back == Reverse(rows)
            K == Exited(rows)
            L == Exited(back)
            rank == ExitRank(rows)
            knar == ExitRank(back)
<1>1. n \in Nat /\ DOMAIN rows = 1..n
  BY DEF IsBook
<1>. HIDE DEF n, back
<1>2. Turns(rows, n, back)
  BY <1>1, ReverseTurns DEF n, back
<1>3. DOMAIN back = 1..n /\ \A i \in 1..n : n + 1 - i \in 1..n /\ back[i] = rows[n + 1 - i]
  BY <1>2 DEF Turns
<1>4. OtherEnd(L, K, n)
  BY <1>1, <1>3 DEF OtherEnd, Exited
<1>5. \A k \in 1..n : n + 1 - k \in 1..n /\ n + 1 - (n + 1 - k) = k
  BY <1>1
<1>6. {back[k].exit : k \in L} = {rows[k].exit : k \in K}
  <2>1. \A k \in L : n + 1 - k \in K /\ back[k] = rows[n + 1 - k]
    BY <1>3, <1>4 DEF OtherEnd
  <2>2. \A k \in K : n + 1 - k \in L /\ back[n + 1 - k] = rows[k]
    BY <1>3, <1>4, <1>5 DEF OtherEnd
  <2>. HIDE DEF K, L
  <2>. QED BY <2>1, <2>2
<1>7. Never(back) = Never(rows)
  BY <1>6 DEF Never
<1>8. /\ Never(rows) \in Int
      /\ \A k \in K : rows[k].exit \in Nat /\ rows[k].exit < Never(rows) /\ rank[k] \in Int
  BY NeverIs
<1>9. \A k \in K : rank[k] = IF rows[k].exit = 0 THEN Never(rows) ELSE rows[k].exit
  BY DEF ExitRank
<1>10. \A k \in L : knar[k] = IF back[k].exit = 0 THEN Never(back) ELSE back[k].exit
  BY DEF ExitRank
<1>. HIDE DEF K, L, rank, knar
<1>11. ASSUME NEW j \in K, NEW k \in K, rank[j] = rank[k] PROVE j = k
  <2>1. rows[j].exit = rows[k].exit
    BY <1>8, <1>9, <1>11
  <2>2. j \in DOMAIN rows /\ k \in DOMAIN rows
    BY <1>1, <1>4 DEF OtherEnd
  <2>. QED BY <2>1, <2>2 DEF ExitsApart
<1>12. ASSUME NEW k \in L PROVE knar[k] = rank[n + 1 - k]
  <2>1. n + 1 - k \in K /\ back[k] = rows[n + 1 - k]
    BY <1>3, <1>4 DEF OtherEnd
  <2>. DEFINE j == n + 1 - k
  <2>2. rank[j] = IF rows[j].exit = 0 THEN Never(rows) ELSE rows[j].exit
    BY <1>9, <2>1
  <2>. QED BY <1>7, <1>10, <2>1, <2>2
<1>13. Reranked(knar, L, rank, K, n)
  BY <1>8, <1>11, <1>12 DEF Reranked
<1>14. InOrder(back, L, knar) = InOrder(rows, K, rank)
  BY <1>1, <1>2, <1>4, <1>13, TurnedOrder
<1>15. ByExit(back) = ByExit(rows)
  BY <1>14, ByExitIs DEF K, L, rank, knar
<1>16. EquityCurve(back) = EquityCurve(rows)
  BY <1>15 DEF EquityCurve
<1>. QED BY <1>16 DEF back

LEMMA FirstLossHolds ==
  ASSUME book \in Seq(BookEntries)
  PROVE  DrawdownMissesFirstLoss
<1>. DEFINE rows == CoerceTradeRecords(book)
            curve == EquityCurve(rows)
            m == Cardinality(Exited(rows))
            whole == WorstDrawdown(<<Capital>> \o curve)
            worst == WorstDrawdown(curve)
<1>1. IsBook(rows)
  BY BookIs, CoerceIs
<1>. HIDE DEF rows
<1>2. IsCurve(curve, m)
  BY <1>1, CurveIs
<1>. HIDE DEF curve, m
<1>3. Capital \in Int
  BY BookAssumption
<1>4. whole >= worst /\ (m # 0 => whole - worst <= Max({0, Capital - curve[1]}))
  BY <1>2, <1>3, FirstFall
<1>5. curve # <<>> => m # 0
  BY <1>2 DEF IsCurve
<1>6. ExitsApart(rows) => WorstDrawdown(EquityCurve(Reverse(rows))) = worst
  BY <1>1, TurnedCurve DEF curve
<1>. QED BY <1>4, <1>5, <1>6 DEF DrawdownMissesFirstLoss, ExitsApart, curve, rows

-----------------------------------------------------------------------------
(* The backtest *)

\* A signal on its sides, and what it is worth at its target.
Entered(signal) == signal.side # "NO_TRADE" /\ JudgedRight(signal)
Worth(signal) == GrossOf(signal) - Brokerage
Promises(signal) ==
  Max({signal.target - signal.entry, signal.entry - signal.target}) > (2 * Slippage * signal.entry) \div 10000 + Brokerage

LEMMA WorthIs ==
  ASSUME NEW signal, Entered(signal)
  PROVE  Worth(signal) \in Int /\ (Worth(signal) > 0 <=> Promises(signal))
<1>. DEFINE a == signal.target - signal.entry
            b == signal.entry - signal.target
            y == 2 * Slippage * signal.entry
            slip == y \div 10000
<1>1. /\ signal.entry \in Int /\ signal.target \in Int
      /\ IF signal.side = "BUY" THEN signal.entry < signal.target ELSE signal.target < signal.entry
  BY DEF Entered, JudgedRight
<1>2. Slippage \in Nat /\ Brokerage \in Nat
  BY SeenAssumption
<1>3. y \in Int
  BY <1>1, <1>2
<1>4. slip \in Int
  <2>. HIDE DEF y
  <2>. QED BY <1>3
<1>5. a \in Int /\ b \in Int /\ b = -a /\ (signal.side = "BUY" <=> a > 0) /\ a # 0
  BY <1>1
<1>6. GrossOf(signal) = (IF signal.side = "BUY" THEN a ELSE b) - slip
  BY DEF GrossOf
<1>7. Promises(signal) <=> Max({a, b}) > slip + Brokerage
  BY DEF Promises
<1>. HIDE DEF a, b, slip
<1>8. Max({a, b}) = IF a >= b THEN a ELSE b
  BY <1>5, MaxAtLeast
<1>. QED BY <1>2, <1>4, <1>5, <1>6, <1>7, <1>8 DEF Worth

\* Gains only never fall.
LEMMA RisingIs ==
  ASSUME NEW p, NEW n \in Nat, \A i \in 1..n : p[i] \in Int /\ p[i] > 0, NEW k \in 0..n
  PROVE  SumTo(p, k) \in Int /\ \A j \in 0..k : SumTo(p, j) \in Int /\ SumTo(p, j) <= SumTo(p, k)
<1>. DEFINE T == {i \in 0..n : \A j \in 0..i : SumTo(p, j) <= SumTo(p, i)}
<1>1. /\ \A i \in 0..n : SumTo(p, i) \in Int
      /\ \A i \in 1..n : SumTo(p, i) = SumTo(p, i - 1) + p[i]
  BY SumToGrows
<1>2. 0 \in T
  <2>1. \A j \in 0..0 : j = 0
    OBVIOUS
  <2>2. SumTo(p, 0) \in Int /\ 0 \in 0..n
    BY <1>1
  <2>. QED BY <2>1, <2>2
<1>3. ASSUME NEW i \in 1..n, i - 1 \in T PROVE i \in T
  <2>1. i \in 0..n /\ i - 1 \in 0..n /\ p[i] \in Int /\ p[i] > 0
    OBVIOUS
  <2>2. SumTo(p, i - 1) \in Int /\ SumTo(p, i) \in Int /\ SumTo(p, i) = SumTo(p, i - 1) + p[i]
    BY <1>1, <2>1
  <2>3. ASSUME NEW j \in 0..i PROVE SumTo(p, j) <= SumTo(p, i)
    <3>1. CASE j = i
      BY <2>2, <3>1
    <3>2. CASE j # i
      <4>1. j \in 0..i - 1 /\ j \in 0..n
        BY <3>2
      <4>2. SumTo(p, j) <= SumTo(p, i - 1) /\ SumTo(p, j) \in Int
        BY <1>1, <1>3, <4>1
      <4>. QED BY <2>1, <2>2, <4>2
    <3>. QED BY <3>1, <3>2
  <2>. QED BY <2>1, <2>3
<1>4. 0..n \subseteq T
  <2>. HIDE DEF T
  <2>. QED BY <1>2, <1>3, Climb
<1>5. \A j \in 0..k : j \in 0..n
  OBVIOUS
<1>6. k \in T
  <2>. HIDE DEF T
  <2>. QED BY <1>4
<1>. QED BY <1>1, <1>5, <1>6

LEMMA MaxOnly ==
  ASSUME NEW V, NEW x \in Int, x \in V, \A y \in V : y \in Int /\ y <= x
  PROVE  Max(V) = x
<1>1. \A y \in V : x >= y
  OBVIOUS
<1>2. \A z \in V : (\A y \in V : z >= y) => z = x
  OBVIOUS
<1>. QED BY <1>1, <1>2 DEF Max

LEMMA EquitySum ==
  ASSUME NEW p, NEW k \in Nat
  PROVE  SumFunction([i \in 1..k |-> p[i]]) = SumTo(p, k)
<1>. DEFINE f == [i \in 1..k |-> p[i]]
            S == 1..k
<1>1. DOMAIN f = S /\ \A i \in S : f[i] = p[i]
  OBVIOUS
<1>2. IsFiniteSet(S)
  BY FS_Interval
<1>. HIDE DEF f, S
<1>3. SumFunctionOnSet(f, S) = SumFunctionOnSet(p, S)
  BY <1>1, <1>2, SumSame
<1>4. SumFunction(f) = SumTo(p, k)
  BY <1>1, <1>3 DEF SumFunction, SumTo, S
<1>. QED BY <1>4 DEF f

\* How far the equity is below its highest, at each of its ends.
FallsOf(p, n) == {Max({SumFunction([i \in 1..j |-> p[i]]) : j \in 0..k}) - SumFunction([i \in 1..k |-> p[i]]) : k \in 0..n}

\* Nothing but gains: the equity never falls.
LEMMA NoFall ==
  ASSUME NEW p, NEW n \in Nat, \A i \in 1..n : p[i] \in Int /\ p[i] > 0,
         NEW F, F = FallsOf(p, n)
  PROVE  Max(F) = 0
<1>1. \A k \in 0..n : k \in Nat /\ \A j \in 0..k : j \in Nat
  OBVIOUS
<1>2. ASSUME NEW k \in 0..n
      PROVE  Max({SumFunction([i \in 1..j |-> p[i]]) : j \in 0..k}) - SumFunction([i \in 1..k |-> p[i]]) = 0
  <2>. DEFINE V == {SumFunction([i \in 1..j |-> p[i]]) : j \in 0..k}
              x == SumTo(p, k)
  <2>1. \A j \in 0..k : SumFunction([i \in 1..j |-> p[i]]) = SumTo(p, j)
    BY <1>1, EquitySum
  <2>2. V = {SumTo(p, j) : j \in 0..k}
    BY <2>1
  <2>3. k \in 0..k /\ k \in Nat
    BY <1>1
  <2>4. x \in Int /\ \A j \in 0..k : SumTo(p, j) \in Int /\ SumTo(p, j) <= x
    BY RisingIs
  <2>5. SumFunction([i \in 1..k |-> p[i]]) = x
    BY <2>1, <2>3
  <2>. HIDE DEF V
  <2>6. x \in V
    BY <2>2, <2>3
  <2>. HIDE DEF x
  <2>7. \A y \in V : y \in Int /\ y <= x
    BY <2>2, <2>4
  <2>8. Max(V) = x
    BY <2>4, <2>6, <2>7, MaxOnly
  <2>9. Max(V) - x = 0
    BY <2>4, <2>8
  <2>. QED BY <2>5, <2>9 DEF V
<1>3. 0 \in 0..n
  OBVIOUS
<1>4. 0 \in F
  BY <1>2, <1>3 DEF FallsOf
<1>5. \A y \in F : y = 0
  BY <1>2 DEF FallsOf
<1>6. ASSUME NEW z, z = 0 PROVE Max(F) = z
  <2>1. \A y \in F : y = z
    BY <1>5, <1>6
  <2>2. z \in F /\ z \in Int
    BY <1>4, <1>6
  <2>3. z \in Int /\ z \in F /\ \A y \in F : y \in Int /\ y <= z
    BY <2>1, <2>2
  <2>. QED BY <2>3, MaxOnly
<1>. QED BY <1>6

\* Signals on their sides.
AllEntered(list, m) ==
  /\ m \in Nat /\ Len(list) = m /\ list = [k \in 1..m |-> list[k]]
  /\ \A k \in 1..m : Entered(list[k])

LEMMA TradesAre ==
  ASSUME NEW list, NEW m, AllEntered(list, m)
  PROVE  BacktestTrades(list) = [k \in 1..m |-> Worth(list[k])]
<1>. DEFINE K == {k \in DOMAIN list : list[k].side # "NO_TRADE"}
            entries == Chosen(list, K)
<1>1. m \in Nat /\ list = [k \in 1..m |-> list[k]] /\ \A k \in 1..m : list[k].side # "NO_TRADE"
  BY DEF AllEntered, Entered
<1>2. DOMAIN list = 1..m
  BY <1>1
<1>3. K = 1..m
  BY <1>1, <1>2
<1>4. BacktestTrades(list) = [k \in DOMAIN entries |-> GrossOf(entries[k]) - Brokerage]
  BY DEF BacktestTrades
<1>. HIDE DEF K
<1>5. entries = [k \in 1..m |-> list[k]]
  BY <1>1, <1>3, AllChosen
<1>. HIDE DEF entries
<1>6. entries = list
  BY <1>1, <1>5
<1>. QED BY <1>2, <1>4, <1>6 DEF Worth

LEMMA ReportIs ==
  ASSUME NEW list, NEW m, AllEntered(list, m), NEW report, report = BacktestReport(list)
  PROVE  /\ report.won = Cardinality({k \in DOMAIN list : Promises(list[k])})
         /\ report.won = report.trades => report.drawdown = 0
<1>. DEFINE p == BacktestTrades(list)
            W == {k \in 1..m : p[k] > 0}
            F == FallsOf(p, m)
<1>1. m \in Nat /\ DOMAIN list = 1..m /\ \A k \in 1..m : Entered(list[k])
  BY DEF AllEntered
<1>2. p = [k \in 1..m |-> Worth(list[k])]
  BY TradesAre
<1>. HIDE DEF p
<1>3. DOMAIN p = 1..m /\ Len(p) = m
  BY <1>1, <1>2
<1>4. \A k \in 1..m : p[k] \in Int /\ (p[k] > 0 <=> Promises(list[k]))
  <2>. SUFFICES ASSUME NEW k \in 1..m PROVE p[k] \in Int /\ (p[k] > 0 <=> Promises(list[k]))
    OBVIOUS
  <2>1. p[k] = Worth(list[k]) /\ Entered(list[k])
    BY <1>1, <1>2
  <2>. DEFINE s == list[k]
  <2>. HIDE DEF s
  <2>2. Worth(s) \in Int /\ (Worth(s) > 0 <=> Promises(s))
    BY <2>1, WorthIs DEF s
  <2>. QED BY <2>1, <2>2 DEF s
<1>5. report.trades = m /\ report.won = Cardinality(W) /\ report.drawdown = Max(F)
  <2>1. W = {k \in DOMAIN p : p[k] > 0}
    BY <1>3
  <2>2. F = FallsOf(p, Len(p))
    BY <1>3
  <2>3. report = [trades |-> Len(p), won |-> Cardinality({k \in DOMAIN p : p[k] > 0}),
                  drawdown |-> Max(FallsOf(p, Len(p)))]
    BY DEF BacktestReport, FallsOf, p
  <2>. HIDE DEF W, F
  <2>. QED BY <1>3, <2>1, <2>2, <2>3
<1>6. W = {k \in DOMAIN list : Promises(list[k])}
  BY <1>1, <1>4
<1>7. ASSUME Cardinality(W) = m PROVE Max(F) = 0
  <2>1. IsFiniteSet(1..m) /\ Cardinality(1..m) = m /\ W \subseteq 1..m
    BY <1>1, FS_Interval
  <2>2. W = 1..m
    <3>. HIDE DEF W
    <3>. QED BY <1>7, <2>1, FS_Subset
  <2>3. \A i \in 1..m : p[i] \in Int /\ p[i] > 0
    BY <1>4, <2>2
  <2>. HIDE DEF F
  <2>. QED BY <1>1, <2>3, NoFall DEF F
<1>. HIDE DEF W, F
<1>. QED BY <1>5, <1>6, <1>7

\* What a batch signals, from each of its beginnings.
LEMMA FoundIs ==
  ASSUME seen \in Seq(SeenBars), NEW f,
         f \in {[n \in DOMAIN seen |-> BreakoutSignal(SubSeq(seen, 1, n))],
                [n \in DOMAIN seen |-> DemandSupplySignal(SubSeq(seen, 1, n))]}
  PROVE  Len(f) = Len(seen) /\ Len(seen) \in Nat /\ f \in Seq({f[k] : k \in 1..Len(seen)})
         /\ \A k \in 1..Len(seen) : JudgedRight(f[k])
<1>1. Len(seen) \in Nat /\ DOMAIN seen = 1..Len(seen)
  OBVIOUS
<1>2. DOMAIN f = 1..Len(seen) /\ f = [k \in 1..Len(seen) |-> f[k]]
  BY <1>1
<1>3. ASSUME NEW k \in 1..Len(seen) PROVE JudgedRight(f[k])
  <2>. DEFINE bars == SubSeq(seen, 1, k)
  <2>1. bars \in Seq(SeenBars) /\ bars # <<>>
    <3>1. bars \in Seq(SeenBars) /\ Len(bars) = k
      BY <1>1
    <3>. HIDE DEF bars
    <3>2. Len(bars) # 0
      BY <1>1, <3>1
    <3>. QED BY <3>1, <3>2
  <2>2. f[k] \in {BreakoutSignal(bars), DemandSupplySignal(bars)}
    BY <1>1
  <2>. HIDE DEF bars
  <2>. QED BY <2>1, <2>2, BreakoutJudged, DemandSupplyJudged
<1>. DEFINE n == Len(seen)
            S == {f[k] : k \in 1..n}
<1>4. \A k \in 1..n : f[k] \in S
  OBVIOUS
<1>. HIDE DEF S, n
<1>5. f \in Seq(S) /\ Len(f) = n
  BY <1>1, <1>2, <1>4 DEF n
<1>. QED BY <1>1, <1>3, <1>5 DEF n, S

\* The signals of the batch that would be taken.
LEMMA BacktestHolds ==
  ASSUME seen \in Seq(SeenBars)
  PROVE  BacktestKnowsNoLoss
<1>. DEFINE f1 == [n \in DOMAIN seen |-> BreakoutSignal(SubSeq(seen, 1, n))]
            f2 == [n \in DOMAIN seen |-> DemandSupplySignal(SubSeq(seen, 1, n))]
            n == Len(seen)
            S1 == {f1[k] : k \in 1..n}
            S2 == {f2[k] : k \in 1..n}
            S == S1 \cup S2
            found == f1 \o f2
            K == {k \in DOMAIN found : found[k].side # "NO_TRADE" /\ ~found[k].refused}
            list == Chosen(found, K)
            m == Cardinality(K)
<1>1. /\ Len(f1) = n /\ n \in Nat /\ f1 \in Seq(S1) /\ \A k \in 1..n : JudgedRight(f1[k])
      /\ Len(f2) = n /\ f2 \in Seq(S2) /\ \A k \in 1..n : JudgedRight(f2[k])
  BY FoundIs
<1>2. \A x \in S : JudgedRight(x)
  BY <1>1
<1>. HIDE DEF f1, f2
<1>3. f1 \in Seq(S) /\ f2 \in Seq(S)
  BY <1>1
<1>. HIDE DEF S1, S2, S
<1>4. found \in Seq(S) /\ Len(found) = n + n
  BY <1>1, <1>3
<1>. HIDE DEF found
<1>5. n + n \in Nat /\ DOMAIN found = 1..(n + n) /\ \A k \in 1..(n + n) : JudgedRight(found[k])
  BY <1>1, <1>2, <1>4
<1>6. K \subseteq 1..(n + n) /\ \A k \in K : Entered(found[k])
  BY <1>5 DEF Entered
<1>. HIDE DEF n, K
<1>7. PICK s : /\ m \in Nat /\ s \in [1..m -> K]
               /\ list = Arranged(found, s, m)
  BY <1>5, <1>6, ChosenIs
<1>. HIDE DEF list, m
<1>8. AllEntered(list, m)
  <2>1. list = [i \in 1..m |-> found[s[i]]]
    BY <1>7 DEF Arranged
  <2>2. \A i \in 1..m : list[i] = found[s[i]] /\ s[i] \in K
    BY <1>7, <2>1
  <2>3. \A i \in 1..m : Entered(list[i])
    BY <1>6, <2>2
  <2>4. Len(list) = m /\ list = [i \in 1..m |-> list[i]]
    BY <1>7, <2>1
  <2>. QED BY <1>7, <2>3, <2>4 DEF AllEntered
<1>9. /\ BacktestReport(list).won = Cardinality({k \in DOMAIN list : Promises(list[k])})
      /\ BacktestReport(list).won = BacktestReport(list).trades => BacktestReport(list).drawdown = 0
  BY <1>8, ReportIs
<1>10. found = AllSignalled
  BY DEF found, f1, f2, AllSignalled
<1>11. list = Taken(found)
  BY DEF list, K, Taken
<1>12. LosesByCosts(list)
  BY <1>9 DEF LosesByCosts, Promises, Promise, Costs
<1>. QED BY <1>10, <1>11, <1>12 DEF BacktestKnowsNoLoss

-----------------------------------------------------------------------------
(* The frame upside down *)

\* A bar as the strategies read it, and the same bar upside down.
IsMirror(b, c) ==
  /\ IsBar(b) /\ IsBar(c) /\ c.day = b.day
  /\ c.open = Turned(b.open) /\ c.close = Turned(b.close) /\ c.high = Turned(b.low) /\ c.low = Turned(b.high)
  /\ \A side \in Sides : /\ Flip(side) \in c.ema <=> side \in b.ema
                         /\ Flip(side) \in c.slow <=> side \in b.slow
                         /\ Flip(side) \in c.macd <=> side \in b.macd
  /\ c.vwap = 1 <=> b.vwap = -1
  /\ c.vwap = -1 <=> b.vwap = 1
  /\ b.rsi.gain \in Int /\ b.rsi.loss \in Int /\ c.rsi.gain = b.rsi.loss /\ c.rsi.loss = b.rsi.gain

AreMirrors(a, b) ==
  AreBars(a) /\ AreBars(b) /\ Len(b) = Len(a) /\ \A k \in 1..Len(a) : IsMirror(a[k], b[k])

LEMMA TurnedTwice ==
  ASSUME NEW x \in Int
  PROVE  Turned(x) \in Int /\ Turned(Turned(x)) = x
<1>1. Ceiling \in Int
  BY IntradayAssumption
<1>. QED BY <1>1 DEF Turned

LEMMA Flipped ==
  ASSUME NEW side \in Sides
  PROVE  Flip(side) \in Sides /\ Flip(Flip(side)) = side /\ Flip(side) # side
BY DEF Flip, Sides, Buy, Sell

LEMMA MirrorTurns ==
  ASSUME NEW b, NEW c, IsMirror(b, c)
  PROVE  IsMirror(c, b)
<1>1. /\ b.open = Turned(c.open) /\ b.close = Turned(c.close) /\ b.high = Turned(c.low) /\ b.low = Turned(c.high)
  BY TurnedTwice DEF IsMirror, IsBar
<1>2. ASSUME NEW side \in Sides
      PROVE  /\ Flip(side) \in b.ema <=> side \in c.ema
             /\ Flip(side) \in b.slow <=> side \in c.slow
             /\ Flip(side) \in b.macd <=> side \in c.macd
  <2>1. Flip(side) \in Sides /\ Flip(Flip(side)) = side
    BY Flipped
  <2>. QED BY <2>1 DEF IsMirror
<1>. QED BY <1>1, <1>2 DEF IsMirror

LEMMA MirrorsTurn ==
  ASSUME NEW a, NEW b, AreMirrors(a, b)
  PROVE  AreMirrors(b, a)
BY MirrorTurns DEF AreMirrors

\* What is ahead in the one is as far ahead in the other.
LEMMA AheadTurns ==
  ASSUME NEW side \in Sides, NEW x \in Int, NEW y \in Int
  PROVE  Ahead(Flip(side), Turned(x), Turned(y)) = Ahead(side, x, y)
<1>1. Ceiling \in Int
  BY IntradayAssumption
<1>. QED BY <1>1 DEF Ahead, Flip, Turned, Sides, Buy, Sell

LEMMA GapTurns ==
  ASSUME NEW x \in Int, NEW y \in Int
  PROVE  Gap(Turned(x), Turned(y)) = Gap(x, y) /\ (Turned(x) = Turned(y) <=> x = y)
<1>1. Ceiling \in Int
  BY IntradayAssumption
<1>. QED BY <1>1 DEF Gap, Higher, Lower, Turned

LEMMA QuantityTurns ==
  ASSUME NEW x \in Int, NEW y \in Int
  PROVE  Quantity(Turned(x), Turned(y)) = Quantity(x, y)
BY GapTurns DEF Quantity

\* A signal with all that a signal has.
IsWhole(s) ==
  /\ s = [name |-> s.name, at |-> s.at, quantity |-> s.quantity, side |-> s.side,
          entry |-> s.entry, stop |-> s.stop, target |-> s.target]
  /\ s.side \in Sides /\ s.entry \in Int /\ s.stop \in Int /\ s.target \in Int

LEMMA SignalTurns ==
  ASSUME NEW name, NEW k, NEW side \in Sides, NEW entry \in Int, NEW stop \in Int, NEW times \in Int, NEW quantity
  PROVE  /\ TurnedSignal(Signal(name, k, side, entry, stop, times, quantity))
              = Signal(name, k, Flip(side), Turned(entry), Turned(stop), times, quantity)
         /\ IsWhole(Signal(name, k, side, entry, stop, times, quantity))
<1>. DEFINE s == Signal(name, k, side, entry, stop, times, quantity)
            target == IF side = Buy THEN entry + (entry - stop) * times ELSE entry - (stop - entry) * times
            other == IF Flip(side) = Buy THEN Turned(entry) + (Turned(entry) - Turned(stop)) * times
                     ELSE Turned(entry) - (Turned(stop) - Turned(entry)) * times
<1>1. s = [name |-> name, at |-> k, side |-> side, entry |-> entry, stop |-> stop, quantity |-> quantity, target |-> target]
  BY DEF Signal
<1>2. Signal(name, k, Flip(side), Turned(entry), Turned(stop), times, quantity)
        = [name |-> name, at |-> k, side |-> Flip(side), entry |-> Turned(entry), stop |-> Turned(stop), quantity |-> quantity, target |-> other]
  BY DEF Signal
<1>3. target \in Int /\ other = Turned(target)
  <2>0. Ceiling \in Int
    BY IntradayAssumption
  <2>1. CASE side = Buy
    <3>1. Flip(side) # Buy
      BY <2>1 DEF Flip, Buy, Sell
    <3>2. Turned(stop) - Turned(entry) = entry - stop
      BY <2>0 DEF Turned
    <3>. DEFINE x == (entry - stop) * times
    <3>3. x \in Int /\ target = entry + x /\ other = Turned(entry) - x
      BY <2>1, <3>1, <3>2
    <3>. HIDE DEF x, target, other
    <3>. QED BY <2>0, <3>3 DEF Turned
  <2>2. CASE side # Buy
    <3>1. Flip(side) = Buy
      BY <2>2 DEF Flip
    <3>2. Turned(entry) - Turned(stop) = stop - entry
      BY <2>0 DEF Turned
    <3>. DEFINE x == (stop - entry) * times
    <3>3. x \in Int /\ target = entry - x /\ other = Turned(entry) + x
      BY <2>2, <3>1, <3>2
    <3>. HIDE DEF x, target, other
    <3>. QED BY <2>0, <3>3 DEF Turned
  <2>. QED BY <2>1, <2>2
<1>. HIDE DEF target, other, s
<1>4. IsWhole(s)
  BY <1>1, <1>3 DEF IsWhole
<1>5. TurnedSignal(s) = Signal(name, k, Flip(side), Turned(entry), Turned(stop), times, quantity)
  BY <1>1, <1>2, <1>3 DEF TurnedSignal
<1>. QED BY <1>4, <1>5 DEF s

LEMMA SignalTurnsBack ==
  ASSUME NEW s, IsWhole(s)
  PROVE  TurnedSignal(TurnedSignal(s)) = s
<1>1. /\ Turned(Turned(s.entry)) = s.entry /\ Turned(Turned(s.stop)) = s.stop
      /\ Turned(Turned(s.target)) = s.target /\ Flip(Flip(s.side)) = s.side
  BY TurnedTwice, Flipped DEF IsWhole
<1>. DEFINE t == TurnedSignal(s)
<1>2. /\ t.name = s.name /\ t.at = s.at /\ t.quantity = s.quantity /\ t.side = Flip(s.side)
      /\ t.entry = Turned(s.entry) /\ t.stop = Turned(s.stop) /\ t.target = Turned(s.target)
  BY DEF TurnedSignal
<1>. HIDE DEF t
<1>3. TurnedSignal(t) = [name |-> s.name, at |-> s.at, quantity |-> s.quantity, side |-> s.side,
                         entry |-> s.entry, stop |-> s.stop, target |-> s.target]
  BY <1>1, <1>2 DEF TurnedSignal
<1>. QED BY <1>3 DEF t, IsWhole

LEMMA EndsTurn ==
  ASSUME NEW b, NEW c, b.high \in Int, b.low \in Int, c.high = Turned(b.low), c.low = Turned(b.high), NEW side \in Sides
  PROVE  /\ Worst(b, side) \in Int /\ Best(b, side) \in Int
         /\ Worst(c, Flip(side)) = Turned(Worst(b, side)) /\ Best(c, Flip(side)) = Turned(Best(b, side))
BY DEF Worst, Best, Flip, Sides, Buy, Sell

LEMMA RsiTurns ==
  ASSUME NEW r, NEW s, r.gain \in Int, r.loss \in Int, s.gain = r.loss, s.loss = r.gain, NEW level \in {30, 42, 45, 55, 58, 70}
  PROVE  /\ RsiAtLeast(s, level) <=> RsiAtMost(r, 100 - level)
         /\ RsiAtMost(s, level) <=> RsiAtLeast(r, 100 - level)
<1>. DEFINE g == r.gain
            l == r.loss
<1>1. g \in Int /\ l \in Int /\ s.gain = l /\ s.loss = g
  OBVIOUS
<1>2. /\ RsiAtLeast(s, level) <=> IF l + g = 0 THEN 50 >= level ELSE 100 * l >= level * (l + g)
      /\ RsiAtMost(s, level) <=> IF l + g = 0 THEN 50 <= level ELSE 100 * l <= level * (l + g)
  BY DEF RsiAtLeast, RsiAtMost
<1>3. /\ RsiAtLeast(r, 100 - level) <=> IF g + l = 0 THEN 50 >= 100 - level ELSE 100 * g >= (100 - level) * (g + l)
      /\ RsiAtMost(r, 100 - level) <=> IF g + l = 0 THEN 50 <= 100 - level ELSE 100 * g <= (100 - level) * (g + l)
  BY DEF RsiAtLeast, RsiAtMost
<1>. HIDE DEF g, l
<1>4. CASE level = 30
  BY <1>1, <1>2, <1>3, <1>4
<1>5. CASE level = 42
  BY <1>1, <1>2, <1>3, <1>5
<1>6. CASE level = 45
  BY <1>1, <1>2, <1>3, <1>6
<1>7. CASE level = 55
  BY <1>1, <1>2, <1>3, <1>7
<1>8. CASE level = 58
  BY <1>1, <1>2, <1>3, <1>8
<1>9. CASE level = 70
  BY <1>1, <1>2, <1>3, <1>9
<1>. QED BY <1>4, <1>5, <1>6, <1>7, <1>8, <1>9

LEMMA RsiBacksTurn ==
  ASSUME NEW r, NEW s, r.gain \in Int, r.loss \in Int, s.gain = r.loss, s.loss = r.gain,
         NEW margin \in {5, 8}, NEW side \in Sides
  PROVE  RsiBacks(s, Flip(side), margin) <=> RsiBacks(r, side, margin)
<1>. DEFINE above == 50 + margin
            below == 50 - margin
<1>1. above \in {30, 42, 45, 55, 58, 70} /\ below \in {30, 42, 45, 55, 58, 70} /\ 100 - above = below /\ 100 - below = above
  OBVIOUS
<1>. HIDE DEF above, below
<1>2. /\ RsiAtLeast(s, above) <=> RsiAtMost(r, below)
      /\ RsiAtMost(s, below) <=> RsiAtLeast(r, above)
  BY <1>1, RsiTurns
<1>. QED BY <1>2 DEF RsiBacks, Flip, Sides, Buy, Sell, above, below

LEMMA BackedTurns ==
  ASSUME NEW b, NEW c, IsMirror(b, c), NEW margin \in {5, 8}, NEW side \in Sides
  PROVE  Backed(c, Flip(side), margin) <=> Backed(b, side, margin)
<1>1. RsiBacks(c.rsi, Flip(side), margin) <=> RsiBacks(b.rsi, side, margin)
  <2>. DEFINE r == b.rsi
              s == c.rsi
  <2>1. r.gain \in Int /\ r.loss \in Int /\ s.gain = r.loss /\ s.loss = r.gain
    BY DEF IsMirror
  <2>. HIDE DEF r, s
  <2>2. RsiBacks(s, Flip(side), margin) <=> RsiBacks(r, side, margin)
    BY <2>1, RsiBacksTurn
  <2>. QED BY <2>2 DEF r, s
<1>2. (c.vwap = IF Flip(side) = Buy THEN 1 ELSE -1) <=> (b.vwap = IF side = Buy THEN 1 ELSE -1)
  BY DEF IsMirror, Flip, Sides, Buy, Sell
<1>3. (Flip(side) \in c.ema <=> side \in b.ema) /\ (Flip(side) \in c.macd <=> side \in b.macd)
  BY DEF IsMirror
<1>. QED BY <1>1, <1>2, <1>3 DEF Backed

\* A bar backs the sides upside down that are other than those it backed.
LEMMA MarketTurns ==
  ASSUME NEW b, NEW c, IsMirror(b, c), NEW side \in MarketSides(b)
  PROVE  Flip(side) \in MarketSides(c)
<1>. DEFINE Trend(bar) == {x \in Sides : Backed(bar, x, 8)}
<1>1. \A x \in Sides : Flip(x) \in Sides /\ Flip(Flip(x)) = x
  BY Flipped
<1>2. \A x \in Sides : Backed(c, Flip(x), 8) <=> Backed(b, x, 8)
  BY BackedTurns
<1>3. Trend(b) # {} <=> Trend(c) # {}
  BY <1>1, <1>2
<1>4. ASSUME NEW x \in Sides PROVE Extreme(c, Flip(x)) <=> Extreme(b, x)
  <2>. DEFINE r == b.rsi
              s == c.rsi
  <2>1. r.gain \in Int /\ r.loss \in Int /\ s.gain = r.loss /\ s.loss = r.gain
    BY DEF IsMirror
  <2>. HIDE DEF r, s
  <2>2. (RsiAtLeast(s, 30) <=> RsiAtMost(r, 100 - 30)) /\ (RsiAtMost(s, 70) <=> RsiAtLeast(r, 100 - 70))
    BY <2>1, RsiTurns
  <2>3. 100 - 30 = 70 /\ 100 - 70 = 30
    OBVIOUS
  <2>4. (RsiAtLeast(c.rsi, 30) <=> RsiAtMost(b.rsi, 70)) /\ (RsiAtMost(c.rsi, 70) <=> RsiAtLeast(b.rsi, 30))
    BY <2>2, <2>3 DEF r, s
  <2>5. Flip(x) \in c.macd <=> x \in b.macd
    BY DEF IsMirror
  <2>6. Flip(x) = Sell <=> x # Sell
    BY DEF Flip, Sides, Buy, Sell
  <2>. QED BY <2>4, <2>5, <2>6 DEF Extreme
<1>5. MarketSides(b) = (IF Trend(b) # {} THEN Trend(b) ELSE {x \in Sides : Extreme(b, x)})
  BY DEF MarketSides
<1>6. MarketSides(c) = (IF Trend(c) # {} THEN Trend(c) ELSE {x \in Sides : Extreme(c, x)})
  BY DEF MarketSides
<1>7. CASE Trend(b) # {}
  <2>1. side \in Sides /\ Backed(b, side, 8)
    BY <1>5, <1>7
  <2>2. Flip(side) \in Trend(c)
    BY <1>1, <1>2, <2>1
  <2>. QED BY <1>6, <2>2
<1>8. CASE Trend(b) = {}
  <2>1. side \in Sides /\ Extreme(b, side)
    BY <1>5, <1>8
  <2>2. Flip(side) \in {x \in Sides : Extreme(c, x)}
    BY <1>1, <1>4, <2>1
  <2>. QED BY <1>3, <1>6, <1>8, <2>2
<1>. QED BY <1>7, <1>8

LEMMA DaysTurn ==
  ASSUME NEW a, NEW b, AreMirrors(a, b)
  PROVE  /\ Len(a) \in Nat /\ Len(b) = Len(a) /\ Bars(a) = 1..Len(a) /\ Bars(b) = 1..Len(a)
         /\ \A k \in 1..Len(a) : IsMirror(a[k], b[k]) /\ IsBar(a[k]) /\ IsBar(b[k]) /\ b[k].day = a[k].day
         /\ Days(b) = Days(a) /\ \A day : BarsOf(b, day) = BarsOf(a, day)
<1>1. /\ Len(a) \in Nat /\ Len(b) = Len(a) /\ Bars(a) = 1..Len(a) /\ Bars(b) = 1..Len(a)
      /\ \A k \in 1..Len(a) : IsMirror(a[k], b[k])
  BY DEF AreMirrors, AreBars, Bars
<1>2. \A k \in 1..Len(a) : IsBar(a[k]) /\ IsBar(b[k]) /\ b[k].day = a[k].day
  BY <1>1 DEF IsMirror
<1>3. Days(b) = Days(a) /\ \A day : BarsOf(b, day) = BarsOf(a, day)
  BY <1>1, <1>2 DEF Days, BarsOf
<1>. QED BY <1>1, <1>2, <1>3

\* A signal and what it is upside down, which is found there.
TurnsIn(s, S) == IsWhole(s) /\ TurnedSignal(s) \in S

LEMMA BtstTurns ==
  ASSUME NEW a, NEW b, AreMirrors(a, b), NEW s \in Btst(a)
  PROVE  TurnsIn(s, Btst(b))
<1>. DEFINE Held(h) == {k \in Bars(h) : k < Len(h) /\ h[k + 1].day # h[k].day}
            Trade(h, k, side) ==
              [name |-> "BTST", at |-> k, side |-> side, entry |-> h[k].close,
               stop |-> Worst(h[k], side), target |-> h[k + 1].open,
               quantity |-> Quantity(h[k].close, Worst(h[k], side))]
            Backs(h, k, side) ==
              Backed(h[k], side, 5) /\ side \in h[k].slow /\ Ahead(side, h[k].open, h[k].close) > 0
            TradesAt(i) == {Trade(b, i, x) : x \in {x \in Sides : Backs(b, i, x)}}
<1>0. /\ Len(a) \in Nat /\ Len(b) = Len(a) /\ Bars(a) = 1..Len(a) /\ Bars(b) = 1..Len(a)
      /\ \A k \in 1..Len(a) : IsMirror(a[k], b[k]) /\ IsBar(a[k]) /\ IsBar(b[k]) /\ b[k].day = a[k].day
  BY DaysTurn
<1>1. PICK k \in Held(a), side \in Sides : s = Trade(a, k, side) /\ Backs(a, k, side) /\ s.quantity > 0
  BY DEF Btst
<1>2. k \in 1..Len(a) /\ k + 1 \in 1..Len(a) /\ k < Len(a)
  BY <1>0
<1>. DEFINE x == a[k]
            y == b[k]
            next == a[k + 1].open
            stop == Worst(x, side)
            other == Flip(side)
<1>3. /\ IsMirror(x, y) /\ x.close \in Int /\ x.open \in Int /\ next \in Int /\ b[k + 1].open = Turned(next)
      /\ y.open = Turned(x.open) /\ y.close = Turned(x.close)
      /\ x.high \in Int /\ x.low \in Int /\ y.high = Turned(x.low) /\ y.low = Turned(x.high)
      /\ other \in y.slow <=> side \in x.slow
  BY <1>0, <1>2 DEF IsMirror, IsBar
<1>4. other \in Sides /\ stop \in Int /\ Worst(y, other) = Turned(stop)
  BY <1>3, Flipped, EndsTurn
<1>5. s = [name |-> "BTST", at |-> k, side |-> side, entry |-> x.close, stop |-> stop, target |-> next,
           quantity |-> Quantity(x.close, stop)]
  BY <1>1
<1>6. Trade(b, k, other) = [name |-> "BTST", at |-> k, side |-> other, entry |-> Turned(x.close), stop |-> Turned(stop),
                            target |-> Turned(next), quantity |-> Quantity(Turned(x.close), Turned(stop))]
  BY <1>3, <1>4
<1>. HIDE DEF stop, next
<1>7. Quantity(Turned(x.close), Turned(stop)) = Quantity(x.close, stop)
  BY <1>3, <1>4, QuantityTurns
<1>8. Backs(b, k, other)
  <2>1. Backed(y, other, 5) <=> Backed(x, side, 5)
    BY <1>3, BackedTurns
  <2>2. Ahead(other, Turned(x.open), Turned(x.close)) = Ahead(side, x.open, x.close)
    BY <1>3, AheadTurns
  <2>. QED BY <1>1, <1>3, <2>1, <2>2
<1>9. k \in Held(b)
  BY <1>0, <1>1, <1>2
<1>. HIDE DEF x, y, other
<1>10. IsWhole(s) /\ TurnedSignal(s) = Trade(b, k, other) /\ Trade(b, k, other).quantity > 0
  <2>1. IsWhole(s)
    BY <1>3, <1>4, <1>5 DEF IsWhole
  <2>2. TurnedSignal(s) = Trade(b, k, other)
    <3>. HIDE DEF Trade
    <3>. QED BY <1>5, <1>6, <1>7 DEF TurnedSignal, other
  <2>3. TurnedSignal(s).quantity = s.quantity
    BY DEF TurnedSignal
  <2>. QED BY <1>1, <2>1, <2>2, <2>3
<1>11. Trade(b, k, other) \in TradesAt(k)
  BY <1>4, <1>8
<1>12. Btst(b) = {t \in UNION {TradesAt(i) : i \in Held(b)} : t.quantity > 0}
  BY DEF Btst
<1>. HIDE DEF TradesAt, Held, Trade, Backs
<1>. QED BY <1>9, <1>10, <1>11, <1>12 DEF TurnsIn

LEMMA IndicatorTurns ==
  ASSUME NEW a, NEW b, AreMirrors(a, b), NEW s \in Indicator(a)
  PROVE  TurnsIn(s, Indicator(b))
<1>. DEFINE Stop(h, k, side) == IF side = Buy THEN h[k].low - Buffer ELSE h[k].high + Buffer
            Trade(h, k, side) == Signal("Indicator", k, side, h[k].close, Stop(h, k, side), 2, 0)
            Of(h, k) == {Trade(h, k, side) : side \in MarketSides(h[k])}
<1>0. /\ Len(a) \in Nat /\ Len(b) = Len(a) /\ Bars(a) = 1..Len(a) /\ Bars(b) = 1..Len(a)
      /\ \A k \in 1..Len(a) : IsMirror(a[k], b[k]) /\ IsBar(a[k]) /\ IsBar(b[k]) /\ b[k].day = a[k].day
  BY DaysTurn
<1>1. Indicator(a) = UNION {Of(a, k) : k \in Bars(a)} /\ Indicator(b) = UNION {Of(b, k) : k \in Bars(b)}
  BY DEF Indicator
<1>2. PICK k \in 1..Len(a) : s \in Of(a, k)
  <2>. HIDE DEF Of
  <2>. QED BY <1>0, <1>1
<1>3. PICK side \in MarketSides(a[k]) : s = Trade(a, k, side)
  BY <1>2
<1>. DEFINE x == a[k]
            y == b[k]
            stop == Stop(a, k, side)
            other == Flip(side)
<1>4. side \in Sides /\ other \in Sides
  BY <1>3, Flipped DEF MarketSides
<1>5. IsMirror(x, y) /\ x.close \in Int /\ y.close = Turned(x.close) /\ stop \in Int /\ Stop(b, k, other) = Turned(stop)
  <2>1. Buffer \in Int /\ Ceiling \in Int
    BY IntradayAssumption
  <2>2. IsMirror(x, y) /\ IsBar(x)
    BY <1>0
  <2>3. /\ x.close \in Int /\ x.high \in Int /\ x.low \in Int
        /\ y.close = Turned(x.close) /\ y.high = Turned(x.low) /\ y.low = Turned(x.high)
    BY <2>2 DEF IsMirror, IsBar
  <2>4. stop \in Int /\ stop = IF side = Buy THEN x.low - Buffer ELSE x.high + Buffer
    BY <2>1, <2>3
  <2>5. Stop(b, k, other) = IF other = Buy THEN y.low - Buffer ELSE y.high + Buffer
    OBVIOUS
  <2>6. other = Buy <=> side # Buy
    BY <1>4 DEF Flip, Sides, Buy, Sell
  <2>. HIDE DEF x, y, stop, other, Stop
  <2>7. (IF other = Buy THEN y.low - Buffer ELSE y.high + Buffer) = Turned(stop)
    BY <2>1, <2>3, <2>4, <2>6 DEF Turned
  <2>. QED BY <2>2, <2>3, <2>4, <2>5, <2>7
<1>6. s = Signal("Indicator", k, side, x.close, stop, 2, 0)
  BY <1>3
<1>7. Trade(b, k, other) = Signal("Indicator", k, other, Turned(x.close), Turned(stop), 2, 0)
  BY <1>5
<1>8. other \in MarketSides(y)
  BY <1>3, <1>5, MarketTurns
<1>9. Trade(b, k, other) \in Of(b, k)
  BY <1>8
<1>. HIDE DEF x, y, stop, other, Trade, Of
<1>10. TurnedSignal(s) = Trade(b, k, other) /\ IsWhole(s)
  BY <1>4, <1>5, <1>6, <1>7, SignalTurns DEF other
<1>. QED BY <1>0, <1>1, <1>9, <1>10 DEF TurnsIn

\* The signals of a day that can be sized.
OneSized(h, x) ==
  Signal("One Trade/Day", x.at, x.side, x.entry, Worst(h[x.at], x.side), Reward, Quantity(x.entry, Worst(h[x.at], x.side)))
SizedOf(h, day) ==
  {OneSized(h, x) : x \in {x \in Indicator(h) : h[x.at].day = day /\ OneSized(h, x).quantity > 0}}

LEMMA SizedTurns ==
  ASSUME NEW a, NEW b, AreMirrors(a, b), NEW day, NEW s \in SizedOf(a, day)
  PROVE  TurnsIn(s, SizedOf(b, day))
<1>1. PICK x \in Indicator(a) : s = OneSized(a, x) /\ a[x.at].day = day /\ OneSized(a, x).quantity > 0
  BY DEF SizedOf
<1>2. IsWhole(x) /\ TurnedSignal(x) \in Indicator(b)
  BY <1>1, IndicatorTurns DEF TurnsIn
<1>3. x.at \in 1..Len(a) /\ x.side \in Sides
  BY IndicatorIs DEF AreMirrors
<1>. DEFINE y == TurnedSignal(x)
            bar == a[x.at]
            turned == b[x.at]
            stop == Worst(bar, x.side)
<1>4. y.at = x.at /\ y.side = Flip(x.side) /\ y.entry = Turned(x.entry)
  BY DEF TurnedSignal
<1>5. IsMirror(bar, turned) /\ IsBar(bar) /\ turned.day = bar.day
  BY <1>3, DaysTurn
<1>6. stop \in Int /\ Worst(turned, Flip(x.side)) = Turned(stop)
  <2>1. bar.high \in Int /\ bar.low \in Int /\ turned.high = Turned(bar.low) /\ turned.low = Turned(bar.high)
    BY <1>5 DEF IsMirror, IsBar
  <2>. HIDE DEF bar, turned
  <2>. QED BY <1>3, <2>1, EndsTurn
<1>7. x.entry \in Int /\ Reward \in Int
  BY <1>2, IntradayAssumption DEF IsWhole
<1>8. Quantity(Turned(x.entry), Turned(stop)) = Quantity(x.entry, stop)
  BY <1>6, <1>7, QuantityTurns
<1>9. s = Signal("One Trade/Day", x.at, x.side, x.entry, stop, Reward, Quantity(x.entry, stop))
  BY <1>1 DEF OneSized
<1>10. OneSized(b, y) = Signal("One Trade/Day", x.at, Flip(x.side), Turned(x.entry), Turned(stop), Reward, Quantity(x.entry, stop))
  BY <1>4, <1>6, <1>8 DEF OneSized
<1>11. IsWhole(s) /\ TurnedSignal(s) = OneSized(b, y)
  <2>. DEFINE at == x.at
              side == x.side
              entry == x.entry
              quantity == Quantity(x.entry, stop)
  <2>1. side \in Sides /\ entry \in Int /\ stop \in Int /\ Reward \in Int
    BY <1>3, <1>6, <1>7
  <2>2. s = Signal("One Trade/Day", at, side, entry, stop, Reward, quantity)
    BY <1>9
  <2>3. OneSized(b, y) = Signal("One Trade/Day", at, Flip(side), Turned(entry), Turned(stop), Reward, quantity)
    BY <1>10
  <2>. HIDE DEF at, side, entry, quantity, stop, y
  <2>4. /\ TurnedSignal(Signal("One Trade/Day", at, side, entry, stop, Reward, quantity))
             = Signal("One Trade/Day", at, Flip(side), Turned(entry), Turned(stop), Reward, quantity)
        /\ IsWhole(Signal("One Trade/Day", at, side, entry, stop, Reward, quantity))
    BY <2>1, SignalTurns
  <2>. QED BY <2>2, <2>3, <2>4
<1>. HIDE DEF stop
<1>12. TurnedSignal(s).quantity = s.quantity
  BY DEF TurnedSignal
<1>13. y \in Indicator(b) /\ b[y.at].day = day /\ OneSized(b, y).quantity > 0
  BY <1>1, <1>2, <1>4, <1>5, <1>11, <1>12
<1>. HIDE DEF y
<1>14. OneSized(b, y) \in SizedOf(b, day)
  BY <1>13 DEF SizedOf
<1>. QED BY <1>11, <1>14 DEF TurnsIn

LEMMA OneTradeTurns ==
  ASSUME NEW a, NEW b, AreMirrors(a, b), NEW s \in OneTradeDay(a)
  PROVE  TurnsIn(s, OneTradeDay(b))
<1>. DEFINE Of(h, day) == {t \in SizedOf(h, day) : \A other \in SizedOf(h, day) : t.at <= other.at}
<1>1. /\ OneTradeDay(a) = UNION {Of(a, day) : day \in Days(a)}
      /\ OneTradeDay(b) = UNION {Of(b, day) : day \in Days(b)}
  BY DEF OneTradeDay, OneTradeOf, SizedOf, OneSized
<1>2. PICK day \in Days(a) : s \in Of(a, day)
  BY <1>1
<1>3. s \in SizedOf(a, day) /\ \A other \in SizedOf(a, day) : s.at <= other.at
  BY <1>2
<1>4. IsWhole(s) /\ TurnedSignal(s) \in SizedOf(b, day)
  BY <1>3, SizedTurns DEF TurnsIn
<1>5. \A t : TurnedSignal(t).at = t.at
  BY DEF TurnedSignal
<1>6. ASSUME NEW other \in SizedOf(b, day) PROVE s.at <= other.at
  <2>1. TurnedSignal(other) \in SizedOf(a, day)
    BY MirrorsTurn, SizedTurns DEF TurnsIn
  <2>. QED BY <1>3, <1>5, <2>1
<1>7. TurnedSignal(s) \in Of(b, day) /\ day \in Days(b)
  BY <1>4, <1>5, <1>6, DaysTurn
<1>. QED BY <1>1, <1>4, <1>7 DEF TurnsIn

LEMMA BreakoutTurns ==
  ASSUME NEW a, NEW b, AreMirrors(a, b), NEW s \in Breakout(a)
  PROVE  TurnsIn(s, Breakout(b))
<1>1. PICK day \in Days(a) : s \in BreakoutOf(a, day)
  BY DEF Breakout
<1>. DEFINE bars == BarsOf(a, day)
            first == Min(bars)
            last == first + HourBars - 1
            Hour(h) == Ahead(Buy, h[first].open, h[last].close)
            Side(h) == IF Hour(h) > 0 THEN Buy ELSE Sell
            Entry(h) == Best(h[first], Side(h))
            Breaks(h, k) == /\ Ahead(Side(h), Entry(h), Best(h[k], Side(h))) > 0
                            /\ Backed(h[k], Side(h), 5) /\ Side(h) \in h[k].slow
                            /\ Ahead(Side(h), Worst(h[k], Side(h)), Entry(h)) > 0
            Broken(h) == {k \in bars \ {first} : Breaks(h, k)}
            Trade(h, k) == Signal("Breakout", k, Side(h), Entry(h), Worst(h[k], Side(h)), Reward,
                                  Quantity(Entry(h), Worst(h[k], Side(h))))
            Trades(h) == {Trade(h, k) : k \in FirstOf(Broken(h))}
            Of(h) == IF Cardinality(bars) < BreakoutBars \/ Hour(h) = 0 THEN {} ELSE {t \in Trades(h) : t.quantity > 0}
<1>2. BreakoutOf(a, day) = Of(a) /\ BreakoutOf(b, day) = Of(b) /\ day \in Days(b)
  <2>1. BarsOf(b, day) = bars /\ day \in Days(b)
    BY DaysTurn
  <2>2. BreakoutOf(a, day) = Of(a)
    BY DEF BreakoutOf
  <2>3. BreakoutOf(b, day) = Of(b)
    BY <2>1 DEF BreakoutOf
  <2>. QED BY <2>1, <2>2, <2>3
<1>3. ~(Cardinality(bars) < BreakoutBars) /\ Hour(a) # 0 /\ s \in Trades(a) /\ s.quantity > 0
  BY <1>1, <1>2
<1>4. /\ Len(a) \in Nat /\ \A k \in 1..Len(a) : IsMirror(a[k], b[k]) /\ IsBar(a[k]) /\ IsBar(b[k])
      /\ bars \subseteq 1..Len(a) /\ first \in bars
  BY DaysTurn, DayIs DEF AreMirrors
<1>5. last \in 1..Len(a) /\ first \in 1..Len(a)
  <2>0. BreakoutBars \in Nat /\ HourBars \in Nat \ {0} /\ HourBars <= BreakoutBars
    BY IntradayAssumption
  <2>1. \A k \in bars : first <= k
    <3>1. bars \subseteq Nat /\ bars # {}
      BY <1>4
    <3>. QED BY <3>1, MinIs
  <2>2. first \in 1..Len(a) /\ bars \subseteq first..Len(a)
    BY <1>4, <2>1
  <2>. HIDE DEF bars, first
  <2>3. IsFiniteSet(first..Len(a)) /\ Cardinality(first..Len(a)) = Len(a) - first + 1
    <3>1. first \in Int /\ Len(a) \in Int /\ first <= Len(a)
      BY <1>4, <2>2
    <3>. QED BY <3>1, FS_Interval
  <2>4. Cardinality(bars) \in Nat /\ Cardinality(bars) <= Len(a) - first + 1
    BY <2>2, <2>3, FS_Subset, FS_CardinalityType, ZenonT(60)
  <2>. QED BY <1>3, <1>4, <2>0, <2>2, <2>4
<1>. DEFINE side == Side(a)
            other == Flip(side)
            entry == Entry(a)
<1>6. side \in Sides /\ Side(b) = other /\ Hour(b) # 0 /\ other \in Sides
  <2>1. /\ a[first].open \in Int /\ a[last].close \in Int
        /\ b[first].open = Turned(a[first].open) /\ b[last].close = Turned(a[last].close)
    BY <1>4, <1>5 DEF IsMirror, IsBar
  <2>. DEFINE x == a[first].open
              y == a[last].close
  <2>. HIDE DEF x, y, first, last
  <2>2. Ceiling \in Int
    BY IntradayAssumption
  <2>3. Hour(a) = y - x /\ Hour(b) = x - y /\ x \in Int /\ y \in Int
    BY <2>1, <2>2 DEF Ahead, Turned, x, y
  <2>. HIDE DEF Hour
  <2>. QED BY <1>3, <2>3 DEF Flip, Sides, Buy, Sell
<1>. HIDE DEF Hour
<1>7. \A k \in 1..Len(a) : /\ Worst(a[k], side) \in Int /\ Best(a[k], side) \in Int
                           /\ Worst(b[k], other) = Turned(Worst(a[k], side)) /\ Best(b[k], other) = Turned(Best(a[k], side))
  <2>. SUFFICES ASSUME NEW k \in 1..Len(a)
                PROVE  /\ Worst(a[k], side) \in Int /\ Best(a[k], side) \in Int
                       /\ Worst(b[k], other) = Turned(Worst(a[k], side)) /\ Best(b[k], other) = Turned(Best(a[k], side))
    OBVIOUS
  <2>1. /\ a[k].high \in Int /\ a[k].low \in Int /\ b[k].high = Turned(a[k].low) /\ b[k].low = Turned(a[k].high)
    BY <1>4 DEF IsMirror, IsBar
  <2>. HIDE DEF Side
  <2>. QED BY <1>6, <2>1, EndsTurn
<1>8. entry \in Int /\ Entry(b) = Turned(entry)
  BY <1>5, <1>6, <1>7
<1>. HIDE DEF Side, Entry, first
<1>9. ASSUME NEW k \in bars PROVE Breaks(b, k) <=> Breaks(a, k)
  <2>1. k \in 1..Len(a)
    BY <1>4
  <2>2. IsMirror(a[k], b[k])
    BY <1>4, <2>1
  <2>. DEFINE best == Best(a[k], side)
              worst == Worst(a[k], side)
  <2>3. best \in Int /\ worst \in Int /\ Worst(b[k], other) = Turned(worst) /\ Best(b[k], other) = Turned(best)
    BY <1>7, <2>1
  <2>4. Backed(b[k], other, 5) <=> Backed(a[k], side, 5)
    BY <1>6, <2>2, BackedTurns
  <2>5. other \in b[k].slow <=> side \in a[k].slow
    BY <1>6, <2>2 DEF IsMirror
  <2>. HIDE DEF best, worst
  <2>6. Ahead(other, Turned(entry), Turned(best)) = Ahead(side, entry, best)
    BY <1>6, <1>8, <2>3, AheadTurns
  <2>7. Ahead(other, Turned(worst), Turned(entry)) = Ahead(side, worst, entry)
    BY <1>6, <1>8, <2>3, AheadTurns
  <2>8. Breaks(a, k) <=> Ahead(side, entry, best) > 0 /\ Backed(a[k], side, 5) /\ side \in a[k].slow /\ Ahead(side, worst, entry) > 0
    BY DEF best, worst
  <2>9. Breaks(b, k) <=> /\ Ahead(other, Turned(entry), Turned(best)) > 0 /\ Backed(b[k], other, 5) /\ other \in b[k].slow
                         /\ Ahead(other, Turned(worst), Turned(entry)) > 0
    BY <1>6, <1>8, <2>3
  <2>. QED BY <2>4, <2>5, <2>6, <2>7, <2>8, <2>9
<1>. HIDE DEF Breaks, bars
<1>10. Broken(b) = Broken(a) /\ Broken(a) \subseteq Nat /\ Broken(a) \subseteq 1..Len(a)
  <2>1. Broken(a) \subseteq bars
    OBVIOUS
  <2>2. Broken(b) = Broken(a)
    BY <1>9
  <2>3. bars \subseteq 1..Len(a) /\ 1..Len(a) \subseteq Nat
    BY <1>4
  <2>. QED BY <2>1, <2>2, <2>3
<1>. HIDE DEF Broken
<1>11. PICK k \in FirstOf(Broken(a)) : s = Trade(a, k)
  BY <1>3
<1>12. k \in 1..Len(a)
  <2>1. Broken(a) # {} /\ k = Min(Broken(a))
    BY <1>11 DEF FirstOf
  <2>2. k \in Broken(a)
    BY <1>10, <2>1, MinIs
  <2>. QED BY <1>10, <2>2
<1>. DEFINE stop == Worst(a[k], side)
<1>13. stop \in Int /\ Worst(b[k], other) = Turned(stop)
  BY <1>7, <1>12
<1>14. s = Signal("Breakout", k, side, entry, stop, Reward, Quantity(entry, stop))
  BY <1>11
<1>15. Trade(b, k) = Signal("Breakout", k, other, Turned(entry), Turned(stop), Reward, Quantity(Turned(entry), Turned(stop)))
  BY <1>6, <1>8, <1>13
<1>16. Trade(b, k) \in Trades(b)
  BY <1>10, <1>11
<1>. HIDE DEF stop, Trade, Trades, entry, side
<1>17. Reward \in Int /\ Quantity(Turned(entry), Turned(stop)) = Quantity(entry, stop)
  BY <1>8, <1>13, QuantityTurns, IntradayAssumption
<1>18. IsWhole(s) /\ TurnedSignal(s) = Trade(b, k)
  BY <1>6, <1>8, <1>13, <1>14, <1>15, <1>17, SignalTurns
<1>19. TurnedSignal(s).quantity = s.quantity
  BY DEF TurnedSignal
<1>20. TurnedSignal(s) \in Of(b)
  BY <1>3, <1>6, <1>16, <1>18, <1>19
<1>. QED BY <1>2, <1>18, <1>20 DEF TurnsIn, Breakout

-----------------------------------------------------------------------------
(* Setups and biases upside down *)

\* The values of bars at places, so that they can be spoken of.
HighsAt(b, S) == {b[j].high : j \in S}
LowsAt(b, S) == {b[j].low : j \in S}

LEMMA TopTurns ==
  ASSUME NEW a, NEW b, NEW n \in Nat, NEW S, S \subseteq 1..n, S # {},
         \A j \in S : a[j].low \in Int /\ b[j].high = Turned(a[j].low)
  PROVE  Min(LowsAt(a, S)) \in Int /\ Max(HighsAt(b, S)) = Turned(Min(LowsAt(a, S)))
<1>. DEFINE g == [j \in S |-> a[j].low]
            L == LowsAt(a, S)
            H == HighsAt(b, S)
            low == Min(L)
<1>0. Ceiling \in Int
  BY IntradayAssumption
<1>1. \A j \in S : g[j] \in Int /\ g[j] = a[j].low
  OBVIOUS
<1>2. L = {g[j] : j \in S}
  BY DEF LowsAt
<1>. HIDE DEF g, L
<1>3. low \in L /\ low \in Int /\ \A j \in S : low <= g[j]
  <2>1. \A k \in S : g[k] \in Int
    BY <1>1
  <2>2. \E j \in S : \A k \in S : g[j] <= g[k]
    BY <2>1, Least
  <2>3. \E x \in L : \A y \in L : x <= y
    BY <1>2, <2>2
  <2>4. Min(L) \in L /\ \A y \in L : Min(L) <= y
    BY <2>3 DEF Min
  <2>. QED BY <1>2, <2>1, <2>4
<1>4. PICK j \in S : low = g[j]
  BY <1>2, <1>3
<1>5. Turned(low) \in H
  BY <1>1, <1>4 DEF HighsAt
<1>6. \A y \in H : \E k \in S : y = Turned(g[k])
  BY <1>1 DEF HighsAt
<1>. HIDE DEF low, H
<1>7. Turned(low) \in Int /\ \A y \in H : y \in Int /\ y <= Turned(low)
  BY <1>0, <1>1, <1>3, <1>6 DEF Turned
<1>8. Max(H) = Turned(low)
  BY <1>5, <1>7, MaxOnly
<1>. QED BY <1>3, <1>8 DEF low, L, H

LEMMA MinOnly ==
  ASSUME NEW V, NEW x \in Int, x \in V, \A y \in V : y \in Int /\ x <= y
  PROVE  Min(V) = x
<1>1. \A y \in V : x <= y
  OBVIOUS
<1>2. \A z \in V : (\A y \in V : z <= y) => z = x
  OBVIOUS
<1>. QED BY <1>1, <1>2 DEF Min

LEMMA BottomTurns ==
  ASSUME NEW a, NEW b, NEW n \in Nat, NEW S, S \subseteq 1..n, S # {},
         \A j \in S : a[j].high \in Int /\ b[j].low = Turned(a[j].high)
  PROVE  Max(HighsAt(a, S)) \in Int /\ Min(LowsAt(b, S)) = Turned(Max(HighsAt(a, S)))
<1>. DEFINE g == [j \in S |-> a[j].high]
            H == HighsAt(a, S)
            L == LowsAt(b, S)
            high == Max(H)
<1>0. Ceiling \in Int
  BY IntradayAssumption
<1>1. \A j \in S : g[j] \in Int /\ g[j] = a[j].high
  OBVIOUS
<1>2. H = {g[j] : j \in S}
  BY DEF HighsAt
<1>. HIDE DEF g, H
<1>3. high \in H /\ high \in Int /\ \A j \in S : g[j] <= high
  <2>1. \A k \in S : g[k] \in Int
    BY <1>1
  <2>2. \E j \in S : \A k \in S : g[k] <= g[j]
    BY <2>1, Greatest
  <2>3. \E x \in H : \A y \in H : x >= y
    BY <1>2, <2>2
  <2>4. Max(H) \in H /\ \A y \in H : Max(H) >= y
    BY <2>3 DEF Max
  <2>. QED BY <1>2, <2>1, <2>4
<1>4. PICK j \in S : high = g[j]
  BY <1>2, <1>3
<1>5. Turned(high) \in L
  BY <1>1, <1>4 DEF LowsAt
<1>6. \A y \in L : \E k \in S : y = Turned(g[k])
  BY <1>1 DEF LowsAt
<1>. HIDE DEF high, L
<1>7. Turned(high) \in Int /\ \A y \in L : y \in Int /\ Turned(high) <= y
  BY <1>0, <1>1, <1>3, <1>6 DEF Turned
<1>8. Min(L) = Turned(high)
  BY <1>5, <1>7, MinOnly
<1>. QED BY <1>3, <1>8 DEF high, L, H

\* A bar that is made of others, and what it is upside down.
ChunkMirrors(x, y) ==
  /\ x.open \in Int /\ x.close \in Int /\ x.high \in Int /\ x.low \in Int
  /\ y.open = Turned(x.open) /\ y.close = Turned(x.close) /\ y.high = Turned(x.low) /\ y.low = Turned(x.high)

LEMMA ChunkTurns ==
  ASSUME NEW a, NEW b, AreMirrors(a, b), Len(a) > 0
  PROVE  ChunkMirrors(Chunk(a), Chunk(b))
<1>. DEFINE n == Len(a)
            S == 1..n
<1>1. n \in Nat /\ n \in S /\ 1 \in S /\ Len(b) = n /\ DOMAIN a = S /\ DOMAIN b = S
  BY DEF AreMirrors, AreBars
<1>2. \A j \in S : /\ a[j].open \in Int /\ a[j].close \in Int /\ a[j].high \in Int /\ a[j].low \in Int
                   /\ b[j].open = Turned(a[j].open) /\ b[j].close = Turned(a[j].close)
                   /\ b[j].high = Turned(a[j].low) /\ b[j].low = Turned(a[j].high)
  BY DEF AreMirrors, IsMirror, IsBar
<1>3. S \subseteq 1..n /\ S # {}
  BY <1>1
<1>4. Chunk(a) = [open |-> a[1].open, close |-> a[n].close, high |-> Max(HighsAt(a, S)), low |-> Min(LowsAt(a, S))]
  BY <1>1 DEF Chunk, Last, HighsAt, LowsAt
<1>5. Chunk(b) = [open |-> b[1].open, close |-> b[n].close, high |-> Max(HighsAt(b, S)), low |-> Min(LowsAt(b, S))]
  BY <1>1 DEF Chunk, Last, HighsAt, LowsAt
<1>. HIDE DEF n, S
<1>6. Min(LowsAt(a, S)) \in Int /\ Max(HighsAt(b, S)) = Turned(Min(LowsAt(a, S)))
  <2>1. n \in Nat /\ \A j \in S : a[j].low \in Int /\ b[j].high = Turned(a[j].low)
    BY <1>1, <1>2
  <2>. QED BY <1>3, <2>1, TopTurns
<1>7. Max(HighsAt(a, S)) \in Int /\ Min(LowsAt(b, S)) = Turned(Max(HighsAt(a, S)))
  <2>1. n \in Nat /\ \A j \in S : a[j].high \in Int /\ b[j].low = Turned(a[j].high)
    BY <1>1, <1>2
  <2>. QED BY <1>3, <2>1, BottomTurns
<1>. QED BY <1>1, <1>2, <1>4, <1>5, <1>6, <1>7 DEF ChunkMirrors

LEMMA PartTurns ==
  ASSUME NEW a, NEW b, AreMirrors(a, b), NEW lo \in 1..Len(a), NEW hi \in lo..Len(a)
  PROVE  AreMirrors(SubSeq(a, lo, hi), SubSeq(b, lo, hi)) /\ Len(SubSeq(a, lo, hi)) = hi - lo + 1
<1>0. AreBars(a) /\ AreBars(b) /\ Len(b) = Len(a) /\ Len(a) \in Nat /\ \A k \in 1..Len(a) : IsMirror(a[k], b[k])
  BY DEF AreMirrors, AreBars
<1>1. lo \in 1..Len(b) /\ hi \in lo..Len(b)
  BY <1>0
<1>. DEFINE p == SubSeq(a, lo, hi)
            q == SubSeq(b, lo, hi)
<1>2. AreBars(p) /\ Len(p) = hi - lo + 1 /\ AreBars(q) /\ Len(q) = hi - lo + 1
  BY <1>0, <1>1, PartIs
<1>3. \A j \in 1..hi - lo + 1 : p[j] = a[lo + j - 1]
  BY <1>0, PartOf
<1>4. \A j \in 1..hi - lo + 1 : q[j] = b[lo + j - 1]
  BY <1>0, <1>1, PartOf
<1>. HIDE DEF p, q
<1>5. \A j \in 1..hi - lo + 1 : lo + j - 1 \in 1..Len(a)
  BY <1>0
<1>. QED BY <1>0, <1>2, <1>3, <1>4, <1>5 DEF AreMirrors, p, q

\* Bars made of others, and what they are upside down.
ChunksMirror(x, y, q) ==
  q \in Nat /\ Len(x) = q /\ Len(y) = q /\ \A c \in 1..q : ChunkMirrors(x[c], y[c])

LEMMA ChunksTurn ==
  ASSUME NEW a, NEW b, AreMirrors(a, b), NEW n \in Nat \ {0}, NEW i \in 1..Len(a)
  PROVE  ChunksMirror(Chunks(a, n, i), Chunks(b, n, i), (i - 1) \div n)
<1>. DEFINE q == (i - 1) \div n
<1>0. Len(a) \in Nat /\ i - 1 \in Nat /\ i - 1 <= Len(a)
  BY DEF AreMirrors, AreBars
<1>1. q \in Nat /\ q * n <= i - 1
  <2>. DEFINE x == i - 1
  <2>1. x \in Nat
    BY <1>0
  <2>. HIDE DEF x
  <2>2. x \div n \in Nat /\ (x \div n) * n <= x
    BY <2>1, Quotient
  <2>. QED BY <2>2 DEF x
<1>2. /\ Chunks(a, n, i) = [c \in 1..q |-> Chunk(SubSeq(a, (c - 1) * n + 1, c * n))]
      /\ Chunks(b, n, i) = [c \in 1..q |-> Chunk(SubSeq(b, (c - 1) * n + 1, c * n))]
  BY DEF Chunks
<1>. HIDE DEF q
<1>3. Len(Chunks(a, n, i)) = q /\ Len(Chunks(b, n, i)) = q
  BY <1>1, <1>2
<1>4. ASSUME NEW c \in 1..q PROVE ChunkMirrors(Chunks(a, n, i)[c], Chunks(b, n, i)[c])
  <2>. DEFINE lo == (c - 1) * n + 1
              hi == c * n
              part == SubSeq(a, lo, hi)
              turned == SubSeq(b, lo, hi)
  <2>1. c \in Nat /\ c - 1 \in Nat /\ q - c \in Nat
    BY <1>1
  <2>2. (c - 1) * n \in Nat /\ (q - c) * n \in Nat /\ c * n = (c - 1) * n + n /\ q * n = c * n + (q - c) * n
    BY <1>1, <2>1
  <2>3. lo \in Nat /\ hi \in Nat /\ lo >= 1 /\ lo <= hi /\ hi <= i - 1
    BY <1>1, <2>2
  <2>. HIDE DEF lo, hi
  <2>4. lo \in 1..Len(a) /\ hi \in lo..Len(a)
    BY <1>0, <2>3
  <2>5. AreMirrors(part, turned) /\ Len(part) = hi - lo + 1
    BY <2>4, PartTurns
  <2>6. Len(part) > 0
    BY <2>3, <2>5
  <2>. HIDE DEF part, turned
  <2>7. ChunkMirrors(Chunk(part), Chunk(turned))
    BY <2>5, <2>6, ChunkTurns
  <2>. QED BY <1>2, <2>7 DEF part, turned, lo, hi
<1>. QED BY <1>1, <1>3, <1>4 DEF q, ChunksMirror

\* The averages of bias bars, from the first on.
Means == [over : Int, unit : Int]
FirstMean(bias) == [over |-> bias[1].close, unit |-> 1]
MeanRun(e, bias, n) == e = [k \in 0 .. n - 1 |-> IF k = 0 THEN FirstMean(bias) ELSE MeanStep(e[k - 1], bias[k + 1])]

LEMMA MeanRuns ==
  ASSUME NEW bias, NEW n \in Nat \ {0}, \A c \in 1..n : bias[c].close \in Int
  PROVE  \E e : MeanRun(e, bias, n)
<1>. DEFINE m == n - 1
            step == [k \in 1..m |-> [s \in Means |-> MeanStep(s, bias[k + 1])]]
            first == FirstMean(bias)
<1>1. m \in Nat /\ 1 \in 1..n /\ \A k \in 1..m : k + 1 \in 1..n
  OBVIOUS
<1>2. first \in Means
  BY <1>1 DEF FirstMean, Means
<1>3. ASSUME NEW k \in 1..m, NEW s \in Means PROVE MeanStep(s, bias[k + 1]) \in Means
  <2>1. s.over \in Int /\ s.unit \in Int /\ bias[k + 1].close \in Int
    BY <1>1 DEF Means
  <2>2. bias[k + 1].close * s.unit \in Int
    BY <2>1
  <2>. QED BY <2>1, <2>2 DEF MeanStep, Means
<1>4. \A k \in 1..m : \A s \in Means : step[k][s] = MeanStep(s, bias[k + 1])
  OBVIOUS
<1>5. IsSteps(step, m, Means)
  BY <1>3 DEF IsSteps
<1>. HIDE DEF step, m, first
<1>6. PICK e : IsScan(e, step, m, Means, first)
  BY <1>1, <1>2, <1>5, ScanExists
<1>7. e \in [0..m -> Means] /\ e[0] = first /\ \A k \in 1..m : e[k] = step[k][e[k - 1]]
  BY <1>6 DEF IsScan
<1>8. ASSUME NEW k \in 1..m PROVE e[k] = MeanStep(e[k - 1], bias[k + 1])
  <2>1. k - 1 \in 0..m
    BY <1>1
  <2>. QED BY <1>4, <1>7, <2>1
<1>9. \A k \in 0..m : k # 0 => k \in 1..m
  BY <1>1
<1>10. e = [k \in 0..m |-> IF k = 0 THEN first ELSE MeanStep(e[k - 1], bias[k + 1])]
  BY <1>7, <1>8, <1>9
<1>11. MeanRun(e, bias, n)
  BY <1>10 DEF MeanRun, m, first
<1>. QED BY <1>11

LEMMA BiasMeanIs ==
  ASSUME NEW bias, NEW n \in Nat \ {0}, \A c \in 1..n : bias[c].close \in Int
  PROVE  \E e : MeanRun(e, bias, n) /\ BiasMean(bias, n) = e[n - 1]
<1>. DEFINE e == CHOOSE e : MeanRun(e, bias, n)
<1>1. MeanRun(e, bias, n)
  BY MeanRuns
<1>2. BiasMean(bias, n) = e[n - 1]
  BY DEF BiasMean, MeanRun, FirstMean
<1>. HIDE DEF e
<1>. QED BY <1>1, <1>2

LEMMA TimesOff ==
  ASSUME NEW t \in Int, NEW c \in Int, NEW u \in Int, NEW o \in Int
  PROVE  (t * u - o) + (t - c) * u = t * (2 * u) - (o + c * u)
<1>1. (t - c) * u = t * u - c * u /\ t * (2 * u) = t * u + t * u
  OBVIOUS
<1>2. t * u \in Int /\ c * u \in Int
  OBVIOUS
<1>. DEFINE tu == t * u
            cu == c * u
<1>3. tu \in Int /\ cu \in Int /\ (t - c) * u = tu - cu /\ t * (2 * u) = tu + tu
  BY <1>1, <1>2
<1>. HIDE DEF tu, cu
<1>4. (tu - o) + (tu - cu) = (tu + tu) - (o + cu)
  BY <1>3
<1>. QED BY <1>3, <1>4 DEF tu, cu

\* An average upside down.
MeanMirrors(x, y) ==
  x.over \in Int /\ x.unit \in Int /\ y.unit = x.unit /\ y.over = Ceiling * x.unit - x.over

LEMMA MeanTurns ==
  ASSUME NEW x, NEW y, NEW n \in Nat \ {0}, \A c \in 1..n : ChunkMirrors(x[c], y[c])
  PROVE  MeanMirrors(BiasMean(x, n), BiasMean(y, n))
<1>0. Ceiling \in Int
  BY IntradayAssumption
<1>1. \A c \in 1..n : x[c].close \in Int /\ y[c].close = Ceiling - x[c].close /\ y[c].close \in Int
  BY <1>0 DEF ChunkMirrors, Turned
<1>2. PICK e : MeanRun(e, x, n) /\ BiasMean(x, n) = e[n - 1]
  BY <1>1, BiasMeanIs
<1>3. PICK f : MeanRun(f, y, n) /\ BiasMean(y, n) = f[n - 1]
  BY <1>1, BiasMeanIs
<1>. DEFINE m == n - 1
            S == {k \in 0..m : MeanMirrors(e[k], f[k])}
<1>4. m \in Nat /\ 0 \in 0..m /\ 1 \in 1..n /\ \A k \in 1..m : k # 0 /\ k \in 0..m /\ k + 1 \in 1..n
  OBVIOUS
<1>5. e[0] = FirstMean(x) /\ \A k \in 1..m : e[k] = MeanStep(e[k - 1], x[k + 1])
  BY <1>2, <1>4 DEF MeanRun
<1>6. f[0] = FirstMean(y) /\ \A k \in 1..m : f[k] = MeanStep(f[k - 1], y[k + 1])
  BY <1>3, <1>4 DEF MeanRun
<1>. HIDE DEF m
<1>7. 0 \in S
  <2>1. MeanMirrors(e[0], f[0])
    BY <1>0, <1>1, <1>4, <1>5, <1>6 DEF FirstMean, MeanMirrors
  <2>. QED BY <1>4, <2>1
<1>8. ASSUME NEW k \in 1..m, k - 1 \in S PROVE k \in S
  <2>. DEFINE o == e[k - 1].over
              u == e[k - 1].unit
              c == x[k + 1].close
              s == e[k - 1]
              t == f[k - 1]
              b == x[k + 1]
              d == y[k + 1]
  <2>1. MeanMirrors(s, t)
    BY <1>8
  <2>2. o \in Int /\ u \in Int /\ t.unit = u /\ t.over = Ceiling * u - o
    BY <2>1 DEF MeanMirrors
  <2>3. c \in Int /\ d.close = Ceiling - c
    BY <1>1, <1>4
  <2>4. e[k] = MeanStep(s, b) /\ f[k] = MeanStep(t, d)
    BY <1>5, <1>6
  <2>5. e[k].over = o + c * u /\ e[k].unit = 2 * u
    BY <2>4 DEF MeanStep
  <2>6. f[k].over = t.over + d.close * t.unit /\ f[k].unit = 2 * t.unit
    <3>. HIDE DEF d, t
    <3>. QED BY <2>4 DEF MeanStep
  <2>. HIDE DEF o, u, c, t, d
  <2>7. f[k].over = (Ceiling * u - o) + (Ceiling - c) * u /\ f[k].unit = 2 * u
    BY <2>2, <2>3, <2>6
  <2>8. c * u \in Int
    BY <2>2, <2>3
  <2>9. e[k].over \in Int /\ e[k].unit \in Int
    BY <2>2, <2>5, <2>8
  <2>10. f[k].over = Ceiling * (2 * u) - (o + c * u)
    BY <1>0, <2>2, <2>3, <2>7, TimesOff
  <2>11. f[k].over = Ceiling * e[k].unit - e[k].over
    BY <2>5, <2>10
  <2>12. MeanMirrors(e[k], f[k])
    BY <2>5, <2>7, <2>9, <2>11 DEF MeanMirrors
  <2>. QED BY <1>4, <2>12
<1>9. 0..m \subseteq S
  <2>. HIDE DEF S
  <2>. QED BY <1>4, <1>7, <1>8, Climb
<1>10. m \in 0..m
  BY <1>4
<1>. QED BY <1>2, <1>3, <1>9, <1>10 DEF m

\* Two runs of averages have the same units, however long they are.
LEMMA UnitsAgree ==
  ASSUME NEW x, NEW m \in Nat, NEW n \in Nat, m <= n, NEW e, MeanRun(e, x, n + 1), NEW f, MeanRun(f, x, m + 1)
  PROVE  f[m].unit \in Int /\ e[m].unit = f[m].unit /\ (n = m + 1 => e[n].unit = 2 * e[m].unit)
<1>. DEFINE S == {k \in 0..m : e[k].unit = f[k].unit /\ f[k].unit \in Int}
<1>1. n + 1 - 1 = n /\ m + 1 - 1 = m /\ \A k \in 0..m : k \in 0..n
  OBVIOUS
<1>2. e = [k \in 0..n |-> IF k = 0 THEN FirstMean(x) ELSE MeanStep(e[k - 1], x[k + 1])]
  BY <1>1 DEF MeanRun
<1>3. f = [k \in 0..m |-> IF k = 0 THEN FirstMean(x) ELSE MeanStep(f[k - 1], x[k + 1])]
  BY <1>1 DEF MeanRun
<1>4. \A s, b : MeanStep(s, b).unit = 2 * s.unit
  BY DEF MeanStep
<1>5. \A k \in 1..n : k # 0 /\ k \in 0..n
  OBVIOUS
<1>6. 0 \in 0..n /\ 0 \in 0..m /\ FirstMean(x).unit = 1
  BY DEF FirstMean
<1>7. e[0].unit = 1 /\ f[0].unit = 1
  BY <1>2, <1>3, <1>6
<1>8. \A k \in 1..n : e[k] = MeanStep(e[k - 1], x[k + 1])
  BY <1>2, <1>5
<1>9. \A k \in 1..m : f[k] = MeanStep(f[k - 1], x[k + 1])
  <2>1. \A k \in 1..m : k # 0 /\ k \in 0..m
    OBVIOUS
  <2>. QED BY <1>3, <2>1
<1>10. (\A k \in 1..n : e[k].unit = 2 * e[k - 1].unit) /\ (\A k \in 1..m : f[k].unit = 2 * f[k - 1].unit)
  BY <1>4, <1>8, <1>9
<1>11. 0 \in S
  BY <1>6, <1>7
<1>12. ASSUME NEW k \in 1..m, k - 1 \in S PROVE k \in S
  BY <1>10, <1>12
<1>13. 0..m \subseteq S
  <2>. HIDE DEF S
  <2>. QED BY <1>11, <1>12, Climb
<1>14. m \in S
  BY <1>13
<1>15. ASSUME n = m + 1 PROVE e[n].unit = 2 * e[m].unit
  <2>1. n \in 1..n /\ n - 1 = m
    BY <1>15
  <2>. QED BY <1>10, <2>1
<1>. QED BY <1>14, <1>15

LEMMA UnitDoubles ==
  ASSUME NEW x, NEW n \in Nat, n > 1, \A c \in 1..n : x[c].close \in Int
  PROVE  BiasMean(x, n).unit = 2 * BiasMean(x, n - 1).unit
<1>. DEFINE l == n - 1
            m == n - 2
<1>1. l \in Nat \ {0} /\ n \in Nat \ {0} /\ m \in Nat /\ m + 1 = l /\ l + 1 = n /\ m <= l /\ l - 1 = m /\ n - 1 = l
  OBVIOUS
<1>2. \A c \in 1..l : x[c].close \in Int
  BY <1>1
<1>. HIDE DEF l, m
<1>3. PICK e : MeanRun(e, x, n) /\ BiasMean(x, n) = e[n - 1]
  BY <1>1, BiasMeanIs
<1>4. PICK f : MeanRun(f, x, l) /\ BiasMean(x, l) = f[l - 1]
  BY <1>1, <1>2, BiasMeanIs
<1>5. MeanRun(e, x, l + 1) /\ MeanRun(f, x, m + 1)
  BY <1>1, <1>3, <1>4
<1>6. e[m].unit = f[m].unit /\ (l = m + 1 => e[l].unit = 2 * e[m].unit)
  BY <1>1, <1>5, UnitsAgree, SMTT(30)
<1>. QED BY <1>1, <1>3, <1>4, <1>6

LEMMA AheadOff ==
  ASSUME NEW side \in Sides, NEW t \in Int, NEW x \in Int, NEW y \in Int
  PROVE  Ahead(Flip(side), t - x, t - y) = Ahead(side, x, y)
BY DEF Ahead, Flip, Sides, Buy, Sell

LEMMA BiasTurns ==
  ASSUME NEW x, NEW y, NEW n \in Nat \ {0}, ChunksMirror(x, y, n), NEW side \in Bias(x)
  PROVE  Flip(side) \in Bias(y)
<1>. DEFINE now == BiasMean(x, n)
            then == BiasMean(y, n)
            o == now.over
            u == now.unit
            c == x[n].close
            other == Flip(side)
<1>0. Ceiling \in Int /\ n \in 1..n
  BY IntradayAssumption
<1>1. Len(x) = n /\ Len(y) = n /\ \A k \in 1..n : ChunkMirrors(x[k], y[k])
  BY DEF ChunksMirror
<1>2. /\ side \in Sides /\ Ahead(side, x[n].open, x[n].close) > 0
      /\ Ahead(side, now.over, x[n].close * now.unit) >= 0
      /\ n = 1 \/ Ahead(side, BiasMean(x, n - 1).over * 2, now.over) >= 0
  BY <1>1 DEF Bias
<1>3. other \in Sides
  BY <1>2, Flipped
<1>4. ChunkMirrors(x[n], y[n]) /\ \A k \in 1..n : x[k].close \in Int
  BY <1>0, <1>1 DEF ChunkMirrors
<1>5. Ahead(other, y[n].open, y[n].close) > 0
  <2>1. x[n].open \in Int /\ x[n].close \in Int /\ y[n].open = Turned(x[n].open) /\ y[n].close = Turned(x[n].close)
    BY <1>4 DEF ChunkMirrors
  <2>. QED BY <1>2, <2>1, AheadTurns
<1>6. o \in Int /\ u \in Int /\ then.unit = u /\ then.over = Ceiling * u - o /\ c \in Int /\ y[n].close = Ceiling - c
  <2>1. MeanMirrors(now, then)
    BY <1>1, MeanTurns
  <2>. QED BY <1>4, <2>1 DEF MeanMirrors, ChunkMirrors, Turned
<1>. DEFINE t == Ceiling * u
            w == c * u
<1>7. t \in Int /\ w \in Int /\ y[n].close * u = t - w
  BY <1>0, <1>6
<1>8. Ahead(other, then.over, y[n].close * then.unit) >= 0
  <2>1. then.over = t - o /\ y[n].close * then.unit = t - w
    BY <1>6, <1>7
  <2>2. Ahead(side, o, w) >= 0
    BY <1>2
  <2>3. o \in Int
    BY <1>6
  <2>. HIDE DEF t, w, o
  <2>4. Ahead(other, t - o, t - w) = Ahead(side, o, w)
    BY <1>2, <1>7, <2>3, AheadOff
  <2>. QED BY <2>1, <2>2, <2>4
<1>9. ASSUME n # 1 PROVE Ahead(other, BiasMean(y, n - 1).over * 2, then.over) >= 0
  <2>. DEFINE early == BiasMean(x, n - 1)
              before == BiasMean(y, n - 1)
              p == early.over
              v == early.unit
  <2>1. n - 1 \in Nat \ {0} /\ n > 1 /\ \A k \in 1 .. n - 1 : ChunkMirrors(x[k], y[k])
    BY <1>1, <1>9
  <2>. DEFINE l == n - 1
  <2>2. MeanMirrors(early, before)
    <3>1. l \in Nat \ {0} /\ \A k \in 1..l : ChunkMirrors(x[k], y[k])
      BY <2>1
    <3>. HIDE DEF l
    <3>2. MeanMirrors(BiasMean(x, l), BiasMean(y, l))
      BY <3>1, MeanTurns
    <3>. QED BY <3>2 DEF l
  <2>3. p \in Int /\ v \in Int /\ before.over = Ceiling * v - p
    BY <2>2 DEF MeanMirrors
  <2>4. u = 2 * v
    BY <1>4, <2>1, UnitDoubles
  <2>5. Ahead(side, p * 2, o) >= 0
    BY <1>2, <1>9
  <2>. HIDE DEF early, before, p, v, now, then, o, u, t
  <2>6. before.over * 2 = t - p * 2 /\ then.over = t - o /\ o \in Int /\ p * 2 \in Int
    <3>. DEFINE cv == Ceiling * v
    <3>1. cv \in Int /\ Ceiling * (2 * v) = 2 * cv
      BY <1>0, <2>3
    <3>2. t = 2 * cv
      BY <2>4, <3>1 DEF t
    <3>. HIDE DEF cv
    <3>3. before.over = cv - p
      BY <2>3 DEF cv
    <3>. QED BY <1>6, <2>3, <3>1, <3>2, <3>3 DEF t, o
  <2>. DEFINE pp == p * 2
  <2>. HIDE DEF pp
  <2>7. Ahead(other, t - pp, t - o) = Ahead(side, pp, o)
    BY <1>2, <1>7, <2>6, AheadOff, ZenonT(60) DEF pp
  <2>. QED BY <2>5, <2>6, <2>7 DEF pp, before, then
<1>. QED BY <1>1, <1>3, <1>5, <1>8, <1>9 DEF Bias

TurnedZone(z) == [low |-> Turned(z.high), high |-> Turned(z.low)]

LEMMA ChunkEnds ==
  ASSUME NEW x, NEW y, ChunkMirrors(x, y), NEW side \in Sides
  PROVE  /\ Worst(x, side) \in Int /\ Best(x, side) \in Int
         /\ Worst(y, Flip(side)) = Turned(Worst(x, side)) /\ Best(y, Flip(side)) = Turned(Best(x, side))
<1>1. x.high \in Int /\ x.low \in Int /\ y.high = Turned(x.low) /\ y.low = Turned(x.high)
  BY DEF ChunkMirrors
<1>. QED BY <1>1, EndsTurn

LEMMA ZonesTurn ==
  ASSUME NEW x, NEW y, NEW n \in Nat, n >= 3, ChunksMirror(x, y, n), NEW side \in Sides,
         NEW zone \in SetupZones(x, side)
  PROVE  /\ TurnedZone(zone) \in SetupZones(y, Flip(side))
         /\ zone.low \in Int /\ zone.high \in Int
<1>. DEFINE other == Flip(side)
            b1 == Best(x[n - 1], side)
            b2 == Best(x[n - 2], side)
            w == Worst(x[n], side)
            open == x[n].open
            close == x[n].close
            bos == Ahead(side, open, close) > 0 /\ Ahead(side, b1, close) > 0
            fvg == n >= 3 /\ Ahead(side, b2, w) > 0
            near == IF fvg THEN w ELSE b1
            far == IF bos THEN b1 ELSE b2
            bos2 == /\ Ahead(other, y[n].open, y[n].close) > 0
                    /\ Ahead(other, Best(y[n - 1], other), y[n].close) > 0
            fvg2 == n >= 3 /\ Ahead(other, Best(y[n - 2], other), Worst(y[n], other)) > 0
            near2 == IF fvg2 THEN Worst(y[n], other) ELSE Best(y[n - 1], other)
            far2 == IF bos2 THEN Best(y[n - 1], other) ELSE Best(y[n - 2], other)
<1>1. Len(x) = n /\ Len(y) = n /\ \A k \in 1..n : ChunkMirrors(x[k], y[k])
  BY DEF ChunksMirror
<1>2. n \in 1..n /\ n - 1 \in 1..n /\ n - 2 \in 1..n
  OBVIOUS
<1>3. SetupZones(x, side) = IF bos \/ fvg THEN {[low |-> Lower(near, far), high |-> Higher(near, far)]} ELSE {}
  BY <1>1 DEF SetupZones
<1>4. SetupZones(y, other) = IF bos2 \/ fvg2 THEN {[low |-> Lower(near2, far2), high |-> Higher(near2, far2)]} ELSE {}
  BY <1>1 DEF SetupZones
<1>5. /\ open \in Int /\ close \in Int /\ y[n].open = Turned(open) /\ y[n].close = Turned(close)
  BY <1>1, <1>2 DEF ChunkMirrors
<1>6. /\ b1 \in Int /\ b2 \in Int /\ w \in Int
      /\ Best(y[n - 1], other) = Turned(b1) /\ Best(y[n - 2], other) = Turned(b2) /\ Worst(y[n], other) = Turned(w)
  BY <1>1, <1>2, ChunkEnds
<1>. HIDE DEF b1, b2, w, open, close
<1>7. bos2 <=> bos
  <2>1. Ahead(other, Turned(open), Turned(close)) = Ahead(side, open, close)
    BY <1>5, AheadTurns
  <2>2. Ahead(other, Turned(b1), Turned(close)) = Ahead(side, b1, close)
    BY <1>5, <1>6, AheadTurns
  <2>. QED BY <1>5, <1>6, <2>1, <2>2
<1>8. fvg2 <=> fvg
  <2>1. Ahead(other, Turned(b2), Turned(w)) = Ahead(side, b2, w)
    BY <1>6, AheadTurns
  <2>. QED BY <1>6, <2>1
<1>. HIDE DEF bos, bos2, fvg, fvg2
<1>9. near \in Int /\ far \in Int /\ near2 = Turned(near) /\ far2 = Turned(far)
  BY <1>6, <1>7, <1>8
<1>. HIDE DEF near, near2, far, far2
<1>10. /\ Lower(near2, far2) = Turned(Higher(near, far)) /\ Higher(near2, far2) = Turned(Lower(near, far))
       /\ Lower(near, far) \in Int /\ Higher(near, far) \in Int
  <2>1. Ceiling \in Int
    BY IntradayAssumption
  <2>. QED BY <1>9, <2>1 DEF Lower, Higher, Turned
<1>11. zone = [low |-> Lower(near, far), high |-> Higher(near, far)] /\ (bos \/ fvg)
  BY <1>3
<1>12. TurnedZone(zone) = [low |-> Lower(near2, far2), high |-> Higher(near2, far2)]
  BY <1>10, <1>11 DEF TurnedZone
<1>. QED BY <1>4, <1>7, <1>8, <1>10, <1>11, <1>12

LEMMA RetestTurns ==
  ASSUME NEW b, NEW c, IsMirror(b, c), NEW side \in Sides, StrongRetest(b, side)
  PROVE  StrongRetest(c, Flip(side))
<1>. DEFINE other == Flip(side)
            open == b.open
            close == b.close
            worst == Worst(b, side)
            range == b.high - b.low
<1>1. /\ open \in Int /\ close \in Int /\ c.open = Turned(open) /\ c.close = Turned(close)
      /\ b.high \in Int /\ b.low \in Int /\ c.high = Turned(b.low) /\ c.low = Turned(b.high)
  BY DEF IsMirror, IsBar
<1>2. worst \in Int /\ Worst(c, other) = Turned(worst)
  BY <1>1, EndsTurn
<1>3. c.high - c.low = range /\ range \in Int
  <2>1. Ceiling \in Int
    BY IntradayAssumption
  <2>. QED BY <1>1, <2>1 DEF Turned
<1>4. /\ range > 0 /\ Ahead(side, open, close) > 0 /\ Gap(open, close) * 100 >= 35 * range
      /\ Ahead(side, worst, close) * 100 >= 65 * range
  BY DEF StrongRetest
<1>. HIDE DEF open, close, worst, range, other
<1>5. Ahead(other, Turned(open), Turned(close)) = Ahead(side, open, close)
  BY <1>1, AheadTurns DEF other
<1>6. Ahead(other, Turned(worst), Turned(close)) = Ahead(side, worst, close)
  BY <1>1, <1>2, AheadTurns DEF other
<1>7. Gap(Turned(open), Turned(close)) = Gap(open, close)
  BY <1>1, GapTurns
<1>8. StrongRetest(c, other)
  BY <1>1, <1>2, <1>3, <1>4, <1>5, <1>6, <1>7 DEF StrongRetest
<1>. QED BY <1>8 DEF other

-----------------------------------------------------------------------------
(* MTF 5m upside down *)

ZoneEntry(zone, side) == IF side = Buy THEN zone.high ELSE zone.low
ZoneStop(bar, zone, side) == IF side = Buy THEN Lower(bar.low, zone.low) ELSE Higher(bar.high, zone.high)
ZoneTrade(at, bar, zone, side) ==
  Signal("MTF 5m", at, side, ZoneEntry(zone, side), ZoneStop(bar, zone, side), Reward,
         Quantity(ZoneEntry(zone, side), ZoneStop(bar, zone, side)))
IsRetested(bar, zone, side) ==
  /\ Ahead(side, Worst(bar, side), ZoneEntry(zone, side)) >= 0
  /\ Ahead(side, ZoneEntry(zone, side), bar.close) >= 0
  /\ StrongRetest(bar, side)

LEMMA ZoneTradeTurns ==
  ASSUME NEW b, NEW c, IsMirror(b, c), NEW side \in Sides, NEW zone, zone.low \in Int, zone.high \in Int, NEW at
  PROVE  /\ IsWhole(ZoneTrade(at, b, zone, side))
         /\ TurnedSignal(ZoneTrade(at, b, zone, side)) = ZoneTrade(at, c, TurnedZone(zone), Flip(side))
         /\ IsRetested(b, zone, side) => IsRetested(c, TurnedZone(zone), Flip(side))
<1>. DEFINE other == Flip(side)
            turned == TurnedZone(zone)
            entry == ZoneEntry(zone, side)
            stop == ZoneStop(b, zone, side)
            worst == Worst(b, side)
            close == b.close
            quantity == Quantity(entry, stop)
<1>0. Ceiling \in Int /\ Reward \in Int
  BY IntradayAssumption
<1>1. /\ close \in Int /\ c.close = Turned(close)
      /\ b.high \in Int /\ b.low \in Int /\ c.high = Turned(b.low) /\ c.low = Turned(b.high)
  BY DEF IsMirror, IsBar
<1>2. worst \in Int /\ Worst(c, other) = Turned(worst)
  BY <1>1, EndsTurn
<1>3. turned.low = Turned(zone.high) /\ turned.high = Turned(zone.low)
  BY DEF TurnedZone
<1>4. other = Buy <=> side # Buy
  BY DEF Flip, Sides, Buy, Sell
<1>5. entry \in Int /\ ZoneEntry(turned, other) = Turned(entry)
  BY <1>3, <1>4 DEF ZoneEntry
<1>6. stop \in Int /\ ZoneStop(c, turned, other) = Turned(stop)
  <2>1. CASE side = Buy
    <3>1. stop = Lower(b.low, zone.low) /\ ZoneStop(c, turned, other) = Higher(c.high, turned.high)
      BY <1>4, <2>1 DEF ZoneStop
    <3>. QED BY <1>0, <1>1, <1>3, <3>1 DEF Lower, Higher, Turned
  <2>2. CASE side # Buy
    <3>1. stop = Higher(b.high, zone.high) /\ ZoneStop(c, turned, other) = Lower(c.low, turned.low)
      BY <1>4, <2>2 DEF ZoneStop
    <3>. QED BY <1>0, <1>1, <1>3, <3>1 DEF Lower, Higher, Turned
  <2>. QED BY <2>1, <2>2
<1>7. ASSUME IsRetested(b, zone, side) PROVE IsRetested(c, turned, other)
  <2>1. StrongRetest(c, other)
    BY <1>7, RetestTurns DEF IsRetested
  <2>2. Ahead(side, worst, entry) >= 0 /\ Ahead(side, entry, close) >= 0
    BY <1>7 DEF IsRetested
  <2>. HIDE DEF turned, entry, worst, close
  <2>3. Ahead(other, Turned(worst), Turned(entry)) = Ahead(side, worst, entry)
    BY <1>2, <1>5, AheadTurns
  <2>4. Ahead(other, Turned(entry), Turned(close)) = Ahead(side, entry, close)
    BY <1>1, <1>5, AheadTurns
  <2>. QED BY <1>1, <1>2, <1>5, <2>1, <2>2, <2>3, <2>4 DEF IsRetested
<1>8. ZoneTrade(at, b, zone, side) = Signal("MTF 5m", at, side, entry, stop, Reward, quantity)
  BY DEF ZoneTrade
<1>9. ZoneTrade(at, c, turned, other) = Signal("MTF 5m", at, other, Turned(entry), Turned(stop), Reward, Quantity(Turned(entry), Turned(stop)))
  BY <1>5, <1>6 DEF ZoneTrade
<1>. HIDE DEF entry, stop, turned
<1>10. Quantity(Turned(entry), Turned(stop)) = quantity
  BY <1>5, <1>6, QuantityTurns
<1>. HIDE DEF quantity
<1>11. /\ IsWhole(Signal("MTF 5m", at, side, entry, stop, Reward, quantity))
       /\ TurnedSignal(Signal("MTF 5m", at, side, entry, stop, Reward, quantity))
            = Signal("MTF 5m", at, other, Turned(entry), Turned(stop), Reward, quantity)
  <2>1. side \in Sides /\ entry \in Int /\ stop \in Int /\ Reward \in Int
    BY <1>0, <1>5, <1>6
  <2>. DEFINE name == "MTF 5m"
  <2>. HIDE DEF name
  <2>2. /\ TurnedSignal(Signal(name, at, side, entry, stop, Reward, quantity))
             = Signal(name, at, Flip(side), Turned(entry), Turned(stop), Reward, quantity)
        /\ IsWhole(Signal(name, at, side, entry, stop, Reward, quantity))
    BY <2>1, SignalTurns
  <2>. QED BY <2>2 DEF name
<1>. QED BY <1>7, <1>8, <1>9, <1>10, <1>11 DEF turned

\* The trades of a bar of a day, and the first bar that has any.
TradesOn(h, offset, i) ==
  {t \in UNION {{ZoneTrade(offset + i, h[i], zone, side) :
                   zone \in {z \in SetupZones(Chunks(h, SetupBars, i), side) : IsRetested(h[i], z, side)}} :
                  side \in Bias(Chunks(h, BiasBars, i))} : t.quantity > 0}
ReadyBars(h, offset) ==
  {i \in MtfFirst .. Len(h) : /\ (i - 1) \div BiasBars >= 1
                              /\ (i - 1) \div SetupBars >= 3
                              /\ TradesOn(h, offset, i) # {}}
MtfOn(h, offset) == IF Len(h) < MtfBars THEN {} ELSE UNION {TradesOn(h, offset, i) : i \in FirstOf(ReadyBars(h, offset))}

LEMMA TradesOnIs ==
  ASSUME NEW h, NEW offset, NEW i, NEW t
  PROVE  t \in TradesOn(h, offset, i)
           <=> /\ t.quantity > 0
               /\ \E side \in Bias(Chunks(h, BiasBars, i)) : \E zone \in SetupZones(Chunks(h, SetupBars, i), side) :
                    IsRetested(h[i], zone, side) /\ t = ZoneTrade(offset + i, h[i], zone, side)
<1>. DEFINE B == Bias(Chunks(h, BiasBars, i))
            Z(side) == SetupZones(Chunks(h, SetupBars, i), side)
            T(zone, side) == ZoneTrade(offset + i, h[i], zone, side)
            R(zone, side) == IsRetested(h[i], zone, side)
<1>1. TradesOn(h, offset, i) = {x \in UNION {{T(zone, side) : zone \in {z \in Z(side) : R(z, side)}} : side \in B} : x.quantity > 0}
  BY DEF TradesOn
<1>. HIDE DEF B, Z, T, R
<1>2. t \in TradesOn(h, offset, i) <=> t.quantity > 0 /\ \E side \in B : \E zone \in Z(side) : R(zone, side) /\ t = T(zone, side)
  BY <1>1
<1>. QED BY <1>2 DEF B, Z, T, R

LEMMA TradesOnTurn ==
  ASSUME NEW a, NEW b, AreMirrors(a, b), NEW offset, NEW i \in 1..Len(a),
         (i - 1) \div BiasBars >= 1, (i - 1) \div SetupBars >= 3, NEW t \in TradesOn(a, offset, i)
  PROVE  TurnsIn(t, TradesOn(b, offset, i))
<1>. DEFINE bias == Chunks(a, BiasBars, i)
            setup == Chunks(a, SetupBars, i)
            q == (i - 1) \div BiasBars
            r == (i - 1) \div SetupBars
<1>1. BiasBars \in Nat \ {0} /\ SetupBars \in Nat \ {0}
  BY IntradayAssumption
<1>2. ChunksMirror(bias, Chunks(b, BiasBars, i), q)
  BY <1>1, ChunksTurn
<1>3. ChunksMirror(setup, Chunks(b, SetupBars, i), r)
  BY <1>1, ChunksTurn
<1>4. PICK side \in Bias(bias) : \E zone \in SetupZones(setup, side) :
        IsRetested(a[i], zone, side) /\ t = ZoneTrade(offset + i, a[i], zone, side)
  BY TradesOnIs
<1>5. PICK zone \in SetupZones(setup, side) : IsRetested(a[i], zone, side) /\ t = ZoneTrade(offset + i, a[i], zone, side)
  BY <1>4
<1>6. t.quantity > 0
  BY TradesOnIs
<1>7. IsMirror(a[i], b[i]) /\ side \in Sides
  BY <1>4 DEF AreMirrors, Bias
<1>8. q \in Nat \ {0} /\ r \in Nat /\ r >= 3
  BY <1>2, <1>3 DEF ChunksMirror
<1>. HIDE DEF bias, setup, q, r
<1>9. Flip(side) \in Bias(Chunks(b, BiasBars, i))
  BY <1>2, <1>4, <1>8, BiasTurns
<1>10. TurnedZone(zone) \in SetupZones(Chunks(b, SetupBars, i), Flip(side)) /\ zone.low \in Int /\ zone.high \in Int
  BY <1>3, <1>5, <1>7, <1>8, ZonesTurn
<1>. DEFINE x == a[i]
            y == b[i]
            at == offset + i
            turned == TurnedZone(zone)
            other == Flip(side)
<1>11. /\ IsWhole(ZoneTrade(at, x, zone, side))
       /\ TurnedSignal(ZoneTrade(at, x, zone, side)) = ZoneTrade(at, y, turned, other)
       /\ IsRetested(x, zone, side) => IsRetested(y, turned, other)
  <2>1. IsMirror(x, y)
    BY <1>7
  <2>. HIDE DEF x, y, at
  <2>. QED BY <1>7, <1>10, <2>1, ZoneTradeTurns
<1>12. IsWhole(t) /\ TurnedSignal(t) = ZoneTrade(at, y, turned, other) /\ IsRetested(y, turned, other)
  BY <1>5, <1>11
<1>13. TurnedSignal(t).quantity > 0
  BY <1>6 DEF TurnedSignal
<1>. HIDE DEF turned, other
<1>14. other \in Bias(Chunks(b, BiasBars, i)) /\ turned \in SetupZones(Chunks(b, SetupBars, i), other)
  BY <1>9, <1>10 DEF turned, other
<1>15. TurnedSignal(t) \in TradesOn(b, offset, i)
  BY <1>12, <1>13, <1>14, TradesOnIs
<1>. QED BY <1>12, <1>15 DEF TurnsIn

LEMMA MtfOnTurns ==
  ASSUME NEW a, NEW b, AreMirrors(a, b), NEW offset, NEW t \in MtfOn(a, offset)
  PROVE  TurnsIn(t, MtfOn(b, offset))
<1>. DEFINE A == ReadyBars(a, offset)
            B == ReadyBars(b, offset)
<1>0. Len(a) \in Nat /\ Len(b) = Len(a) /\ AreMirrors(b, a) /\ MtfFirst \in Nat \ {0}
  BY MirrorsTurn, IntradayAssumption DEF AreMirrors, AreBars
<1>1. ASSUME NEW i \in A PROVE i \in B /\ i \in 1..Len(a) /\ (i - 1) \div BiasBars >= 1 /\ (i - 1) \div SetupBars >= 3
  <2>1. /\ i \in MtfFirst .. Len(a) /\ (i - 1) \div BiasBars >= 1 /\ (i - 1) \div SetupBars >= 3
        /\ TradesOn(a, offset, i) # {}
    BY DEF ReadyBars
  <2>2. i \in 1..Len(a)
    BY <1>0, <2>1
  <2>3. PICK u : u \in TradesOn(a, offset, i)
    BY <2>1
  <2>4. TradesOn(b, offset, i) # {}
    BY <2>1, <2>2, <2>3, TradesOnTurn DEF TurnsIn
  <2>. QED BY <1>0, <2>1, <2>2, <2>4 DEF ReadyBars
<1>2. ASSUME NEW i \in B PROVE i \in A
  <2>1. /\ i \in MtfFirst .. Len(a) /\ (i - 1) \div BiasBars >= 1 /\ (i - 1) \div SetupBars >= 3
        /\ TradesOn(b, offset, i) # {}
    BY <1>0 DEF ReadyBars
  <2>2. i \in 1..Len(b)
    BY <1>0, <2>1
  <2>3. PICK u : u \in TradesOn(b, offset, i)
    BY <2>1
  <2>4. TradesOn(a, offset, i) # {}
    BY <1>0, <2>1, <2>2, <2>3, TradesOnTurn DEF TurnsIn
  <2>. QED BY <2>1, <2>4 DEF ReadyBars
<1>3. A = B /\ A \subseteq Nat
  BY <1>0, <1>1, <1>2
<1>. HIDE DEF A, B
<1>4. ~(Len(a) < MtfBars) /\ \E i \in FirstOf(A) : t \in TradesOn(a, offset, i)
  BY DEF MtfOn, A
<1>5. PICK i \in FirstOf(A) : t \in TradesOn(a, offset, i)
  BY <1>4
<1>6. i \in A
  <2>1. A # {} /\ i = Min(A)
    BY <1>5 DEF FirstOf
  <2>. QED BY <1>3, <2>1, MinIs
<1>7. TurnsIn(t, TradesOn(b, offset, i))
  BY <1>1, <1>5, <1>6, TradesOnTurn
<1>8. IsWhole(t) /\ TurnedSignal(t) \in TradesOn(b, offset, i) /\ i \in FirstOf(ReadyBars(b, offset))
  BY <1>3, <1>5, <1>7 DEF TurnsIn, B
<1>9. MtfOn(b, offset) = UNION {TradesOn(b, offset, k) : k \in FirstOf(ReadyBars(b, offset))}
  BY <1>0, <1>4 DEF MtfOn
<1>. QED BY <1>8, <1>9 DEF TurnsIn

LEMMA MtfTurns ==
  ASSUME NEW a, NEW b, AreMirrors(a, b), NEW s \in Mtf(a)
  PROVE  TurnsIn(s, Mtf(b))
<1>1. PICK day \in Days(a) : s \in MtfOf(a, day)
  BY DEF Mtf
<1>. DEFINE lo == Min(BarsOf(a, day))
            hi == Max(BarsOf(a, day))
            part == SubSeq(a, lo, hi)
            turned == SubSeq(b, lo, hi)
<1>2. day \in Days(b) /\ BarsOf(b, day) = BarsOf(a, day) /\ Len(a) \in Nat
  BY DaysTurn
<1>3. MtfOf(a, day) = MtfOn(part, lo - 1)
  BY DEF MtfOf, MtfOn, ReadyBars, TradesOn, ZoneTrade, ZoneEntry, ZoneStop, IsRetested
<1>4. MtfOf(b, day) = MtfOn(turned, lo - 1)
  BY <1>2 DEF MtfOf, MtfOn, ReadyBars, TradesOn, ZoneTrade, ZoneEntry, ZoneStop, IsRetested
<1>5. lo \in 1..Len(a) /\ hi \in lo..Len(a)
  <2>1. lo \in BarsOf(a, day) /\ hi \in BarsOf(a, day) /\ BarsOf(a, day) \subseteq 1..Len(a)
    BY DayIs DEF AreMirrors
  <2>2. lo <= hi
    <3>1. BarsOf(a, day) \subseteq Nat
      BY <1>2, <2>1
    <3>. QED BY <2>1, <3>1, MinIs
  <2>. HIDE DEF lo, hi
  <2>. QED BY <1>2, <2>1, <2>2
<1>6. AreMirrors(part, turned)
  <2>. HIDE DEF lo, hi
  <2>. QED BY <1>5, PartTurns
<1>. HIDE DEF lo, part, turned
<1>7. TurnsIn(s, MtfOn(turned, lo - 1))
  BY <1>1, <1>3, <1>6, MtfOnTurns
<1>. QED BY <1>2, <1>4, <1>7 DEF TurnsIn, Mtf

-----------------------------------------------------------------------------
(* Indicators upside down *)

\* The difference of sums, of which the one is so many times as large.
LEMMA SumOff ==
  ASSUME NEW S, IsFiniteSet(S), NEW t \in Int, NEW v, NEW w, NEW u,
         \A j \in S : v[j] \in Int /\ w[j] \in Int /\ u[j] \in Int /\ u[j] = t * v[j] - w[j]
  PROVE  SumFunctionOnSet(u, S) = t * SumFunctionOnSet(v, S) - SumFunctionOnSet(w, S)
<1>. DEFINE Right(T) == SumFunctionOnSet(u, T) = t * SumFunctionOnSet(v, T) - SumFunctionOnSet(w, T)
            Bad == {T \in SUBSET S : ~Right(T)}
<1>. SUFFICES ASSUME Bad # {} PROVE FALSE
  <2>1. S \in SUBSET S
    OBVIOUS
  <2>2. Right(S)
    BY <2>1
  <2>. QED BY <2>2
<1>1. PICK T \in Bad : \A U \in Bad : U \subseteq T => U = T
  <2>1. Bad \subseteq SUBSET S
    OBVIOUS
  <2>. HIDE DEF Bad
  <2>. QED BY <2>1, SmallestSubset
<1>2. T \subseteq S /\ IsFiniteSet(T) /\ ~Right(T)
  <2>1. T \subseteq S /\ ~Right(T)
    OBVIOUS
  <2>. QED BY <2>1, FS_Subset
<1>3. T # {}
  <2>1. SumFunctionOnSet(u, {}) = 0 /\ SumFunctionOnSet(v, {}) = 0 /\ SumFunctionOnSet(w, {}) = 0
    BY SumEmpty
  <2>2. Right({})
    BY <2>1
  <2>. QED BY <1>2, <2>2
<1>4. PICK x : x \in T
  BY <1>3
<1>. DEFINE U == T \ {x}
<1>5. U \subseteq T /\ U # T /\ U \in SUBSET S
  BY <1>2, <1>4
<1>6. Right(U)
  BY <1>1, <1>5
<1>7. \A i \in S : u[i] \in Int /\ v[i] \in Int /\ w[i] \in Int
  OBVIOUS
<1>8. \A i \in T : u[i] \in Int /\ v[i] \in Int /\ w[i] \in Int
  BY <1>2, <1>7
<1>9. SumFunctionOnSet(u, T) = u[x] + SumFunctionOnSet(u, U)
  BY <1>2, <1>4, <1>8, ProfitWithout
<1>10. SumFunctionOnSet(v, T) = v[x] + SumFunctionOnSet(v, U)
  BY <1>2, <1>4, <1>8, ProfitWithout
<1>11. SumFunctionOnSet(w, T) = w[x] + SumFunctionOnSet(w, U)
  BY <1>2, <1>4, <1>8, ProfitWithout
<1>12. IsFiniteSet(U) /\ \A i \in U : v[i] \in Int /\ w[i] \in Int
  BY <1>2, <1>5, <1>8, FS_Subset
<1>. HIDE DEF U
<1>13. SumFunctionOnSet(v, U) \in Int /\ SumFunctionOnSet(w, U) \in Int
  BY <1>12, ProfitType
<1>14. x \in S /\ u[x] = t * v[x] - w[x] /\ v[x] \in Int /\ w[x] \in Int
  BY <1>2, <1>4
<1>. DEFINE a == v[x]
            b == SumFunctionOnSet(v, U)
            c == w[x]
            d == SumFunctionOnSet(w, U)
<1>15. a \in Int /\ b \in Int /\ c \in Int /\ d \in Int
  BY <1>13, <1>14
<1>16. SumFunctionOnSet(u, T) = (t * a - c) + (t * b - d) /\ SumFunctionOnSet(v, T) = a + b /\ SumFunctionOnSet(w, T) = c + d
  BY <1>6, <1>9, <1>10, <1>11, <1>14
<1>. HIDE DEF a, b, c, d
<1>17. t * (a + b) = t * a + t * b /\ t * a \in Int /\ t * b \in Int
  BY <1>15
<1>18. (t * a - c) + (t * b - d) = t * (a + b) - (c + d)
  BY <1>15, <1>17
<1>. QED BY <1>2, <1>16, <1>18

\* Averages of gains and losses, from the first on.
Averages == [gain : Int, loss : Int, unit : Int]
SmoothRun(e, p, first, moves, n) == e = [k \in 0..n |-> IF k = 0 THEN first ELSE SmoothStep(p, e[k - 1], moves[k])]

LEMMA SmoothStepType ==
  ASSUME NEW p \in Int, NEW s \in Averages, NEW move, move.gain \in Int, move.loss \in Int
  PROVE  SmoothStep(p, s, move) \in Averages
<1>1. s.gain \in Int /\ s.loss \in Int /\ s.unit \in Int
  BY DEF Averages
<1>2. s.gain * (p - 1) \in Int /\ s.loss * (p - 1) \in Int /\ move.gain * s.unit \in Int /\ move.loss * s.unit \in Int /\ s.unit * p \in Int
  BY <1>1
<1>. QED BY <1>2 DEF SmoothStep, Averages

LEMMA SmoothRuns ==
  ASSUME NEW p \in Int, NEW first \in Averages, NEW moves, NEW n \in Nat,
         \A k \in 1..n : moves[k].gain \in Int /\ moves[k].loss \in Int
  PROVE  \E e : SmoothRun(e, p, first, moves, n)
<1>. DEFINE step == [k \in 1..n |-> [s \in Averages |-> SmoothStep(p, s, moves[k])]]
<1>1. IsSteps(step, n, Averages)
  BY SmoothStepType DEF IsSteps
<1>2. \A k \in 1..n : \A s \in Averages : step[k][s] = SmoothStep(p, s, moves[k])
  OBVIOUS
<1>. HIDE DEF step
<1>3. PICK e : IsScan(e, step, n, Averages, first)
  BY <1>1, ScanExists
<1>4. e \in [0..n -> Averages] /\ e[0] = first /\ \A k \in 1..n : e[k] = step[k][e[k - 1]]
  BY <1>3 DEF IsScan
<1>5. ASSUME NEW k \in 1..n PROVE e[k] = SmoothStep(p, e[k - 1], moves[k])
  <2>1. k - 1 \in 0..n
    OBVIOUS
  <2>. QED BY <1>2, <1>4, <2>1
<1>6. \A k \in 0..n : k # 0 => k \in 1..n
  OBVIOUS
<1>7. e = [k \in 0..n |-> IF k = 0 THEN first ELSE SmoothStep(p, e[k - 1], moves[k])]
  BY <1>4, <1>5, <1>6
<1>8. SmoothRun(e, p, first, moves, n)
  BY <1>7 DEF SmoothRun
<1>. QED BY <1>8

LEMMA SmoothIs ==
  ASSUME NEW p \in Int, NEW first \in Averages, NEW moves, Len(moves) \in Nat,
         \A k \in 1..Len(moves) : moves[k].gain \in Int /\ moves[k].loss \in Int
  PROVE  \E e : SmoothRun(e, p, first, moves, Len(moves)) /\ SmoothedOver(p, first, moves) = e[Len(moves)]
<1>. DEFINE e == CHOOSE e : SmoothRun(e, p, first, moves, Len(moves))
<1>1. SmoothRun(e, p, first, moves, Len(moves))
  BY SmoothRuns
<1>2. SmoothedOver(p, first, moves) = e[Len(moves)]
  BY DEF SmoothedOver, SmoothRun
<1>. HIDE DEF e
<1>. QED BY <1>1, <1>2

\* The gains of the one are the losses of the other.
Swapped(x, y) == x.gain \in Int /\ x.loss \in Int /\ y.gain = x.loss /\ y.loss = x.gain

LEMMA SmoothTurns ==
  ASSUME NEW p \in Int, NEW first \in Averages, NEW other \in Averages, Swapped(first, other), other.unit = first.unit,
         NEW m, NEW l, NEW n \in Nat, Len(m) = n, Len(l) = n, \A k \in 1..n : Swapped(m[k], l[k])
  PROVE  Swapped(SmoothedOver(p, first, m), SmoothedOver(p, other, l))
<1>1. \A k \in 1..n : m[k].gain \in Int /\ m[k].loss \in Int /\ l[k].gain = m[k].loss /\ l[k].loss = m[k].gain
  BY DEF Swapped
<1>2. \A k \in 1..n : l[k].gain \in Int /\ l[k].loss \in Int
  BY <1>1
<1>13. Len(m) \in Nat /\ \A k \in 1..Len(m) : m[k].gain \in Int /\ m[k].loss \in Int
  BY <1>1
<1>14. Len(l) \in Nat /\ \A k \in 1..Len(l) : l[k].gain \in Int /\ l[k].loss \in Int
  BY <1>2
<1>3. PICK e : SmoothRun(e, p, first, m, n) /\ SmoothedOver(p, first, m) = e[n]
  <2>1. PICK e : SmoothRun(e, p, first, m, Len(m)) /\ SmoothedOver(p, first, m) = e[Len(m)]
    BY <1>13, SmoothIs
  <2>. QED BY <2>1, Zenon
<1>4. PICK f : SmoothRun(f, p, other, l, n) /\ SmoothedOver(p, other, l) = f[n]
  <2>1. PICK f : SmoothRun(f, p, other, l, Len(l)) /\ SmoothedOver(p, other, l) = f[Len(l)]
    BY <1>14, SmoothIs
  <2>. QED BY <2>1, Zenon
<1>5. \A k \in 1..n : k # 0 /\ k \in 0..n
  OBVIOUS
<1>6. 0 \in 0..n /\ n \in 0..n
  OBVIOUS
<1>7. e[0] = first /\ \A k \in 1..n : e[k] = SmoothStep(p, e[k - 1], m[k])
  BY <1>3, <1>5, <1>6 DEF SmoothRun
<1>8. f[0] = other /\ \A k \in 1..n : f[k] = SmoothStep(p, f[k - 1], l[k])
  BY <1>4, <1>5, <1>6 DEF SmoothRun
<1>. DEFINE Fits(k) == e[k] \in Averages /\ Swapped(e[k], f[k]) /\ f[k].unit = e[k].unit
            S == {k \in 0..n : Fits(k)}
<1>9. 0 \in S
  BY <1>6, <1>7, <1>8
<1>10. ASSUME NEW k \in 1..n, k - 1 \in S PROVE k \in S
  <2>. DEFINE s == e[k - 1]
              t == f[k - 1]
              x == m[k]
              y == l[k]
  <2>1. s \in Averages /\ Swapped(s, t) /\ t.unit = s.unit /\ x.gain \in Int /\ x.loss \in Int /\ y.gain = x.loss /\ y.loss = x.gain
    BY <1>1, <1>10
  <2>2. e[k] = SmoothStep(p, s, x) /\ f[k] = SmoothStep(p, t, y)
    BY <1>7, <1>8
  <2>. HIDE DEF s, t, x, y
  <2>3. e[k] \in Averages
    BY <2>1, <2>2, SmoothStepType
  <2>4. e[k].gain \in Int /\ e[k].loss \in Int
    BY <2>3 DEF Averages
  <2>5. t.gain = s.loss /\ t.loss = s.gain
    BY <2>1 DEF Swapped
  <2>6. f[k].gain = e[k].loss /\ f[k].loss = e[k].gain /\ f[k].unit = e[k].unit
    BY <2>1, <2>2, <2>5 DEF SmoothStep
  <2>7. Fits(k)
    BY <2>3, <2>4, <2>6 DEF Swapped
  <2>. QED BY <1>5, <2>7
<1>11. 0..n \subseteq S
  <2>. HIDE DEF S
  <2>. QED BY <1>9, <1>10, Climb
<1>12. Fits(n)
  BY <1>6, <1>11
<1>. QED BY <1>3, <1>4, <1>12

LEMMA PlacedSides ==
  ASSUME NEW bar \in Placed
  PROVE  bar.ema \subseteq Sides /\ bar.slow \subseteq Sides /\ bar.macd \subseteq Sides
<1>1. PICK c \in NextCandles, d \in Nat : bar = OnDay(c, d)
  BY DEF Placed
<1>2. IsCandle(c)
  BY FramesAssumption
<1>3. bar.ema = c.ema /\ bar.slow = c.slow /\ bar.macd = c.macd
  BY <1>1, <1>2 DEF IsCandle, OnDay
<1>. QED BY <1>2, <1>3 DEF IsCandle

\* A frame, and the frame upside down.
Upended(f) == [k \in Bars(f) |-> TurnedBar(f[k])]

LEMMA UpendedIs ==
  ASSUME NEW f \in Seq(Placed)
  PROVE  /\ Len(f) \in Nat /\ Len(Upended(f)) = Len(f) /\ Bars(Upended(f)) = Bars(f)
         /\ \A k \in 1..Len(f) : f[k] \in Placed /\ Upended(f)[k] = TurnedBar(f[k])
BY BarIs DEF Upended, Bars

LEMMA UpendedBar ==
  ASSUME NEW f \in Seq(Placed), NEW k \in 1..Len(f)
  PROVE  /\ Upended(f)[k].day = f[k].day /\ Upended(f)[k].volume = f[k].volume
         /\ Upended(f)[k].open = Turned(f[k].open) /\ Upended(f)[k].close = Turned(f[k].close)
         /\ Upended(f)[k].high = Turned(f[k].low) /\ Upended(f)[k].low = Turned(f[k].high)
         /\ Upended(f)[k].ema = {Flip(s) : s \in f[k].ema} /\ Upended(f)[k].slow = {Flip(s) : s \in f[k].slow}
         /\ Upended(f)[k].macd = {Flip(s) : s \in f[k].macd}
<1>1. Upended(f)[k] = TurnedBar(f[k])
  BY UpendedIs
<1>. DEFINE c == Upended(f)[k]
<1>. HIDE DEF c
<1>2. c = TurnedBar(f[k])
  BY <1>1 DEF c
<1>3. /\ c.day = f[k].day /\ c.volume = f[k].volume
      /\ c.open = Turned(f[k].open) /\ c.close = Turned(f[k].close)
      /\ c.high = Turned(f[k].low) /\ c.low = Turned(f[k].high)
      /\ c.ema = {Flip(s) : s \in f[k].ema} /\ c.slow = {Flip(s) : s \in f[k].slow}
      /\ c.macd = {Flip(s) : s \in f[k].macd}
  BY <1>2 DEF TurnedBar
<1>. QED BY <1>3 DEF c

LEMMA MovesTurn ==
  ASSUME NEW f \in Seq(Placed), NEW j \in 2..Len(f)
  PROVE  /\ Gain(f, j) \in Int /\ Loss(f, j) \in Int
         /\ Gain(Upended(f), j) = Loss(f, j) /\ Loss(Upended(f), j) = Gain(f, j)
<1>1. Ceiling \in Int
  BY IntradayAssumption
<1>2. j \in 1..Len(f) /\ j - 1 \in 1..Len(f)
  BY UpendedIs
<1>. DEFINE now == f[j].close
            past == f[j - 1].close
<1>3. now \in Int /\ past \in Int
  BY <1>2, UpendedIs, PlacedIs
<1>4. Upended(f)[j].close = Ceiling - now /\ Upended(f)[j - 1].close = Ceiling - past
  BY <1>2, UpendedBar DEF Turned
<1>5. Gain(f, j) = Higher(now - past, 0) /\ Loss(f, j) = Higher(past - now, 0)
  BY DEF Gain, Loss
<1>6. /\ Gain(Upended(f), j) = Higher((Ceiling - now) - (Ceiling - past), 0)
      /\ Loss(Upended(f), j) = Higher((Ceiling - past) - (Ceiling - now), 0)
  BY <1>4 DEF Gain, Loss
<1>. HIDE DEF now, past
<1>. QED BY <1>1, <1>3, <1>5, <1>6 DEF Higher

LEMMA VwapTurns ==
  ASSUME NEW f \in Seq(Placed), NEW k \in 1..Len(f)
  PROVE  VwapSide(Upended(f), k) = -VwapSide(f, k)
<1>. DEFINE S == SoFar(f, k)
            g == Upended(f)
            v == [j \in S |-> f[j].volume]
            w == [j \in S |-> f[j].close * f[j].volume]
            u == [j \in S |-> g[j].close * g[j].volume]
            x == [j \in S |-> g[j].volume]
            c == f[k].close
            V == SumFunctionOnSet(v, S)
            W == SumFunctionOnSet(w, S)
<1>1. Ceiling \in Int
  BY IntradayAssumption
<1>2. Len(f) \in Nat /\ Bars(f) = 1..Len(f) /\ Bars(g) = 1..Len(f)
  BY UpendedIs DEF Bars
<1>3. S \subseteq 1..Len(f)
  BY <1>2 DEF SoFar, DayOf
<1>4. SoFar(g, k) = S
  <2>1. \A j \in 1..Len(f) : g[j].day = f[j].day
    BY UpendedBar
  <2>. QED BY <1>2, <2>1 DEF SoFar, DayOf
<1>5. IsFiniteSet(S)
  <2>1. IsFiniteSet(1..Len(f))
    BY <1>2, FS_Interval
  <2>. HIDE DEF S
  <2>. QED BY <1>3, <2>1, FS_Subset
<1>6. ASSUME NEW j \in S
      PROVE  /\ f[j].volume \in Int /\ f[j].close \in Int
             /\ g[j].volume = f[j].volume /\ g[j].close = Ceiling - f[j].close
  <2>1. j \in 1..Len(f)
    BY <1>3
  <2>2. f[j].volume \in Int /\ f[j].close \in Int
    BY <2>1, UpendedIs, PlacedIs
  <2>3. g[j].volume = f[j].volume /\ g[j].close = Ceiling - f[j].close
    BY <2>1, UpendedBar DEF Turned
  <2>. QED BY <2>2, <2>3
<1>7. c \in Int /\ g[k].close = Ceiling - c
  <2>1. c \in Int
    BY UpendedIs, PlacedIs
  <2>2. g[k].close = Ceiling - c
    BY UpendedBar DEF Turned
  <2>. QED BY <2>1, <2>2
<1>. HIDE DEF S, g, c
<1>8. x = v
  BY <1>6
<1>9. \A j \in S : v[j] \in Int /\ w[j] \in Int /\ u[j] \in Int /\ u[j] = Ceiling * v[j] - w[j]
  <2>. TAKE j \in S
  <2>. DEFINE m == f[j].volume
              d == f[j].close
  <2>1. m \in Int /\ d \in Int /\ v[j] = m /\ w[j] = d * m /\ u[j] = (Ceiling - d) * m
    BY <1>6
  <2>. HIDE DEF m, d, v, w, u
  <2>2. d * m \in Int /\ (Ceiling - d) * m = Ceiling * m - d * m /\ Ceiling * m \in Int
    BY <1>1, <2>1
  <2>. QED BY <2>1, <2>2
<1>10. \A j \in S : v[j] \in Int
  BY <1>9
<1>11. \A j \in S : w[j] \in Int
  BY <1>9
<1>12. DOMAIN v = S /\ DOMAIN w = S /\ DOMAIN u = S
  OBVIOUS
<1>13. SumFunction(v) = V /\ SumFunction(w) = W /\ SumFunction(u) = SumFunctionOnSet(u, S)
  BY <1>12 DEF SumFunction, SumFunctionOnSet, FoldFunction
<1>. HIDE DEF v, w, u
<1>14. V \in Int /\ W \in Int
  BY <1>5, <1>10, <1>11, ProfitType
<1>15. SumFunctionOnSet(u, S) = Ceiling * V - W
  BY <1>1, <1>5, <1>9, SumOff
<1>16. VwapSide(f, k) = IF c * V > W THEN 1 ELSE IF c * V < W THEN -1 ELSE 0
  BY <1>13 DEF VwapSide, v, w, S, c
<1>17. VwapSide(g, k) = IF (Ceiling - c) * V > Ceiling * V - W THEN 1 ELSE IF (Ceiling - c) * V < Ceiling * V - W THEN -1 ELSE 0
  <2>1. VwapSide(g, k) = IF g[k].close * SumFunction(x) > SumFunction(u) THEN 1 ELSE IF g[k].close * SumFunction(x) < SumFunction(u) THEN -1 ELSE 0
    BY <1>4 DEF VwapSide, u
  <2>. QED BY <1>7, <1>8, <1>13, <1>15, <2>1
<1>. HIDE DEF V, W
<1>18. (Ceiling - c) * V = Ceiling * V - c * V /\ c * V \in Int /\ Ceiling * V \in Int
  BY <1>1, <1>7, <1>14
<1>. QED BY <1>14, <1>16, <1>17, <1>18 DEF g

LEMMA SumOfMoves ==
  ASSUME NEW p \in Nat, NEW h, \A j \in 2 .. p + 1 : h[j] \in Int
  PROVE  SumFunction([j \in 2 .. p + 1 |-> h[j]]) \in Int
<1>. DEFINE S == 2 .. p + 1
            a == [j \in S |-> h[j]]
<1>1. IsFiniteSet(S)
  BY FS_Interval
<1>2. DOMAIN a = S /\ \A j \in S : a[j] \in Int
  OBVIOUS
<1>. HIDE DEF a, S
<1>3. SumFunctionOnSet(a, S) \in Int
  BY <1>1, <1>2, ProfitType
<1>4. SumFunction(a) \in Int
  BY <1>2, <1>3 DEF SumFunction
<1>. QED BY <1>4 DEF a, S

FirstOver(f, p) == [gain |-> SumFunction([j \in 2 .. p + 1 |-> Gain(f, j)]),
                    loss |-> SumFunction([j \in 2 .. p + 1 |-> Loss(f, j)]), unit |-> p]
MovesTo(f, p, k) == [j \in 1 .. Higher(k - p - 1, 0) |-> [gain |-> Gain(f, p + 1 + j), loss |-> Loss(f, p + 1 + j)]]

LEMMA FirstTurns ==
  ASSUME NEW f \in Seq(Placed), NEW p \in Nat, p + 1 <= Len(f)
  PROVE  /\ FirstOver(f, p) \in Averages /\ FirstOver(Upended(f), p) \in Averages
         /\ Swapped(FirstOver(f, p), FirstOver(Upended(f), p))
         /\ FirstOver(Upended(f), p).unit = FirstOver(f, p).unit
<1>. DEFINE S == 2 .. p + 1
            g == Upended(f)
            won == [j \in S |-> Gain(f, j)]
            lost == [j \in S |-> Loss(f, j)]
            other == [j \in S |-> Gain(g, j)]
            last == [j \in S |-> Loss(g, j)]
<1>1. \A j \in S : j \in 2..Len(f)
  BY UpendedIs
<1>2. \A j \in S : /\ Gain(f, j) \in Int /\ Loss(f, j) \in Int
                   /\ Gain(g, j) = Loss(f, j) /\ Loss(g, j) = Gain(f, j)
  BY <1>1, MovesTurn
<1>3. other = lost /\ last = won
  BY <1>2
<1>4. \A j \in S : won[j] \in Int /\ lost[j] \in Int
  BY <1>2
<1>5. SumFunction([j \in 2 .. p + 1 |-> won[j]]) \in Int
  <2>. HIDE DEF won
  <2>. QED BY <1>4, SumOfMoves
<1>6. SumFunction([j \in 2 .. p + 1 |-> lost[j]]) \in Int
  <2>. HIDE DEF lost
  <2>. QED BY <1>4, SumOfMoves
<1>7. won = [j \in 2 .. p + 1 |-> won[j]] /\ lost = [j \in 2 .. p + 1 |-> lost[j]]
  OBVIOUS
<1>8. SumFunction(won) \in Int /\ SumFunction(lost) \in Int
  <2>. HIDE DEF won, lost
  <2>. QED BY <1>5, <1>6, <1>7
<1>9. FirstOver(f, p) = [gain |-> SumFunction(won), loss |-> SumFunction(lost), unit |-> p]
  BY DEF FirstOver
<1>10. FirstOver(g, p) = [gain |-> SumFunction(other), loss |-> SumFunction(last), unit |-> p]
  BY DEF FirstOver
<1>. HIDE DEF won, lost, other, last, g
<1>11. FirstOver(g, p) = [gain |-> SumFunction(lost), loss |-> SumFunction(won), unit |-> p]
  BY <1>3, <1>10
<1>12. FirstOver(f, p) \in Averages /\ FirstOver(g, p) \in Averages
  BY <1>8, <1>9, <1>11 DEF Averages
<1>13. Swapped(FirstOver(f, p), FirstOver(g, p)) /\ FirstOver(g, p).unit = FirstOver(f, p).unit
  BY <1>8, <1>9, <1>11 DEF Swapped
<1>. QED BY <1>12, <1>13 DEF g

LEMMA RsiSwaps ==
  ASSUME NEW f \in Seq(Placed), NEW k \in 1..Len(f)
  PROVE  Swapped(Smoothed(f)[k], Smoothed(Upended(f))[k])
<1>. DEFINE g == Upended(f)
            p == Period(f)
            n == Higher(k - p - 1, 0)
<1>1. Len(f) \in Nat /\ Len(g) = Len(f) /\ Bars(f) = 1..Len(f) /\ Bars(g) = 1..Len(f)
  BY UpendedIs DEF Bars
<1>2. Period(g) = p
  BY <1>1 DEF Period
<1>3. Smoothed(f)[k] = IF Len(f) = 1 THEN [gain |-> 0, loss |-> 0, unit |-> 1] ELSE SmoothedOver(p, FirstOver(f, p), MovesTo(f, p, k))
  BY <1>1 DEF Smoothed, FirstOver, MovesTo
<1>4. Smoothed(g)[k] = IF Len(g) = 1 THEN [gain |-> 0, loss |-> 0, unit |-> 1]
                       ELSE SmoothedOver(Period(g), FirstOver(g, Period(g)), MovesTo(g, Period(g), k))
  <2>. HIDE DEF g
  <2>. QED BY <1>1 DEF Smoothed, FirstOver, MovesTo
<1>5. CASE Len(f) = 1
  <2>1. Smoothed(f)[k] = [gain |-> 0, loss |-> 0, unit |-> 1] /\ Smoothed(g)[k] = [gain |-> 0, loss |-> 0, unit |-> 1]
    BY <1>1, <1>3, <1>4, <1>5
  <2>. DEFINE a == Smoothed(f)[k]
              b == Smoothed(g)[k]
  <2>. HIDE DEF a, b
  <2>2. a = [gain |-> 0, loss |-> 0, unit |-> 1] /\ b = [gain |-> 0, loss |-> 0, unit |-> 1]
    BY <2>1 DEF a, b
  <2>3. Swapped(a, b)
    BY <2>2 DEF Swapped
  <2>. QED BY <2>3 DEF a, b
<1>6. CASE Len(f) # 1
  <2>1. Len(f) >= 2
    BY <1>1, <1>6
  <2>2. p \in Nat /\ p + 1 <= Len(f)
    BY <1>1, <2>1, IntradayAssumption DEF Period, Higher, Lower
  <2>. HIDE DEF p
  <2>3. n \in Nat
    BY <1>1, <2>2 DEF Higher
  <2>4. \A j \in 1..n : p + 1 + j \in 2..Len(f)
    BY <1>1, <2>2 DEF Higher
  <2>5. \A j \in 1..n : /\ Gain(f, p + 1 + j) \in Int /\ Loss(f, p + 1 + j) \in Int
                        /\ Gain(g, p + 1 + j) = Loss(f, p + 1 + j) /\ Loss(g, p + 1 + j) = Gain(f, p + 1 + j)
    BY <2>4, MovesTurn
  <2>. DEFINE m == MovesTo(f, p, k)
              l == MovesTo(g, p, k)
              first == FirstOver(f, p)
              other == FirstOver(g, p)
  <2>6. m = [j \in 1..n |-> [gain |-> Gain(f, p + 1 + j), loss |-> Loss(f, p + 1 + j)]]
    BY DEF MovesTo
  <2>7. l = [j \in 1..n |-> [gain |-> Gain(g, p + 1 + j), loss |-> Loss(g, p + 1 + j)]]
    BY DEF MovesTo
  <2>. HIDE DEF m, l, n
  <2>8. Len(m) = n /\ Len(l) = n
    BY <2>3, <2>6, <2>7
  <2>9. ASSUME NEW j \in 1..n PROVE Swapped(m[j], l[j])
    <3>. DEFINE x == m[j]
                y == l[j]
    <3>1. x = [gain |-> Gain(f, p + 1 + j), loss |-> Loss(f, p + 1 + j)]
      BY <2>6
    <3>2. y = [gain |-> Gain(g, p + 1 + j), loss |-> Loss(g, p + 1 + j)]
      BY <2>7
    <3>. HIDE DEF x, y, g
    <3>3. x.gain = Gain(f, p + 1 + j) /\ x.loss = Loss(f, p + 1 + j) /\ y.gain = Gain(g, p + 1 + j) /\ y.loss = Loss(g, p + 1 + j)
      BY <3>1, <3>2
    <3>4. Swapped(x, y)
      BY <2>5, <3>3 DEF Swapped
    <3>. QED BY <3>4 DEF x, y
  <2>10. first \in Averages /\ other \in Averages /\ Swapped(first, other) /\ other.unit = first.unit
    BY <2>2, FirstTurns
  <2>. HIDE DEF first, other
  <2>11. p \in Int
    BY <2>2
  <2>12. Swapped(SmoothedOver(p, first, m), SmoothedOver(p, other, l))
    BY <2>3, <2>8, <2>9, <2>10, <2>11, SmoothTurns
  <2>13. Smoothed(f)[k] = SmoothedOver(p, first, m)
    BY <1>3, <1>6 DEF first, m
  <2>14. Smoothed(g)[k] = SmoothedOver(p, other, l)
    BY <1>1, <1>2, <1>4, <1>6 DEF other, l
  <2>. QED BY <2>12, <2>13, <2>14
<1>. QED BY <1>5, <1>6

LEMMA SidesFlip ==
  ASSUME NEW S, S \subseteq Sides, NEW side \in Sides
  PROVE  Flip(side) \in {Flip(s) : s \in S} <=> side \in S
<1>1. ASSUME NEW s \in S, Flip(side) = Flip(s) PROVE side = s
  <2>1. s \in Sides
    OBVIOUS
  <2>. QED BY <1>1, <2>1 DEF Flip, Sides, Buy, Sell
<1>. QED BY <1>1

LEMMA VwapIs ==
  ASSUME NEW f, NEW k
  PROVE  VwapSide(f, k) \in {-1, 0, 1}
BY DEF VwapSide

\* A bar of a frame with its indicators.
ReadAt(f, k) ==
  [day |-> f[k].day, open |-> f[k].open, high |-> f[k].high, low |-> f[k].low,
   close |-> f[k].close, ema |-> f[k].ema, slow |-> f[k].slow, macd |-> f[k].macd,
   vwap |-> VwapSide(f, k), rsi |-> Smoothed(f)[k]]

LEMMA ReadUpended ==
  ASSUME NEW f \in Seq(Placed)
  PROVE  AreMirrors(Read(f), Read(Upended(f)))
<1>. DEFINE g == Upended(f)
            n == Len(f)
            a == Read(f)
            b == Read(g)
<1>1. n \in Nat /\ Len(g) = n /\ Bars(f) = 1..n /\ Bars(g) = 1..n
  BY UpendedIs DEF Bars
<1>. HIDE DEF g, n
<1>2. a = [k \in 1..n |-> ReadAt(f, k)]
  BY <1>1 DEF Read, ReadAt
<1>3. b = [k \in 1..n |-> ReadAt(g, k)]
  BY <1>1 DEF Read, ReadAt
<1>4. AreBars(a)
  BY ReadIs
<1>. HIDE DEF a, b
<1>5. ASSUME NEW k \in 1..n PROVE IsMirror(a[k], b[k])
  <2>. DEFINE x == a[k]
              y == b[k]
              bar == f[k]
              other == g[k]
              v == VwapSide(f, k)
              w == VwapSide(g, k)
              r == Smoothed(f)[k]
              q == Smoothed(g)[k]
  <2>1. /\ x.day = bar.day /\ x.open = bar.open /\ x.high = bar.high /\ x.low = bar.low /\ x.close = bar.close
        /\ x.ema = bar.ema /\ x.slow = bar.slow /\ x.macd = bar.macd /\ x.vwap = v /\ x.rsi = r
    <3>1. a[k] = ReadAt(f, k)
      BY <1>2
    <3>. HIDE DEF x
    <3>2. x = ReadAt(f, k)
      BY <3>1 DEF x
    <3>. QED BY <3>2 DEF ReadAt
  <2>2. /\ y.day = other.day /\ y.open = other.open /\ y.high = other.high /\ y.low = other.low /\ y.close = other.close
        /\ y.ema = other.ema /\ y.slow = other.slow /\ y.macd = other.macd /\ y.vwap = w /\ y.rsi = q
    <3>1. b[k] = ReadAt(g, k)
      BY <1>3
    <3>. HIDE DEF y
    <3>2. y = ReadAt(g, k)
      BY <3>1 DEF y
    <3>. QED BY <3>2 DEF ReadAt
  <2>3. k \in 1..Len(f)
    BY DEF n
  <2>4. bar \in Placed
    BY <2>3, UpendedIs
  <2>5. /\ bar.open \in Int /\ bar.high \in Int /\ bar.low \in Int /\ bar.close \in Int
        /\ bar.low <= bar.open /\ bar.open <= bar.high /\ bar.low <= bar.close /\ bar.close <= bar.high
    BY <2>4, PlacedIs
  <2>6. bar.ema \subseteq Sides /\ bar.slow \subseteq Sides /\ bar.macd \subseteq Sides
    BY <2>4, PlacedSides
  <2>7. /\ other.day = bar.day /\ other.open = Turned(bar.open) /\ other.close = Turned(bar.close)
        /\ other.high = Turned(bar.low) /\ other.low = Turned(bar.high)
        /\ other.ema = {Flip(s) : s \in bar.ema} /\ other.slow = {Flip(s) : s \in bar.slow}
        /\ other.macd = {Flip(s) : s \in bar.macd}
    BY <2>3, UpendedBar DEF g
  <2>8. w = -v /\ v \in {-1, 0, 1}
    BY <2>3, VwapTurns, VwapIs DEF g
  <2>9. r.gain \in Int /\ r.loss \in Int /\ q.gain = r.loss /\ q.loss = r.gain
    BY <2>3, RsiSwaps DEF g, Swapped
  <2>. HIDE DEF x, y, bar, other, v, w, r, q
  <2>10. IsBar(x)
    BY <2>1, <2>5 DEF IsBar
  <2>11. IsBar(y)
    <3>1. Ceiling \in Int
      BY IntradayAssumption
    <3>2. y.open = Turned(bar.open) /\ y.close = Turned(bar.close) /\ y.high = Turned(bar.low) /\ y.low = Turned(bar.high)
      BY <2>2, <2>7
    <3>3. y.open = Ceiling - bar.open /\ y.close = Ceiling - bar.close /\ y.high = Ceiling - bar.low /\ y.low = Ceiling - bar.high
      BY <3>2 DEF Turned
    <3>4. /\ y.open \in Int /\ y.high \in Int /\ y.low \in Int /\ y.close \in Int
          /\ y.low <= y.open /\ y.open <= y.high /\ y.low <= y.close /\ y.close <= y.high
      <4>1. /\ y.open \in Int /\ y.high \in Int /\ y.low \in Int /\ y.close \in Int
        BY <2>5, <3>1, <3>3, SMTT(30)
      <4>2. y.low <= y.open /\ y.open <= y.high
        BY <2>5, <3>1, <3>3
      <4>3. y.low <= y.close /\ y.close <= y.high
        BY <2>5, <3>1, <3>3
      <4>. QED BY <4>1, <4>2, <4>3
    <3>. QED BY <3>4 DEF IsBar
  <2>12. /\ y.day = x.day /\ y.open = Turned(x.open) /\ y.close = Turned(x.close)
         /\ y.high = Turned(x.low) /\ y.low = Turned(x.high)
    BY <2>1, <2>2, <2>7
  <2>13. ASSUME NEW side \in Sides
         PROVE  /\ Flip(side) \in y.ema <=> side \in x.ema
                /\ Flip(side) \in y.slow <=> side \in x.slow
                /\ Flip(side) \in y.macd <=> side \in x.macd
    <3>1. Flip(side) \in {Flip(s) : s \in bar.ema} <=> side \in bar.ema
      BY <2>6, SidesFlip
    <3>2. Flip(side) \in {Flip(s) : s \in bar.slow} <=> side \in bar.slow
      BY <2>6, SidesFlip
    <3>3. Flip(side) \in {Flip(s) : s \in bar.macd} <=> side \in bar.macd
      BY <2>6, SidesFlip
    <3>. QED BY <2>1, <2>2, <2>7, <3>1, <3>2, <3>3
  <2>14. (y.vwap = 1 <=> x.vwap = -1) /\ (y.vwap = -1 <=> x.vwap = 1)
    BY <2>1, <2>2, <2>8
  <2>15. x.rsi.gain \in Int /\ x.rsi.loss \in Int /\ y.rsi.gain = x.rsi.loss /\ y.rsi.loss = x.rsi.gain
    BY <2>1, <2>2, <2>9
  <2>16. IsMirror(x, y)
    BY <2>10, <2>11, <2>12, <2>13, <2>14, <2>15 DEF IsMirror
  <2>. QED BY <2>16 DEF x, y
<1>6. Len(a) = n /\ Len(b) = n
  BY <1>1, <1>2, <1>3
<1>7. AreBars(b)
  <2>1. \A k \in 1..n : IsBar(b[k])
    BY <1>5 DEF IsMirror
  <2>2. b \in [1..n -> {b[k] : k \in 1..n}]
    BY <1>3
  <2>3. b \in Seq({b[k] : k \in 1..n})
    BY <1>1, <2>2
  <2>. QED BY <1>1, <1>6, <2>1, <2>3 DEF AreBars
<1>8. AreMirrors(a, b)
  BY <1>4, <1>5, <1>6, <1>7 DEF AreMirrors
<1>. QED BY <1>8 DEF a, b, g

-----------------------------------------------------------------------------
(* The signals upside down *)

SignalsOf(bars) == Breakout(bars) \cup Btst(bars) \cup Indicator(bars) \cup OneTradeDay(bars) \cup Mtf(bars)

LEMMA SignalsTurn ==
  ASSUME NEW a, NEW b, AreMirrors(a, b), NEW s \in SignalsOf(a)
  PROVE  TurnsIn(s, SignalsOf(b))
<1>1. CASE s \in Breakout(a)
  <2>1. TurnsIn(s, Breakout(b))
    BY <1>1, BreakoutTurns
  <2>. QED BY <2>1 DEF TurnsIn, SignalsOf
<1>2. CASE s \in Btst(a)
  <2>1. TurnsIn(s, Btst(b))
    BY <1>2, BtstTurns
  <2>. QED BY <2>1 DEF TurnsIn, SignalsOf
<1>3. CASE s \in Indicator(a)
  <2>1. TurnsIn(s, Indicator(b))
    BY <1>3, IndicatorTurns
  <2>. QED BY <2>1 DEF TurnsIn, SignalsOf
<1>4. CASE s \in OneTradeDay(a)
  <2>1. TurnsIn(s, OneTradeDay(b))
    BY <1>4, OneTradeTurns
  <2>. QED BY <2>1 DEF TurnsIn, SignalsOf
<1>5. CASE s \in Mtf(a)
  <2>1. TurnsIn(s, Mtf(b))
    BY <1>5, MtfTurns
  <2>. QED BY <2>1 DEF TurnsIn, SignalsOf
<1>. QED BY <1>1, <1>2, <1>3, <1>4, <1>5 DEF SignalsOf

LEMMA SidesMirrorHolds ==
  ASSUME intraday \in Seq(Placed)
  PROVE  SidesMirror
<1>. DEFINE a == Read(intraday)
            b == Read(Upended(intraday))
            S == Signals(intraday)
            T == Signals(Upended(intraday))
<1>1. AreMirrors(a, b) /\ AreMirrors(b, a)
  BY ReadUpended, MirrorsTurn
<1>2. S = SignalsOf(a) /\ T = SignalsOf(b)
  BY DEF Signals, SignalsOf
<1>. HIDE DEF a, b, S, T
<1>3. ASSUME NEW s \in S PROVE TurnedSignal(s) \in T
  <2>1. s \in SignalsOf(a)
    BY <1>2
  <2>2. TurnsIn(s, SignalsOf(b))
    BY <1>1, <2>1, SignalsTurn
  <2>. QED BY <1>2, <2>2 DEF TurnsIn
<1>4. ASSUME NEW t \in T PROVE \E s \in S : t = TurnedSignal(s)
  <2>1. t \in SignalsOf(b)
    BY <1>2
  <2>2. TurnsIn(t, SignalsOf(a))
    BY <1>1, <2>1, SignalsTurn
  <2>3. TurnedSignal(t) \in S /\ TurnedSignal(TurnedSignal(t)) = t
    BY <1>2, <2>2, SignalTurnsBack DEF TurnsIn
  <2>. HIDE DEF TurnedSignal
  <2>. QED BY <2>3
<1>5. T = {TurnedSignal(s) : s \in S}
  BY <1>3, <1>4
<1>. QED BY <1>5 DEF SidesMirror, Upended, S, T

-----------------------------------------------------------------------------
(* All figures *)

\* The journal, the book and the frames are made of what they are made of.
FiguresInv == journal \in Seq(Rows) /\ book \in Seq(BookEntries) /\ FramesInv

LEMMA FiguresKept == FiguresSpec => []FiguresInv
<1>1. FiguresInit => FiguresInv
  BY DEF FiguresInit, EvalInit, BookInit, FramesInit, SeenInit, FrameInit, FramesInv, FiguresInv, DaysRise, Bars
<1>2. FiguresInv /\ [FiguresNext]_figureVars => FiguresInv'
  <2>. SUFFICES ASSUME FiguresInv, [FiguresNext]_figureVars PROVE FiguresInv'
    OBVIOUS
  <2>1. FramesInv /\ [FramesNext]_frameVars => FramesInv'
    BY FramesStep
  <2>2. CASE Record /\ UNCHANGED <<book, frameVars>>
    <3>1. journal' \in Seq(Rows)
      BY <2>2 DEF Record, FiguresInv
    <3>2. FramesInv'
      BY <2>1, <2>2 DEF FiguresInv
    <3>. QED BY <2>2, <3>1, <3>2 DEF FiguresInv
  <2>3. CASE BookNext /\ UNCHANGED <<journal, frameVars>>
    <3>1. book' \in Seq(BookEntries)
      BY <2>3 DEF BookNext, FiguresInv
    <3>2. FramesInv'
      BY <2>1, <2>3 DEF FiguresInv
    <3>. QED BY <2>3, <3>1, <3>2 DEF FiguresInv
  <2>4. CASE FramesNext /\ UNCHANGED <<journal, book>>
    <3>1. FramesInv'
      BY <2>1, <2>4 DEF FiguresInv
    <3>. QED BY <2>4, <3>1 DEF FiguresInv
  <2>5. CASE UNCHANGED figureVars
    <3>1. UNCHANGED <<journal, book>> /\ UNCHANGED frameVars
      BY <2>5 DEF figureVars
    <3>2. FramesInv'
      BY <2>1, <3>1 DEF FiguresInv
    <3>. QED BY <3>1, <3>2 DEF FiguresInv
  <2>. QED BY <2>2, <2>3, <2>4, <2>5 DEF FiguresNext
<1>. QED BY <1>1, <1>2, PTL DEF FiguresSpec

\* Whatever trades, records and candles there are, in whatever order they were written
\* down: the summary of a journal does not depend on that order, loses no trade and counts
\* none twice, its drawdown is the worst and its streaks are those of the trades, and
\* nothing of it opens live trading (trade_evaluation.py:172-252,776,976,1302); the
\* metrics over a book keep the last word on a trade and never promise more than it
\* earned, and those of the workspace miss a first loss and are never ready
\* (performance_metrics.py:29, risk_metrics.py:25, utils.py:192, readiness.py:117,142);
\* a backtest loses by its costs alone, and the two sides of every strategy are each
\* other's image (breakout/service.py:197).
THEOREM FiguresAlwaysAddUp == FiguresSpec => []FiguresAddUp
<1>1. FiguresInv => FiguresAddUp
  <2>. SUFFICES ASSUME FiguresInv PROVE FiguresAddUp
    OBVIOUS
  <2>1. journal \in Seq(Rows) /\ book \in Seq(BookEntries) /\ intraday \in Seq(Placed) /\ seen \in Seq(SeenBars)
    BY DEF FiguresInv, FramesInv
  <2>2. OrderIrrelevant /\ DrawdownIsWorst /\ StreaksAgree /\ SegmentsPartition /\ TestedOnce
    BY <2>1, OrderHolds, DrawdownHolds, StreaksHold, SegmentsHold, TestedOnceHolds
  <2>3. DrawdownMissesFirstLoss /\ ExpectancyIsCautious /\ FormIsFinal
    BY <2>1, FirstLossHolds, ExpectancyHolds, FormHolds
  <2>4. Len(book) \in Nat /\ DOMAIN book = 1..Len(book)
    BY <2>1
  <2>5. WorkspaceRateNeverReached
    BY <2>4, WorkspaceRateMissed
  <2>6. LiveStaysShut /\ EngineNeverReady
    BY LiveShut, EngineFails
  <2>7. BacktestKnowsNoLoss
    BY <2>1, BacktestHolds
  <2>8. SidesMirror
    BY <2>1, SidesMirrorHolds
  <2>. QED BY <2>2, <2>3, <2>5, <2>6, <2>7, <2>8 DEF FiguresAddUp
<1>. QED BY <1>1, FiguresKept, PTL
=============================================================================
