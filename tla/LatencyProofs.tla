----------------------------- MODULE LatencyProofs -----------------------------
(* What Latency guarantees for any nodes, statements, buckets and calls.     *)
EXTENDS Latency, StatementsProofs

-----------------------------------------------------------------------------
(* Histograms of two documents.                                              *)

(* A document's histogram of a statement, over all nodes: every bucket is a  *)
(* column of its own.                                                        *)
Hist(doc, s) == [b \in 0..NB |-> Total(doc, s, b)]

(* What the merged histograms have of any statement, listed or not.          *)
LEMMA MergedHistograms ==
  ASSUME NEW doc, IsDoc(doc)
  PROVE  /\ DOMAIN mergeLatencyHistograms(doc) = MergedKeys(doc)
         /\ \A s \in Stmt:
              (IF s \in MergedKeys(doc) THEN mergeLatencyHistograms(doc)[s] ELSE NoHistogram)
                = [calls |-> Calls(doc, s), buckets |-> Hist(doc, s)]
<1>1. DOMAIN mergeLatencyHistograms(doc) = MergedKeys(doc)
  BY DEF mergeLatencyHistograms
<1>2. ASSUME NEW s \in Stmt, s \in MergedKeys(doc)
      PROVE  mergeLatencyHistograms(doc)[s] = [calls |-> Calls(doc, s), buckets |-> Hist(doc, s)]
  <2> DEFINE calls == SumFunction([n \in DOMAIN doc |-> RowOn(doc, n, s).calls])
             buckets == [b \in 0..NB |->
                           SumFunction([n \in DOMAIN doc |-> RowOn(doc, n, s).buckets[b]])]
  <2>1. mergeLatencyHistograms(doc)[s] = [calls |-> calls, buckets |-> buckets]
    BY <1>2 DEF mergeLatencyHistograms
  <2>2. calls = Calls(doc, s)
    <3>1. [n \in DOMAIN doc |-> RowOn(doc, n, s).calls]
            = [n \in DOMAIN doc |-> Column(RowOn(doc, n, s), CallsColumn)]
      BY ColumnsAre
    <3> QED BY <3>1, DocumentSum, ColumnsAre DEF Calls
  <2>3. ASSUME NEW b \in 0..NB
        PROVE  buckets[b] = Hist(doc, s)[b]
    <3>1. [n \in DOMAIN doc |-> RowOn(doc, n, s).buckets[b]]
            = [n \in DOMAIN doc |-> Column(RowOn(doc, n, s), b)]
      BY ColumnsAre
    <3>2. b \in Columns
      BY ColumnsAre
    <3> QED BY <3>1, <3>2, DocumentSum DEF Hist
  <2>4. buckets = Hist(doc, s)
    BY <2>3 DEF Hist
  <2> HIDE DEF calls, buckets
  <2> QED BY <2>1, <2>2, <2>4
<1>3. ASSUME NEW s \in Stmt, s \notin MergedKeys(doc)
      PROVE  NoHistogram = [calls |-> Calls(doc, s), buckets |-> Hist(doc, s)]
  <2>1. Calls(doc, s) = 0 /\ \A b \in 0..NB: Total(doc, s, b) = 0
    BY <1>3, TotalType, ColumnsAre DEF Calls
  <2> QED BY <2>1 DEF NoHistogram, Hist
<1> QED BY <1>1, <1>2, <1>3

(* A document's histogram adds up to its calls.                              *)
LEMMA HistSum ==
  ASSUME NEW doc, IsDoc(doc), NEW s \in Stmt
  PROVE  /\ \A b \in 0..NB: Hist(doc, s)[b] \in Nat
         /\ SumFunctionOnSet(Hist(doc, s), 0..NB) = Calls(doc, s)
<1> DEFINE B == 0..NB
           f == [n \in Node |-> RowOn(doc, n, s).buckets]
           t == [b \in B |-> On(doc, s, b)]
           r == On(doc, s, CallsColumn)
           c == Hist(doc, s)
<1>1. IsFiniteSet(Node) /\ IsFiniteSet(B)
  BY StatementsAssumption, ColumnsAre
<1>2. ASSUME NEW n \in Node
      PROVE  /\ \A b \in B: f[n][b] \in Nat /\ t[b][n] = f[n][b]
             /\ r[n] = SumFunctionOnSet(f[n], B)
  <2> DEFINE row == RowOn(doc, n, s)
  <2>1. row \in Row(MaxCount) /\ MaxCount \in Nat
    BY RowOnType
  <2>2. row.buckets \in [0..NB -> Nat] /\ SumFunctionOnSet(row.buckets, 0..NB) = row.calls
    <3> HIDE DEF row
    <3> QED BY <2>1, RowType
  <2>3. r[n] = row.calls /\ \A b \in B: t[b][n] = row.buckets[b]
    BY ColumnsAre DEF On
  <2> QED BY <2>2, <2>3
<1>3. \A b \in B: c[b] = SumFunctionOnSet(t[b], Node)
  BY DEF Hist, Total, On, SumFunction
<1>4. Calls(doc, s) = SumFunctionOnSet(r, Node)
  BY DEF Calls, Total, On, SumFunction
<1> HIDE DEF f, t, r, c, B
<1>5. Transposed(t, f, Node, B) /\ RowSums(r, f, Node, B) /\ RowSums(c, t, B, Node)
  BY <1>2, <1>3 DEF Transposed, RowSums
<1>6. SumFunctionOnSet(r, Node) = SumFunctionOnSet(c, B)
  BY <1>1, <1>5, SumSwap
<1>7. \A b \in B: c[b] \in Nat
  BY <1>1, <1>2, <1>3, SumIsNat
<1> QED BY <1>4, <1>6, <1>7 DEF B, c

(* The greater of a number and zero.                                         *)
LEMMA PositiveOf == \A x \in Int: Positive(x) = IF x > 0 THEN x ELSE 0
<1> SUFFICES ASSUME NEW x \in Int PROVE Positive(x) = IF x > 0 THEN x ELSE 0
  OBVIOUS
<1> DEFINE g == Greatest({x, 0})
<1>1. \E y \in {x, 0}: \A z \in {x, 0}: y >= z
  OBVIOUS
<1>2. g \in {x, 0} /\ \A z \in {x, 0}: g >= z
  BY <1>1 DEF Greatest
<1> HIDE DEF g
<1>3. g = IF x > 0 THEN x ELSE 0
  BY <1>2
<1> QED BY <1>3 DEF g, Positive

(* What each bucket of a statement gained between the documents, a loss      *)
(* being none.                                                               *)
GainedIn(s, b) == Total(newer, s, b) - Total(older, s, b)
GainedBuckets(s) == [b \in 0..NB |-> Positive(GainedIn(s, b))]

(* The histogram that the tab has of a statement, or an empty one: what the  *)
(* buckets gained, at least as many calls as the statement gained.           *)
LEMMA HistogramShown ==
  ASSUME TypeOK, NEW s \in Stmt
  PROVE  LET rows == deltaLatencyHistograms(mergeLatencyHistograms(newer),
                                            mergeLatencyHistograms(older))
             shown == IF s \in DOMAIN rows THEN rows[s] ELSE NoHistogram
         IN /\ \A b \in 0..NB: /\ GainedIn(s, b) \in Int
                               /\ GainedBuckets(s)[b] \in Nat /\ GainedBuckets(s)[b] >= GainedIn(s, b)
            /\ SumFunctionOnSet(GainedBuckets(s), 0..NB) >= Gained(s)
            /\ shown.buckets = GainedBuckets(s)
            /\ s \in DOMAIN rows =>
                 /\ rows[s] = [calls |-> Positive(Gained(s)), buckets |-> GainedBuckets(s)]
                 /\ CallsOf(GainedBuckets(s)) > 0
            /\ s \notin DOMAIN rows => shown = NoHistogram
<1> DEFINE cur == mergeLatencyHistograms(newer)
           prev == mergeLatencyHistograms(older)
           rows == deltaLatencyHistograms(cur, prev)
           before == IF s \in DOMAIN prev THEN prev[s] ELSE NoHistogram
           gained == [b \in 0..NB |-> Positive(cur[s].buckets[b] - before.buckets[b])]
           f == Hist(newer, s)
           g == Hist(older, s)
           B == 0..NB
           d == [b \in B |-> GainedIn(s, b)]
           p == GainedBuckets(s)
<1>1. IsDoc(newer) /\ IsDoc(older) /\ IsFiniteSet(B)
  BY ColumnsAre DEF TypeOK
<1>2. /\ s \in DOMAIN rows <=> s \in MergedKeys(newer) /\ CallsOf(gained) > 0
      /\ s \in DOMAIN rows =>
           rows[s] = [calls |-> Positive(cur[s].calls - before.calls), buckets |-> gained]
  <2>1. DOMAIN cur = MergedKeys(newer)
    BY <1>1, MergedHistograms
  <2> HIDE DEF cur, prev
  <2> QED BY <2>1 DEF deltaLatencyHistograms
<1>3. before = [calls |-> Calls(older, s), buckets |-> g]
  BY <1>1, MergedHistograms
<1>4. s \in MergedKeys(newer) => cur[s] = [calls |-> Calls(newer, s), buckets |-> f]
  BY <1>1, MergedHistograms
<1>5. ASSUME NEW b \in B
      PROVE  /\ f[b] \in Int /\ g[b] \in Int /\ d[b] = f[b] - g[b] /\ d[b] \in Int
             /\ d[b] = GainedIn(s, b) /\ p[b] = Positive(d[b]) /\ p[b] \in Nat /\ p[b] >= d[b]
             /\ s \notin MergedKeys(newer) => p[b] = 0
  <2>1. f[b] \in Nat /\ g[b] \in Nat
    BY <1>1, HistSum
  <2>2. /\ f[b] = Total(newer, s, b) /\ g[b] = Total(older, s, b)
        /\ d[b] = f[b] - g[b] /\ d[b] = GainedIn(s, b) /\ p[b] = Positive(d[b])
    BY DEF Hist, GainedIn, GainedBuckets
  <2>3. s \notin MergedKeys(newer) => f[b] = 0
    BY <1>1, <2>2, TotalType, ColumnsAre
  <2> HIDE DEF f, g, d, p
  <2> QED BY <2>1, <2>2, <2>3, PositiveOf
<1>6. SumFunctionOnSet(f, B) = Calls(newer, s) /\ SumFunctionOnSet(g, B) = Calls(older, s)
  BY <1>1, HistSum
<1>7. p = [b \in B |-> p[b]] /\ CallsOf(p) = SumFunctionOnSet(p, B)
  BY DEF GainedBuckets, CallsOf, SumFunction
<1>8. s \in MergedKeys(newer) => gained = p
  <2> SUFFICES ASSUME s \in MergedKeys(newer) PROVE gained = p
    OBVIOUS
  <2>1. ASSUME NEW b \in B
        PROVE  Positive(cur[s].buckets[b] - before.buckets[b]) = p[b]
    <3>1. cur[s].buckets[b] - before.buckets[b] = f[b] - g[b]
      BY <1>3, <1>4
    <3> HIDE DEF cur, before, f, g, d, p
    <3> QED BY <1>5, <3>1
  <2> QED BY <1>7, <2>1
<1> HIDE DEF rows, gained, before, cur, prev, f, g, d, p, B
<1>9. SumFunctionOnSet(d, B) = SumFunctionOnSet(f, B) - SumFunctionOnSet(g, B)
  BY <1>1, <1>5, SumMinus
<1>10. SumFunctionOnSet(d, B) <= SumFunctionOnSet(p, B) /\ SumFunctionOnSet(p, B) \in Nat
  BY <1>1, <1>5, SumMonotone, SumIsNat
<1>11. SumFunctionOnSet(p, B) >= Gained(s)
  BY <1>6, <1>9, <1>10 DEF Gained
<1>12. ASSUME s \in DOMAIN rows
       PROVE  rows[s] = [calls |-> Positive(Gained(s)), buckets |-> p] /\ CallsOf(p) > 0
  <2>1. s \in MergedKeys(newer) /\ gained = p
    BY <1>2, <1>8, <1>12
  <2> QED BY <1>2, <1>3, <1>4, <1>12, <2>1 DEF Gained
<1>13. ASSUME s \notin DOMAIN rows
       PROVE  NoHistogram.buckets = p
  <2>1. CASE s \notin MergedKeys(newer)
    <3>1. \A b \in B: p[b] = 0
      BY <1>5, <2>1
    <3> QED BY <1>7, <3>1 DEF NoHistogram, B
  <2>2. CASE s \in MergedKeys(newer)
    <3>1. SumFunctionOnSet(p, B) = 0
      BY <1>2, <1>7, <1>8, <1>10, <1>13, <2>2
    <3>2. \A b \in B: p[b] <= SumFunctionOnSet(p, B)
      BY <1>1, <1>5, SumIsNat
    <3>3. \A b \in B: p[b] = 0
      BY <1>5, <3>1, <3>2
    <3> QED BY <1>7, <3>3 DEF NoHistogram, B
  <2> QED BY <2>1, <2>2
<1> QED BY <1>5, <1>11, <1>12, <1>13 DEF rows, cur, prev, p, B

(* Bucket by bucket, what a statement gained is what was executed, or less   *)
(* after a loss.                                                             *)
LEMMA DeltaHistogramInvariant == IInv => DeltaHistogramIsTruth
<1> DEFINE rows == deltaLatencyHistograms(mergeLatencyHistograms(newer),
                                          mergeLatencyHistograms(older))
           shown(s) == IF s \in DOMAIN rows THEN rows[s] ELSE NoHistogram
<1> SUFFICES ASSUME IInv
             PROVE  /\ \A s \in Stmt \ blurred:
                         shown(s) = [calls |-> window[s].calls, buckets |-> window[s].buckets]
                    /\ \A s \in Stmt \ unlisted, b \in 0..NB:
                         shown(s).buckets[b] \in 0..window[s].buckets[b]
                    /\ \A s \in DOMAIN Merged: CallsOf(shown(s).buckets) >= CallsIn(Rows, s)
  BY DEF DeltaHistogramIsTruth
<1>0. TypeOK
  BY DEF IInv
<1>1. ASSUME NEW s \in Stmt
      PROVE  /\ \A b \in 0..NB: /\ GainedIn(s, b) \in Int
                                /\ GainedBuckets(s)[b] \in Nat
                                /\ GainedBuckets(s)[b] = IF GainedIn(s, b) > 0 THEN GainedIn(s, b) ELSE 0
             /\ SumFunctionOnSet(GainedBuckets(s), 0..NB) >= Gained(s)
             /\ shown(s).buckets = GainedBuckets(s)
             /\ s \in DOMAIN rows =>
                  /\ rows[s] = [calls |-> Positive(Gained(s)), buckets |-> GainedBuckets(s)]
                  /\ CallsOf(GainedBuckets(s)) > 0
             /\ s \notin DOMAIN rows => shown(s) = NoHistogram
             /\ GainedBuckets(s) = [b \in 0..NB |-> GainedBuckets(s)[b]]
             /\ CallsOf(GainedBuckets(s)) = SumFunctionOnSet(GainedBuckets(s), 0..NB)
  BY <1>0, HistogramShown, PositiveOf DEF GainedBuckets, CallsOf, SumFunction
<1> HIDE DEF rows
<1>2. ASSUME NEW s \in Stmt
      PROVE  /\ window[s].buckets = [b \in 0..NB |-> window[s].buckets[b]]
             /\ SumFunctionOnSet(window[s].buckets, 0..NB) = window[s].calls
             /\ \A b \in 0..NB: window[s].buckets[b] \in Nat
  <2>1. window[s] \in Row(MaxCalls) /\ MaxCalls \in Nat
    BY <1>0, BoundsType DEF TypeOK
  <2>2. window[s].buckets \in [0..NB -> Nat] /\ SumFunctionOnSet(window[s].buckets, 0..NB) = window[s].calls
    BY <2>1, RowType
  <2> QED BY <2>2
<1>3. ASSUME NEW s \in Stmt \ unlisted, NEW b \in 0..NB
      PROVE  /\ GainedBuckets(s)[b] \in 0..window[s].buckets[b]
             /\ s \notin lossy => GainedBuckets(s)[b] = window[s].buckets[b]
  <2>1. /\ Total(newer, s, b) <= Total(older, s, b) + window[s].buckets[b]
        /\ s \notin lossy => Total(newer, s, b) = Total(older, s, b) + window[s].buckets[b]
    BY ColumnsAre DEF IInv, RanBetweenDocuments
  <2>2. Total(newer, s, b) \in Nat /\ Total(older, s, b) \in Nat
    BY <1>0, TotalType, ColumnsAre DEF TypeOK
  <2>3. GainedIn(s, b) = Total(newer, s, b) - Total(older, s, b)
    BY DEF GainedIn
  <2>4. GainedBuckets(s)[b] = IF GainedIn(s, b) > 0 THEN GainedIn(s, b) ELSE 0
    BY <1>1
  <2>5. window[s].buckets[b] \in Nat
    BY <1>2
  <2> DEFINE w == window[s].buckets[b]
             p == GainedBuckets(s)[b]
  <2> HIDE DEF w, p
  <2>6. /\ p \in 0..w
        /\ s \notin lossy => p = w
    BY <2>1, <2>2, <2>3, <2>4, <2>5 DEF w, p
  <2> QED BY <2>6 DEF w, p
<1>4. ASSUME NEW s \in Stmt \ blurred
      PROVE  shown(s) = [calls |-> window[s].calls, buckets |-> window[s].buckets]
  <2>1. s \in Stmt \ unlisted /\ s \notin lossy
    BY DEF blurred
  <2>2. GainedBuckets(s) = window[s].buckets
    BY <1>1, <1>2, <1>3, <2>1
  <2>3. Gained(s) = window[s].calls /\ window[s].calls \in Nat
    BY <2>1, GainedIsRan
  <2>4. CASE s \in DOMAIN rows
    <3>1. rows[s] = [calls |-> Positive(Gained(s)), buckets |-> GainedBuckets(s)]
      BY <1>1, <2>4
    <3>2. Positive(window[s].calls) = window[s].calls
      BY <2>3, PositiveOf
    <3> QED BY <2>2, <2>3, <2>4, <3>1, <3>2
  <2>5. CASE s \notin DOMAIN rows
    <3>1. shown(s) = NoHistogram /\ NoHistogram.buckets = window[s].buckets
      BY <1>1, <2>2, <2>5
    <3>2. \A b \in 0..NB: window[s].buckets[b] = 0
      <4>1. \A b \in 0..NB: NoHistogram.buckets[b] = 0
        BY DEF NoHistogram
      <4> QED BY <3>1, <4>1
    <3>3. window[s].calls = 0
      <4> DEFINE h == window[s].buckets
      <4>1. SumFunctionOnSet(h, 0..NB) = window[s].calls /\ \A b \in 0..NB: h[b] = 0
        BY <1>2, <3>2
      <4> HIDE DEF h
      <4> QED BY <4>1, ColumnsAre, SumZero
    <3> QED BY <3>1, <3>3 DEF NoHistogram
  <2> QED BY <2>4, <2>5
<1>5. ASSUME NEW s \in DOMAIN Merged
      PROVE  CallsOf(shown(s).buckets) >= CallsIn(Rows, s)
  <2>1. s \in Stmt /\ CallsIn(Rows, s) = Gained(s)
    BY <1>0, RowsTable
  <2> QED BY <1>1, <2>1
<1> QED BY <1>1, <1>3, <1>4, <1>5

(* DeltaHistogramIsTruth: in every state, the histogram of the Latency modes *)
(* tab, merged and subtracted bucket by bucket (app.js:3747-3825), is that   *)
(* of the calls executed between two documents that have all the rows of the *)
(* statement, if no node forgot it; after a reset no bucket has more than    *)
(* that; and never are there fewer calls in it than in the statement's row.  *)
THEOREM HistogramsAreTruth == Spec => []DeltaHistogramIsTruth
BY IInvHolds, DeltaHistogramInvariant, PTL

-----------------------------------------------------------------------------
(* Sorting                                                                   *)

(* before says of any two elements of S which is first.                      *)
Orders(before, S) ==
  /\ \A x \in S: <<x, x>> \notin before
  /\ \A x, y \in S: x # y => <<x, y>> \in before \/ <<y, x>> \in before
  /\ \A x, y, z \in S: <<x, y>> \in before /\ <<y, z>> \in before => <<x, z>> \in before

(* o lists S in that order, each element in the place that the number of     *)
(* those before it says.                                                     *)
Sorts(o, S, before) ==
  LET n == Cardinality(S)
  IN /\ n \in Nat /\ o \in [1..n -> S]
     /\ \A x \in S: \E k \in 1..n: o[k] = x
     /\ \A j, k \in 1..n: /\ o[j] = o[k] => j = k
                          /\ j < k <=> <<o[j], o[k]>> \in before
     /\ \A k \in 1..n: Cardinality({y \in S: <<y, o[k]>> \in before}) = k - 1

LEMMA InOrderSorts ==
  ASSUME NEW S, IsFiniteSet(S), NEW before, Orders(before, S)
  PROVE  Sorts(InOrder(S, before), S, before)
<1> DEFINE n == Cardinality(S)
           Ahead(x) == {y \in S: <<y, x>> \in before}
           place == [x \in S |-> Cardinality(Ahead(x)) + 1]
           Nth(k) == CHOOSE x \in S: Cardinality(Ahead(x)) = k - 1
           o == InOrder(S, before)
<1>1. n \in Nat
  BY FS_CardinalityType
<1>2. ASSUME NEW x \in S
      PROVE  IsFiniteSet(Ahead(x)) /\ Cardinality(Ahead(x)) \in 0..(n - 1)
  <2>1. Ahead(x) \in SUBSET (S \ {x})
    BY DEF Orders
  <2>2. IsFiniteSet(S \ {x}) /\ Cardinality(S \ {x}) = n - 1
    BY FS_RemoveElement
  <2> HIDE DEF Ahead, n
  <2>3. IsFiniteSet(Ahead(x)) /\ Cardinality(Ahead(x)) <= n - 1
    BY <2>1, <2>2, FS_Subset
  <2> QED BY <1>1, <2>3, FS_CardinalityType
<1>3. ASSUME NEW x \in S, NEW y \in S, <<x, y>> \in before
      PROVE  place[x] < place[y]
  <2>1. Ahead(x) \in SUBSET Ahead(y)
    BY <1>3 DEF Orders
  <2>2. x \in Ahead(y) /\ x \notin Ahead(x)
    BY <1>3 DEF Orders
  <2> HIDE DEF Ahead
  <2>3. Cardinality(Ahead(x)) <= Cardinality(Ahead(y)) /\ Cardinality(Ahead(x)) # Cardinality(Ahead(y))
    BY <1>2, <2>1, <2>2, FS_Subset
  <2> QED BY <1>1, <1>2, <2>3
<1>4. \A x \in S: place[x] \in 1..n /\ Cardinality(Ahead(x)) = place[x] - 1
  <2> HIDE DEF Ahead, n
  <2> QED BY <1>1, <1>2
<1>5. \A x, y \in S: place[x] = place[y] => x = y
  <2> HIDE DEF place, Ahead, n
  <2>1. SUFFICES ASSUME NEW x \in S, NEW y \in S, x # y PROVE place[x] # place[y]
    OBVIOUS
  <2>2. place[x] \in 1..n /\ place[y] \in 1..n
    BY <1>4
  <2>3. place[x] < place[y] \/ place[y] < place[x]
    BY <1>3, <2>1 DEF Orders
  <2> QED BY <1>1, <2>2, <2>3
<1>6. \A k \in 1..n: \E x \in S: place[x] = k
  <2>1. place \in Injection(S, 1..n)
    BY <1>4, <1>5 DEF Injection, IsInjective
  <2>2. IsFiniteSet(1..n) /\ Cardinality(1..n) = n
    BY <1>1, FS_Interval
  <2> HIDE DEF place
  <2>3. place \in Surjection(S, 1..n)
    BY <2>1, <2>2, FS_Injection
  <2> QED BY <2>3 DEF Surjection
<1>7. o = [k \in 1..n |-> Nth(k)]
  BY DEF InOrder
<1> HIDE DEF Ahead, n, o
<1>8. \A k \in 1..n: o[k] \in S /\ Cardinality(Ahead(o[k])) = k - 1
  <2> SUFFICES ASSUME NEW k \in 1..n PROVE o[k] \in S /\ Cardinality(Ahead(o[k])) = k - 1
    OBVIOUS
  <2>1. \E x \in S: Cardinality(Ahead(x)) = k - 1
    BY <1>1, <1>4, <1>6
  <2>2. Nth(k) \in S /\ Cardinality(Ahead(Nth(k))) = k - 1
    BY <2>1
  <2> HIDE DEF Nth
  <2> QED BY <1>7, <2>2
<1> HIDE DEF place
<1>9. \A k \in 1..n: place[o[k]] = k
  BY <1>1, <1>4, <1>8
<1>10. o \in [1..n -> S]
  <2> HIDE DEF Nth
  <2> QED BY <1>7, <1>8
<1>11. \A x \in S: \E k \in 1..n: o[k] = x
  BY <1>4, <1>5, <1>8, <1>9
<1>12. \A j, k \in 1..n: o[j] = o[k] => j = k
  BY <1>9
<1>13. ASSUME NEW j \in 1..n, NEW k \in 1..n
       PROVE  j < k <=> <<o[j], o[k]>> \in before
  <2>1. place[o[j]] = j /\ place[o[k]] = k /\ o[j] \in S /\ o[k] \in S
    BY <1>8, <1>9
  <2>2. <<o[j], o[k]>> \in before => j < k
    BY <1>3, <2>1
  <2>3. <<o[k], o[j]>> \in before => k < j
    BY <1>3, <2>1
  <2>4. o[j] # o[k] => <<o[j], o[k]>> \in before \/ <<o[k], o[j]>> \in before
    BY <2>1 DEF Orders
  <2> QED BY <1>1, <2>1, <2>2, <2>3, <2>4
<1> QED BY <1>1, <1>8, <1>10, <1>11, <1>12, <1>13 DEF Sorts, n, Ahead, o

-----------------------------------------------------------------------------
(* Modes                                                                     *)

(* The least of some numbers is one of them.                                 *)
LEMMA LeastOf ==
  ASSUME NEW S, S \subseteq Nat, S # {}
  PROVE  Least(S) \in S /\ \A x \in S: Least(S) <= x
BY LeastNumber DEF Least

IsHistogram(h) == h \in [0..NB -> Nat]
Filled(h) == {b \in 1..NB: h[b] > 0}

(* The rows are the finite buckets that have calls, fastest first.           *)
LEMMA RowsSorted ==
  ASSUME NEW h, IsHistogram(h)
  PROVE  LET rows == parseHistogramBuckets(h)
             n == Cardinality(Filled(h))
         IN /\ n \in Nat /\ rows \in [1..n -> 1..NB]
            /\ \A i \in 1..n: h[rows[i]] \in Nat /\ h[rows[i]] > 0
            /\ \A i, j \in 1..n: i < j <=> rows[i] < rows[j]
<1> DEFINE S == Filled(h)
           rows == parseHistogramBuckets(h)
           n == Cardinality(S)
<1>1. NB \in Nat
  BY StatementsAssumption
<1>2. S \in SUBSET (1..NB) /\ IsFiniteSet(S)
  <2>1. S \in SUBSET (1..NB)
    BY DEF Filled
  <2>2. IsFiniteSet(1..NB)
    BY <1>1, FS_Interval
  <2> HIDE DEF S
  <2> QED BY <2>1, <2>2, FS_Subset
<1>3. Orders(Faster, S)
  BY <1>1 DEF Filled, Orders, Faster
<1>4. rows = InOrder(S, Faster)
  BY DEF parseHistogramBuckets, Filled
<1>5. Sorts(rows, S, Faster)
  BY <1>2, <1>3, <1>4, InOrderSorts
<1>6. \A x, y \in S: <<x, y>> \in Faster <=> x < y
  BY <1>1, <1>2 DEF Faster
<1>7. \A x \in S: h[x] \in Nat /\ h[x] > 0
  BY <1>1 DEF Filled, IsHistogram
<1> HIDE DEF S, rows
<1>8. /\ n \in Nat /\ rows \in [1..n -> S]
      /\ \A i, j \in 1..n: i < j <=> <<rows[i], rows[j]>> \in Faster
  BY <1>5 DEF Sorts
<1> HIDE DEF n
<1>9. rows \in [1..n -> 1..NB] /\ \A i \in 1..n: rows[i] \in S
  BY <1>2, <1>8
<1> QED BY <1>6, <1>7, <1>8, <1>9 DEF n, rows, S

(* Between the two modes of a pair is a bucket that has calls and fewer than *)
(* either: a quarter less than the lower.                                    *)
LEMMA PairHasValley ==
  ASSUME NEW h, IsHistogram(h), NEW peaks,
         peaks \subseteq 1..Cardinality(Filled(h)),
         NEW pq \in ValidPairs(h, parseHistogramBuckets(h), peaks)
  PROVE  LET a == parseHistogramBuckets(h)[pq[1]]
             c == parseHistogramBuckets(h)[pq[2]]
         IN /\ a \in 1..NB /\ c \in 1..NB
            /\ \E b \in 1..NB: a < b /\ b < c /\ h[b] > 0 /\ h[b] < h[a] /\ h[b] < h[c]
<1> DEFINE rows == parseHistogramBuckets(h)
           n == Cardinality(Filled(h))
           p == pq[1]
           q == pq[2]
           smaller == Least({h[rows[p]], h[rows[q]]})
           between == {h[rows[i]]: i \in p..q}
           valley == Least(between)
<1>1. /\ n \in Nat /\ rows \in [1..n -> 1..NB]
      /\ \A i \in 1..n: h[rows[i]] \in Nat /\ h[rows[i]] > 0
      /\ \A i, j \in 1..n: i < j <=> rows[i] < rows[j]
  BY RowsSorted
<1>2. p \in 1..n /\ q \in 1..n /\ p < q /\ 4 * valley <= 3 * smaller
  <2> HIDE DEF n, rows
  <2> DEFINE Valid(xy) ==
        /\ xy[1] < xy[2] /\ \A r \in peaks: ~(xy[1] < r /\ r < xy[2])
        /\ Mid[rows[xy[2]]] - Mid[rows[xy[1]]] >= MinSeparation
        /\ 4 * Least({h[rows[i]]: i \in xy[1]..xy[2]}) <= 3 * Least({h[rows[xy[1]]], h[rows[xy[2]]]})
  <2>1. ValidPairs(h, rows, peaks) = {xy \in peaks \X peaks: Valid(xy)}
    BY Zenon DEF ValidPairs
  <2>2. pq \in ValidPairs(h, rows, peaks)
    BY DEF rows
  <2> HIDE DEF Valid
  <2>3. pq \in peaks \X peaks /\ Valid(pq)
    BY <2>1, <2>2
  <2>4. pq[1] < pq[2] /\ 4 * valley <= 3 * smaller
    BY <2>3, Zenon DEF Valid
  <2>5. p \in peaks /\ q \in peaks
    BY <2>3
  <2> QED BY <2>4, <2>5 DEF n
<1> HIDE DEF n, rows, p, q
<1>3. smaller \in Nat /\ smaller <= h[rows[p]] /\ smaller <= h[rows[q]]
  <2> DEFINE S == {h[rows[p]], h[rows[q]]}
  <2>1. S \subseteq Nat /\ S # {}
    BY <1>1, <1>2
  <2>2. h[rows[p]] \in S /\ h[rows[q]] \in S
    OBVIOUS
  <2> HIDE DEF S
  <2>3. Least(S) \in S /\ \A x \in S: Least(S) <= x
    BY <2>1, LeastOf
  <2> QED BY <2>1, <2>2, <2>3 DEF S
<1>4. PICK i \in p..q: valley = h[rows[i]]
  <2>1. p..q \subseteq 1..n
    BY <1>1, <1>2
  <2>2. \A i \in p..q: h[rows[i]] \in Nat
    BY <1>1, <2>1
  <2>3. p \in p..q
    BY <1>1, <1>2
  <2>4. between \subseteq Nat /\ between # {}
    BY <2>2, <2>3
  <2> HIDE DEF between
  <2>5. valley \in between
    BY <2>4, LeastOf
  <2> QED BY <2>5 DEF between
<1> HIDE DEF smaller, valley
<1>5. i \in 1..n
  BY <1>1, <1>2
<1>6. valley \in Nat /\ valley > 0
  BY <1>1, <1>4, <1>5
<1>7. valley < smaller
  BY <1>2, <1>3, <1>6
<1>8. i # p /\ i # q
  BY <1>1, <1>2, <1>3, <1>4, <1>6, <1>7
<1>9. rows[p] < rows[i] /\ rows[i] < rows[q]
  BY <1>1, <1>2, <1>5, <1>8
<1>10. h[rows[i]] > 0 /\ h[rows[i]] < h[rows[p]] /\ h[rows[i]] < h[rows[q]]
  BY <1>1, <1>2, <1>3, <1>4, <1>5, <1>6, <1>7
<1>11. rows[p] \in 1..NB /\ rows[q] \in 1..NB /\ rows[i] \in 1..NB
  BY <1>1, <1>2, <1>5
<1> QED BY <1>9, <1>10, <1>11 DEF rows, p, q

(* Up to its top a hill only rises, and from there it only falls.            *)
LEMMA HillHasNoValley ==
  ASSUME NEW h, IsHistogram(h), Unimodal(h),
         NEW a \in 1..NB, NEW b \in 1..NB, NEW c \in 1..NB, a < b, b < c
  PROVE  h[a] <= h[b] \/ h[c] <= h[b]
<1>1. PICK top \in 1..NB:
        \A x \in 2..NB: IF x <= top THEN h[x - 1] <= h[x] ELSE h[x - 1] >= h[x]
  BY DEF Unimodal
<1>2. NB \in Nat /\ \A x \in 0..NB: h[x] \in Nat
  <2>1. NB \in Nat
    BY StatementsAssumption
  <2> QED BY <2>1 DEF IsHistogram
<1>3. CASE b <= top
  <2> DEFINE Good == {d \in Nat: d < b => h[b - d] <= h[b]}
  <2>1. 0 \in Good
    BY <1>2
  <2>2. ASSUME NEW d \in Nat, d \in Good
        PROVE  d + 1 \in Good
    <3> SUFFICES ASSUME d + 1 < b PROVE h[b - (d + 1)] <= h[b]
      OBVIOUS
    <3>1. b - d \in 2..NB /\ b - d <= top /\ b - (d + 1) = (b - d) - 1 /\ b - (d + 1) \in 1..NB
      BY <1>2, <1>3
    <3>2. h[b - d] <= h[b]
      BY <2>2
    <3>3. h[(b - d) - 1] <= h[b - d]
      BY <1>1, <3>1
    <3>4. h[(b - d) - 1] \in Nat /\ h[b - d] \in Nat /\ h[b] \in Nat
      BY <1>2, <3>1
    <3> QED BY <3>1, <3>2, <3>3, <3>4
  <2> HIDE DEF Good
  <2>3. Nat \subseteq Good
    BY <2>1, <2>2, NumberInduction
  <2>4. b - a \in Nat /\ b - a < b /\ b - (b - a) = a
    OBVIOUS
  <2>5. b - a \in Good
    BY <2>3, <2>4
  <2> QED BY <2>4, <2>5 DEF Good
<1>4. CASE ~(b <= top)
  <2> DEFINE Good == {d \in Nat: b + d <= NB => h[b + d] <= h[b]}
  <2>1. 0 \in Good
    BY <1>2
  <2>2. ASSUME NEW d \in Nat, d \in Good
        PROVE  d + 1 \in Good
    <3> SUFFICES ASSUME b + (d + 1) <= NB PROVE h[b + (d + 1)] <= h[b]
      OBVIOUS
    <3>1. b + d + 1 \in 2..NB /\ ~(b + d + 1 <= top) /\ (b + d + 1) - 1 = b + d /\ b + d \in 1..NB
      BY <1>2, <1>4
    <3>2. h[b + d] <= h[b]
      BY <1>2, <2>2, <3>1
    <3>3. h[b + d] >= h[b + d + 1]
      BY <1>1, <3>1
    <3>4. h[b + d + 1] \in Nat /\ h[b + d] \in Nat /\ h[b] \in Nat /\ b + d + 1 = b + (d + 1)
      BY <1>2, <3>1
    <3> QED BY <3>2, <3>3, <3>4
  <2> HIDE DEF Good
  <2>3. Nat \subseteq Good
    BY <2>1, <2>2, NumberInduction
  <2>4. c - b \in Nat /\ b + (c - b) = c /\ c <= NB
    BY <1>2
  <2>5. c - b \in Good
    BY <2>3, <2>4
  <2> QED BY <2>4, <2>5 DEF Good
<1> QED BY <1>3, <1>4

(* One step of Spaced: p is kept unless it is close to one kept before.      *)
KeepIfFar(K, p, distance) ==
  IF \E q \in K: Abs(p - q) < distance THEN K ELSE K \cup {p}

(* kept is the table of the first m steps.                                   *)
SpacesOut(kept, c, distance, m) ==
  \A k \in 0..m: kept[k] = IF k = 0 THEN {} ELSE KeepIfFar(kept[k - 1], c[k], distance)

(* Spaced is the last entry of such a table.                                 *)
LEMMA SpacedTable ==
  ASSUME NEW c, Len(c) \in Nat, NEW distance
  PROVE  \E kept: SpacesOut(kept, c, distance, Len(c)) /\ Spaced(c, distance) = kept[Len(c)]
<1> DEFINE n == Len(c)
           KeptAt(f, k) == IF k = 0 THEN {} ELSE KeepIfFar(f[k - 1], c[k], distance)
           Table(f) == f = [k \in 0..n |-> KeptAt(f, k)]
           Good == {m \in Nat: \E kept: SpacesOut(kept, c, distance, m)}
<1>1. Spaced(c, distance) = (CHOOSE f: Table(f))[n]
  BY DEF Spaced, KeepIfFar
<1>2. 0 \in Good
  <2>1. SpacesOut([k \in {0} |-> {}], c, distance, 0)
    BY DEF SpacesOut
  <2> QED BY <2>1
<1>3. ASSUME NEW m \in Nat, m \in Good
      PROVE  m + 1 \in Good
  <2>1. PICK g: SpacesOut(g, c, distance, m)
    BY <1>3
  <2> DEFINE h == [k \in 0..(m + 1) |-> KeptAt(g, k)]
  <2>2. \A k \in 0..m: h[k] = g[k]
    <3> SUFFICES ASSUME NEW k \in 0..m PROVE h[k] = g[k]
      OBVIOUS
    <3>1. k \in 0..(m + 1)
      OBVIOUS
    <3> QED BY <2>1, <3>1 DEF SpacesOut
  <2>3. ASSUME NEW k \in 0..(m + 1)
        PROVE  h[k] = KeptAt(h, k)
    <3>1. k # 0 => k - 1 \in 0..m
      OBVIOUS
    <3>2. k # 0 => h[k - 1] = g[k - 1]
      BY <2>2, <3>1
    <3>3. h[k] = KeptAt(g, k)
      OBVIOUS
    <3> HIDE DEF h
    <3> QED BY <3>2, <3>3
  <2>4. SpacesOut(h, c, distance, m + 1)
    <3> HIDE DEF h
    <3> QED BY <2>3 DEF SpacesOut
  <2> QED BY <2>4
<1> HIDE DEF Good
<1>4. n \in Good
  BY <1>2, <1>3, NumberInduction
<1>5. PICK g: SpacesOut(g, c, distance, n)
  BY <1>4 DEF Good
<1>6. \E f: Table(f)
  <2> DEFINE f == [k \in 0..n |-> g[k]]
  <2>1. ASSUME NEW k \in 0..n
        PROVE  f[k] = KeptAt(f, k)
    <3>1. k # 0 => k - 1 \in 0..n
      OBVIOUS
    <3>2. k # 0 => f[k - 1] = g[k - 1]
      BY <3>1
    <3>3. f[k] = KeptAt(g, k)
      BY <1>5 DEF SpacesOut
    <3> HIDE DEF f
    <3> QED BY <3>2, <3>3
  <2>2. f = [k \in 0..n |-> f[k]]
    OBVIOUS
  <2> HIDE DEF f
  <2>3. Table(f)
    <3> HIDE DEF KeptAt
    <3> QED BY <2>1, <2>2
  <2> QED BY <2>3
<1> DEFINE f == CHOOSE f: Table(f)
<1>7. Table(f)
  <2> HIDE DEF Table
  <2> QED BY <1>6
<1> HIDE DEF f
<1>8. SpacesOut(f, c, distance, n)
  BY <1>7 DEF SpacesOut
<1> QED BY <1>1, <1>8 DEF f

(* The peaks that are kept: of those given, none close to another, and each  *)
(* that is left out is close to one that was given before it.                *)
IsSpaced(K, c, distance, m) ==
  /\ \A p \in K: \E k \in 1..m: p = c[k]
  /\ \A p, q \in K: p # q => Abs(p - q) >= distance
  /\ \A k \in 1..m: c[k] \in K \/ \E j \in 1..(k - 1): c[j] \in K /\ Abs(c[k] - c[j]) < distance

LEMMA SpacedIsSpaced ==
  ASSUME NEW n \in Nat, NEW c \in [1..n -> Int], Len(c) = n, NEW distance \in Int
  PROVE  IsSpaced(Spaced(c, distance), c, distance, n)
<1>1. PICK kept: SpacesOut(kept, c, distance, n) /\ Spaced(c, distance) = kept[n]
  BY SpacedTable
<1> DEFINE Good == {m \in Nat: m <= n => IsSpaced(kept[m], c, distance, m)}
<1>2. 0 \in Good
  <2>1. kept[0] = {}
    BY <1>1 DEF SpacesOut
  <2> QED BY <2>1 DEF IsSpaced
<1>3. ASSUME NEW m \in Nat, m \in Good
      PROVE  m + 1 \in Good
  <2> SUFFICES ASSUME m + 1 <= n PROVE IsSpaced(kept[m + 1], c, distance, m + 1)
    OBVIOUS
  <2> DEFINE K == kept[m]
             L == kept[m + 1]
             p == c[m + 1]
  <2>1. IsSpaced(K, c, distance, m)
    BY <1>3
  <2>2. L = KeepIfFar(K, p, distance)
    <3>1. m + 1 \in 0..n /\ m + 1 # 0 /\ (m + 1) - 1 = m
      OBVIOUS
    <3> QED BY <1>1, <3>1 DEF SpacesOut
  <2>3. p \in Int /\ \A k \in 1..m: c[k] \in Int
    OBVIOUS
  <2>4. K \subseteq Int
    BY <2>1, <2>3 DEF IsSpaced
  <2> HIDE DEF K, L, p
  <2>5. CASE \E q \in K: Abs(p - q) < distance
    <3>1. L = K
      BY <2>2, <2>5 DEF KeepIfFar
    <3>2. PICK j \in 1..m: c[j] \in K /\ Abs(p - c[j]) < distance
      BY <2>1, <2>5 DEF IsSpaced
    <3>3. \A k \in 1..(m + 1): k \in 1..m \/ k = m + 1
      OBVIOUS
    <3>4. c[m + 1] \in K \/ \E i \in 1..((m + 1) - 1): c[i] \in K /\ Abs(c[m + 1] - c[i]) < distance
      BY <3>2 DEF p
    <3>5. \A q \in K: \E k \in 1..(m + 1): q = c[k]
      BY <2>1 DEF IsSpaced
    <3>6. \A k \in 1..(m + 1):
            c[k] \in K \/ \E i \in 1..(k - 1): c[i] \in K /\ Abs(c[k] - c[i]) < distance
      BY <2>1, <3>3, <3>4 DEF IsSpaced
    <3>7. IsSpaced(K, c, distance, m + 1)
      BY <2>1, <3>5, <3>6 DEF IsSpaced
    <3> QED BY <3>1, <3>7 DEF L
  <2>6. CASE ~\E q \in K: Abs(p - q) < distance
    <3>1. L = K \cup {p}
      BY <2>2, <2>6 DEF KeepIfFar
    <3>2. \A q \in K: Abs(p - q) >= distance /\ Abs(q - p) >= distance
      BY <2>3, <2>4, <2>6 DEF Abs
    <3>3. \A q \in L: \E k \in 1..(m + 1): q = c[k]
      <4>1. \A q \in K: \E k \in 1..(m + 1): q = c[k]
        BY <2>1 DEF IsSpaced
      <4>2. p = c[m + 1] /\ m + 1 \in 1..(m + 1)
        BY DEF p
      <4> QED BY <3>1, <4>1, <4>2
    <3>4. \A x, y \in L: x # y => Abs(x - y) >= distance
      BY <2>1, <3>1, <3>2 DEF IsSpaced
    <3>5. \A k \in 1..(m + 1):
            c[k] \in L \/ \E j \in 1..(k - 1): c[j] \in L /\ Abs(c[k] - c[j]) < distance
      <4>1. \A k \in 1..(m + 1): k \in 1..m \/ k = m + 1
        OBVIOUS
      <4>2. c[m + 1] \in L
        BY <3>1 DEF p
      <4>3. K \subseteq L
        BY <3>1
      <4>4. \A k \in 1..m:
              c[k] \in L \/ \E j \in 1..(k - 1): c[j] \in L /\ Abs(c[k] - c[j]) < distance
        BY <2>1, <4>3 DEF IsSpaced
      <4> QED BY <4>1, <4>2, <4>4
    <3>6. IsSpaced(L, c, distance, m + 1)
      BY <3>3, <3>4, <3>5 DEF IsSpaced
    <3> QED BY <3>6 DEF L
  <2> QED BY <2>5, <2>6
<1> HIDE DEF Good
<1>4. n \in Good
  BY <1>2, <1>3, NumberInduction
<1> QED BY <1>1, <1>4 DEF Good

(* Whatever the distance, only what is given is kept.                        *)
LEMMA SpacedSubset ==
  ASSUME NEW n \in Nat, NEW S, NEW c \in [1..n -> S], Len(c) = n, NEW distance
  PROVE  Spaced(c, distance) \subseteq S
<1>1. PICK kept: SpacesOut(kept, c, distance, n) /\ Spaced(c, distance) = kept[n]
  BY SpacedTable
<1> DEFINE Good == {m \in Nat: m <= n => kept[m] \subseteq S}
<1>2. 0 \in Good
  BY <1>1 DEF SpacesOut
<1>3. ASSUME NEW m \in Nat, m \in Good
      PROVE  m + 1 \in Good
  <2> SUFFICES ASSUME m + 1 <= n PROVE kept[m + 1] \subseteq S
    OBVIOUS
  <2>1. m + 1 \in 0..n /\ m + 1 # 0 /\ (m + 1) - 1 = m /\ m + 1 \in 1..n
    OBVIOUS
  <2>2. kept[m + 1] = KeepIfFar(kept[m], c[m + 1], distance)
    BY <1>1, <2>1 DEF SpacesOut
  <2>3. kept[m] \subseteq S /\ c[m + 1] \in S
    BY <1>3, <2>1
  <2> QED BY <2>2, <2>3 DEF KeepIfFar
<1> HIDE DEF Good
<1>4. n \in Good
  BY <1>2, <1>3, NumberInduction
<1> QED BY <1>1, <1>4 DEF Good

(* The prominent rises of y.                                                 *)
Candidates(y) ==
  {p \in 2..(Len(y) - 1):
     /\ y[p] > y[p - 1] /\ y[p] >= y[p + 1]
     /\ 100 * peakProminence(y, p) >= 3 * Greatest({y[i]: i \in DOMAIN y})}

(* Peaks are prominent rises; no two are closer than the distance; and what  *)
(* is left out is close to one that is at least as high.                     *)
LEMMA PeaksSpaced ==
  ASSUME NEW n \in Nat, NEW y \in [1..n -> Int]
  PROVE  /\ \A d: findPeaks(y, d) \subseteq Candidates(y) /\ findPeaks(y, d) \subseteq 2..(n - 1)
         /\ \A d \in Int:
              /\ \A p, q \in findPeaks(y, d): p # q => Abs(p - q) >= d
              /\ \A p \in Candidates(y) \ findPeaks(y, d):
                   \E q \in findPeaks(y, d): Abs(p - q) < d /\ y[q] >= y[p]
<1> DEFINE C == Candidates(y)
           c == InOrder(C, Taller(y))
           m == Cardinality(C)
<1>1. Len(y) = n
  <2>1. y \in Seq(Int)
    OBVIOUS
  <2> QED BY <2>1
<1>2. \A d: findPeaks(y, d) = Spaced(c, d)
  BY Zenon DEF findPeaks, Candidates
<1>3. C \subseteq 2..(n - 1) /\ C \subseteq 1..n
  BY <1>1 DEF Candidates
<1>4. IsFiniteSet(C)
  <2>1. IsFiniteSet(1..n)
    BY FS_Interval
  <2> HIDE DEF C
  <2> QED BY <1>3, <2>1, FS_Subset
<1> HIDE DEF C
<1>5. \A p, q \in C: /\ p \in Int /\ q \in Int /\ y[p] \in Int /\ y[q] \in Int
                     /\ <<p, q>> \in Taller(y) <=> y[p] > y[q] \/ (y[p] = y[q] /\ p < q)
  <2>1. DOMAIN y = 1..n
    OBVIOUS
  <2> QED BY <1>3, <2>1 DEF Taller
<1>6. Orders(Taller(y), C)
  BY <1>5 DEF Orders
<1>7. Sorts(c, C, Taller(y))
  BY <1>4, <1>6, InOrderSorts
<1> HIDE DEF c
<1>8. /\ m \in Nat /\ c \in [1..m -> C] /\ c \in [1..m -> Int]
      /\ \A x \in C: \E k \in 1..m: c[k] = x
      /\ \A j, k \in 1..m: j < k => <<c[j], c[k]>> \in Taller(y)
  <2>1. /\ m \in Nat /\ c \in [1..m -> C]
        /\ \A x \in C: \E k \in 1..m: c[k] = x
        /\ \A j, k \in 1..m: j < k => <<c[j], c[k]>> \in Taller(y)
    BY <1>7 DEF Sorts
  <2> HIDE DEF m
  <2>2. C \subseteq Int
    BY <1>3
  <2> QED BY <2>1, <2>2
<1> HIDE DEF m
<1>9. Len(c) = m
  <2>1. c \in Seq(Int)
    BY <1>8
  <2> QED BY <1>8, <2>1
<1>10. \A d: Spaced(c, d) \subseteq C
  BY <1>8, <1>9, SpacedSubset
<1>11. ASSUME NEW d \in Int
       PROVE  /\ \A p, q \in Spaced(c, d): p # q => Abs(p - q) >= d
              /\ \A p \in C \ Spaced(c, d): \E q \in Spaced(c, d): Abs(p - q) < d /\ y[q] >= y[p]
  <2> DEFINE K == Spaced(c, d)
  <2>1. IsSpaced(K, c, d, m)
    BY <1>8, <1>9, SpacedIsSpaced
  <2> HIDE DEF K
  <2>2. ASSUME NEW p \in C \ K
        PROVE  \E q \in K: Abs(p - q) < d /\ y[q] >= y[p]
    <3>1. PICK k \in 1..m: c[k] = p
      BY <1>8
    <3>2. PICK j \in 1..(k - 1): c[j] \in K /\ Abs(c[k] - c[j]) < d
      BY <2>1, <3>1 DEF IsSpaced
    <3>3. j \in 1..m /\ j < k
      BY <1>8
    <3>4. <<c[j], c[k]>> \in Taller(y) /\ c[j] \in C /\ c[k] \in C
      BY <1>8, <3>3
    <3> DEFINE q == c[j]
               r == c[k]
    <3>5. /\ q \in C /\ r \in C /\ <<q, r>> \in Taller(y)
      BY <3>4
    <3> HIDE DEF q, r
    <3>6. y[q] >= y[r]
      BY <1>5, <3>5
    <3> QED BY <3>1, <3>2, <3>6 DEF q, r
  <2> QED BY <2>1, <2>2 DEF IsSpaced, K
<1> QED BY <1>2, <1>3, <1>10, <1>11 DEF C

-----------------------------------------------------------------------------
(* Smoothing                                                                 *)

(* There is one remainder.                                                   *)
LEMMA ModUnique ==
  ASSUME NEW d \in Nat, d > 0, NEW x \in Int, NEW q \in Int, NEW r \in 0..(d - 1), x = q * d + r
  PROVE  x % d = r
<1> DEFINE k == x \div d
           s == x % d
<1>1. k \in Int /\ s \in 0..(d - 1) /\ x = d * k + s
  OBVIOUS
<1> HIDE DEF k, s
<1>2. d * (k - q) = r - s
  BY <1>1
<1>3. ~(k - q >= 1)
  BY <1>1, <1>2
<1>4. ~(k - q <= -1)
  BY <1>1, <1>2
<1>5. k = q
  BY <1>1, <1>3, <1>4
<1> QED BY <1>1, <1>2, <1>5 DEF s

(* What is n long and reflected at both ends repeats itself after 2n, and is *)
(* the same from the right as from the left.                                 *)
LEMMA ReflectedOf ==
  ASSUME NEW n \in Nat, n > 0
  PROVE  /\ \A i \in 0..(n - 1): Reflected(i, n) = i
         /\ \A i \in Int: /\ i % (2 * n) \in 0..(2 * n - 1)
                          /\ Reflected(i, n) \in 0..(n - 1)
                          /\ Reflected(i % (2 * n), n) = Reflected(i, n)
                          /\ Reflected(2 * n - 1 - i, n) = Reflected(i, n)
<1> DEFINE d == 2 * n
<1>1. d \in Nat /\ d > 0
  OBVIOUS
<1>2. \A i \in Int: Reflected(i, n) = IF i % d < n THEN i % d ELSE d - 1 - (i % d)
  BY DEF Reflected
<1>3. d = n + n
  OBVIOUS
<1> HIDE DEF d
<1>4. \A r \in 0..(d - 1): r % d = r
  <2> SUFFICES ASSUME NEW r \in 0..(d - 1) PROVE r % d = r
    OBVIOUS
  <2>1. r = 0 * d + r /\ r \in Int
    BY <1>1
  <2> QED BY <1>1, <2>1, ModUnique
<1>5. ASSUME NEW i \in Int
      PROVE  /\ i % d \in 0..(d - 1) /\ (i % d) % d = i % d
             /\ (d - 1 - i) % d = d - 1 - (i % d)
  <2> DEFINE q == i \div d
             r == i % d
  <2>1. q \in Int /\ r \in 0..(d - 1) /\ i = d * q + r
    BY <1>1
  <2> HIDE DEF q, r
  <2>2. r % d = r
    BY <1>4, <2>1
  <2>3. d - 1 - i = (-q) * d + (d - 1 - r)
    BY <1>1, <2>1
  <2>4. d - 1 - r \in 0..(d - 1) /\ d - 1 - i \in Int /\ -q \in Int
    BY <1>1, <2>1
  <2>5. (d - 1 - i) % d = d - 1 - r
    BY <1>1, <2>3, <2>4, ModUnique
  <2> QED BY <2>1, <2>2, <2>5 DEF r
<1>6. \A i \in 0..(n - 1): Reflected(i, n) = i
  <2> SUFFICES ASSUME NEW i \in 0..(n - 1) PROVE Reflected(i, n) = i
    OBVIOUS
  <2>1. i \in 0..(d - 1)
    BY <1>3
  <2> QED BY <1>2, <1>4, <2>1
<1>7. ASSUME NEW i \in Int
      PROVE  /\ Reflected(i, n) \in 0..(n - 1)
             /\ Reflected(i % d, n) = Reflected(i, n)
             /\ Reflected(d - 1 - i, n) = Reflected(i, n)
  <2> DEFINE r == i % d
  <2>1. r \in 0..(d - 1) /\ r % d = r /\ (d - 1 - i) % d = d - 1 - r
    BY <1>1, <1>5
  <2>2. /\ Reflected(i, n) = IF r < n THEN r ELSE d - 1 - r
        /\ Reflected(r, n) = IF r % d < n THEN r % d ELSE d - 1 - (r % d)
        /\ Reflected(d - 1 - i, n) = IF (d - 1 - i) % d < n THEN (d - 1 - i) % d
                                     ELSE d - 1 - ((d - 1 - i) % d)
    <3>1. i \in Int /\ r \in Int /\ d - 1 - i \in Int
      BY <1>1, <2>1
    <3> QED BY <1>2, <3>1
  <2> HIDE DEF r
  <2>3. Reflected(i, n) \in 0..(n - 1)
    BY <1>3, <2>1, <2>2
  <2>4. Reflected(d - 1 - i, n) = IF d - 1 - r < n THEN d - 1 - r ELSE d - 1 - (d - 1 - r)
    BY <2>1, <2>2
  <2>5. Reflected(d - 1 - i, n) = Reflected(i, n)
    BY <1>3, <2>1, <2>2, <2>4
  <2> QED BY <2>1, <2>2, <2>3, <2>5 DEF r
<1> QED BY <1>5, <1>6, <1>7 DEF d

(* y reflected, at any place; its n values from the one that is j later; and *)
(* all 2n of them.                                                           *)
At(y, n, m) == y[1 + Reflected(m, n)]
Shifted(y, n, j) == [i \in 1..n |-> At(y, n, (i - 1) + j)]
Period(y, n, j) == [i \in 1..(2 * n) |-> At(y, n, (i - 1) + j)]

(* A period is what is seen to the right and what is seen to the left.       *)
LEMMA PeriodInHalves ==
  ASSUME NEW n \in Nat, n > 0, NEW y \in [1..n -> Int],
         NEW j \in Int, NEW l \in Int, j + l = 0
  PROVE  /\ \A m \in Int: At(y, n, m) \in Int
         /\ SumFunctionOnSet(Period(y, n, j), 1..(2 * n)) =
              SumFunctionOnSet(Shifted(y, n, j), 1..n) + SumFunctionOnSet(Shifted(y, n, l), 1..n)
<1> DEFINE d == 2 * n
           A == 1..n
           T == 1..d
           R == [i \in A |-> d + 1 - i]
           f == Period(y, n, j)
           g == Shifted(y, n, l)
<1>1. d \in Nat /\ d = n + n
  OBVIOUS
<1>2. \A m \in Int: Reflected(m, n) \in 0..(n - 1) /\ Reflected(d - 1 - m, n) = Reflected(m, n)
  BY ReflectedOf
<1> HIDE DEF d
<1>3. \A m \in Int: At(y, n, m) \in Int /\ At(y, n, d - 1 - m) = At(y, n, m)
  <2> SUFFICES ASSUME NEW m \in Int
               PROVE  At(y, n, m) \in Int /\ At(y, n, d - 1 - m) = At(y, n, m)
    OBVIOUS
  <2> DEFINE r == Reflected(m, n)
  <2>1. r \in 0..(n - 1) /\ Reflected(d - 1 - m, n) = r
    BY <1>2
  <2> HIDE DEF r
  <2>2. 1 + r \in 1..n
    BY <2>1
  <2> QED BY <2>1, <2>2 DEF At, r
<1>4. f = [i \in T |-> At(y, n, (i - 1) + j)] /\ g = [i \in A |-> At(y, n, (i - 1) + l)]
  BY DEF Period, Shifted, d
<1>5. \A i \in T: f[i] = At(y, n, (i - 1) + j) /\ f[i] \in Int
  BY <1>1, <1>3, <1>4
<1>6. \A i \in A: g[i] = At(y, n, (i - 1) + l) /\ g[i] \in Int
  BY <1>3, <1>4
<1> HIDE DEF f, g
<1>7. \A i \in A: R[i] \in T \ A /\ R[i] = d + 1 - i
  BY <1>1
<1>8. \A k \in T \ A: \E i \in A: R[i] = k
  <2> SUFFICES ASSUME NEW k \in T \ A PROVE \E i \in A: R[i] = k
    OBVIOUS
  <2>1. d + 1 - k \in A /\ d + 1 - (d + 1 - k) = k
    BY <1>1
  <2> QED BY <1>7, <2>1
<1>9. \A i \in A: f[R[i]] = g[i]
  <2> SUFFICES ASSUME NEW i \in A PROVE f[R[i]] = g[i]
    OBVIOUS
  <2>1. f[R[i]] = At(y, n, ((d + 1 - i) - 1) + j)
    BY <1>5, <1>7
  <2>2. ((d + 1 - i) - 1) + j = d - 1 - ((i - 1) + l) /\ (i - 1) + l \in Int
    BY <1>1
  <2>3. At(y, n, d - 1 - ((i - 1) + l)) = At(y, n, (i - 1) + l)
    BY <1>3, <2>2
  <2> QED BY <1>6, <2>1, <2>2, <2>3
<1>10. {R[i]: i \in A} = T \ A /\ (\A i, k \in A: R[i] = R[k] => i = k)
  <2>1. \A i, k \in A: R[i] = R[k] => i = k
    BY <1>1, <1>7
  <2> HIDE DEF R, T, A
  <2> QED BY <1>7, <1>8, <2>1
<1>11. IsFiniteSet(A) /\ IsFiniteSet(T) /\ A \in SUBSET T
  BY <1>1, FS_Interval
<1>12. f = [i \in T |-> f[i]] /\ \A i \in A: f[i] = Shifted(y, n, j)[i]
  <2>1. A \subseteq T
    BY <1>11
  <2> QED BY <1>4, <1>5, <2>1 DEF Shifted, f
<1> HIDE DEF R, T, A
<1>13. SumFunctionOnSet(f, T \ A) = SumFunctionOnSet(g, A)
  <2>1. \A i \in A: g[i] \in Int /\ f[R[i]] = g[i]
    BY <1>6, <1>9
  <2>2. SumFunctionOnSet(f, {R[i]: i \in A}) = SumFunctionOnSet(g, A)
    BY <1>10, <1>11, <2>1, SumRename
  <2> QED BY <1>10, <2>2
<1>14. SumFunctionOnSet(f, T) = SumFunctionOnSet(f, A) + SumFunctionOnSet(f, T \ A)
  BY <1>5, <1>11, SumSplit
<1>15. SumFunctionOnSet(f, A) = SumFunctionOnSet(Shifted(y, n, j), A)
  <2>1. \A i \in A: f[i] \in Int
    BY <1>5, <1>11
  <2> QED BY <1>11, <1>12, <2>1, SumEqual
<1> QED BY <1>3, <1>13, <1>14, <1>15 DEF f, g, d, T, A

(* Wherever it begins, a period has each value twice.                        *)
LEMMA PeriodIsTwice ==
  ASSUME NEW n \in Nat, n > 0, NEW y \in [1..n -> Int],
         NEW j \in Int, NEW l \in Int, j + l = 0
  PROVE  SumFunctionOnSet(Shifted(y, n, j), 1..n) + SumFunctionOnSet(Shifted(y, n, l), 1..n) =
           2 * SumFunctionOnSet(y, 1..n)
<1> DEFINE d == 2 * n
           A == 1..n
           T == 1..d
           R == [i \in T |-> 1 + (((i - 1) + j) % d)]
           f == Period(y, n, j)
           g == Period(y, n, 0)
<1>1. d \in Nat /\ d > 0 /\ d = n + n
  OBVIOUS
<1>2. /\ \A m \in 0..(n - 1): Reflected(m, n) = m
      /\ \A m \in Int: m % d \in 0..(d - 1) /\ Reflected(m % d, n) = Reflected(m, n)
  BY ReflectedOf
<1>3. \A m \in Int: At(y, n, m) \in Int
  BY PeriodInHalves
<1>4. SumFunctionOnSet(f, T) =
        SumFunctionOnSet(Shifted(y, n, j), A) + SumFunctionOnSet(Shifted(y, n, l), A)
  BY PeriodInHalves
<1>5. SumFunctionOnSet(g, T) =
        SumFunctionOnSet(Shifted(y, n, 0), A) + SumFunctionOnSet(Shifted(y, n, 0), A)
  <2>1. 0 \in Int /\ 0 + 0 = 0
    OBVIOUS
  <2> QED BY <2>1, PeriodInHalves
<1> HIDE DEF d
<1>6. f = [i \in T |-> At(y, n, (i - 1) + j)] /\ g = [i \in T |-> At(y, n, (i - 1) + 0)]
  BY DEF Period, d
<1>7. \A i \in T: f[i] = At(y, n, (i - 1) + j) /\ f[i] \in Int /\ g[i] = At(y, n, i - 1)
  <2> SUFFICES ASSUME NEW i \in T
               PROVE  f[i] = At(y, n, (i - 1) + j) /\ f[i] \in Int /\ g[i] = At(y, n, i - 1)
    OBVIOUS
  <2>1. (i - 1) + j \in Int /\ (i - 1) + 0 = i - 1
    OBVIOUS
  <2> QED BY <1>3, <1>6, <2>1
<1> HIDE DEF f, g
<1>8. \A i \in T: R[i] \in T /\ R[i] - 1 = ((i - 1) + j) % d
  <2> SUFFICES ASSUME NEW i \in T PROVE R[i] \in T /\ R[i] - 1 = ((i - 1) + j) % d
    OBVIOUS
  <2>1. (i - 1) + j \in Int
    OBVIOUS
  <2>2. ((i - 1) + j) % d \in 0..(d - 1)
    BY <1>2, <2>1
  <2>3. R[i] = 1 + (((i - 1) + j) % d)
    OBVIOUS
  <2> QED BY <1>1, <2>2, <2>3
<1>9. \A i \in T: g[R[i]] = f[i]
  <2> SUFFICES ASSUME NEW i \in T PROVE g[R[i]] = f[i]
    OBVIOUS
  <2> DEFINE m == (i - 1) + j
  <2>1. m \in Int
    OBVIOUS
  <2>2. g[R[i]] = At(y, n, m % d)
    BY <1>7, <1>8
  <2>3. f[i] = At(y, n, m)
    BY <1>7
  <2> HIDE DEF m
  <2>4. Reflected(m % d, n) = Reflected(m, n)
    BY <1>2, <2>1
  <2> QED BY <2>2, <2>3, <2>4 DEF At
<1>10. ASSUME NEW i \in T, NEW k \in T, R[i] = R[k]
       PROVE  i = k
  <2> DEFINE a == (i - 1) + j
             b == (k - 1) + j
  <2>1. a % d = b % d
    BY <1>8, <1>10
  <2>2. a \in Int /\ b \in Int /\ a - b = i - k
    OBVIOUS
  <2> HIDE DEF a, b
  <2>3. PICK p \in Int, q \in Int: a = d * p + (a % d) /\ b = d * q + (b % d)
    <3>1. a \div d \in Int /\ b \div d \in Int /\ a = d * (a \div d) + (a % d) /\ b = d * (b \div d) + (b % d)
      BY <1>1, <2>2
    <3> QED BY <3>1
  <2>4. a % d \in Int
    BY <1>2, <2>2
  <2>5. i - k = d * (p - q)
    BY <1>1, <2>1, <2>2, <2>3, <2>4
  <2>6. i - k < d /\ -d < i - k
    BY <1>1
  <2>7. ~(p - q >= 1) /\ ~(p - q <= -1)
    BY <1>1, <2>5, <2>6
  <2>8. p - q = 0
    BY <2>7
  <2> QED BY <1>1, <2>5, <2>8
<1>11. IsFiniteSet(T)
  BY <1>1, FS_Interval
<1>12. {R[i]: i \in T} = T
  <2> DEFINE I == {R[i]: i \in T}
  <2>1. R \in Bijection(T, I)
    BY <1>10 DEF Bijection, Injection, Surjection, IsInjective
  <2>2. I \in SUBSET T
    BY <1>8
  <2> HIDE DEF T, R, I
  <2>3. Cardinality(I) = Cardinality(T)
    BY <1>11, <2>1, FS_Bijection DEF ExistsBijection
  <2>4. I = T
    BY <1>11, <2>2, <2>3, FS_Subset
  <2> QED BY <2>4 DEF I
<1>13. SumFunctionOnSet(g, T) = SumFunctionOnSet(f, T)
  <2> HIDE DEF T, R
  <2>1. SumFunctionOnSet(g, {R[i]: i \in T}) = SumFunctionOnSet(f, T)
    BY <1>7, <1>9, <1>10, <1>11, SumRename
  <2> QED BY <1>12, <2>1
<1>14. SumFunctionOnSet(Shifted(y, n, 0), A) = SumFunctionOnSet(y, A)
  <2>1. ASSUME NEW i \in A
        PROVE  Shifted(y, n, 0)[i] = y[i] /\ y[i] \in Int
    <3>1. i - 1 \in 0..(n - 1) /\ (i - 1) + 0 = i - 1 /\ 1 + (i - 1) = i
      OBVIOUS
    <3>2. Shifted(y, n, 0)[i] = y[1 + Reflected(i - 1, n)]
      BY <3>1 DEF Shifted, At
    <3> QED BY <1>2, <3>1, <3>2
  <2>2. IsFiniteSet(A)
    BY FS_Interval
  <2> HIDE DEF A
  <2> QED BY <2>1, <2>2, SumEqual
<1>15. SumFunctionOnSet(y, A) \in Int
  <2>1. IsFiniteSet(A) /\ \A i \in A: y[i] \in Int
    BY FS_Interval
  <2> HIDE DEF A
  <2> QED BY <2>1, SumIsInt
<1> QED BY <1>4, <1>5, <1>13, <1>14, <1>15

(* A sum over the distances to both sides, by how far they are.              *)
LEMMA SumOfBothSides ==
  ASSUME NEW r \in Nat, NEW c, NEW v, NEW total \in Int,
         \A j \in (-r)..r: c[j] \in Int, \A j \in 0..r: v[j] \in Int,
         c[0] = v[0] * total,
         \A j \in 1..r: \A l \in (-r)..r: j + l = 0 => c[j] + c[l] = v[j] * total
  PROVE  SumFunctionOnSet(c, (-r)..r) = SumFunctionOnSet(v, 0..r) * total
<1> DEFINE B == (-r)..r
           A == 0..r
           P == 1..r
           L == [j \in P |-> -j]
           e == [j \in P |-> c[-j]]
           w == [j \in P |-> c[j] + c[-j]]
<1>1. IsFiniteSet(B) /\ IsFiniteSet(A) /\ IsFiniteSet(P)
  <2>1. -r \in Int /\ r \in Int /\ 0 \in Int /\ 1 \in Int
    OBVIOUS
  <2> QED BY <2>1, FS_Interval
<1>2. /\ A \in SUBSET B /\ P \in SUBSET B /\ 0 \in A /\ A \ {0} = P
      /\ \A j \in P: -j \in B \ A /\ -j \in B /\ j + (-j) = 0
  OBVIOUS
<1>3. \A j \in P: /\ e[j] = c[-j] /\ w[j] = c[j] + e[j] /\ w[j] = v[j] * total
                  /\ c[j] \in Int /\ e[j] \in Int /\ v[j] \in Int
  BY <1>2
<1>4. {L[j]: j \in P} = B \ A /\ (\A j, k \in P: L[j] = L[k] => j = k)
  <2>1. \A j, k \in P: L[j] = L[k] => j = k
    OBVIOUS
  <2>2. \A j \in P: L[j] \in B \ A
    BY <1>2
  <2>3. ASSUME NEW b \in B \ A
        PROVE  \E j \in P: L[j] = b
    <3>1. -b \in P /\ -(-b) = b
      OBVIOUS
    <3>2. L[-b] = b
      BY <3>1
    <3> QED BY <3>1, <3>2
  <2> HIDE DEF L, B, A, P
  <2> QED BY <2>1, <2>2, <2>3
<1>5. \A j \in P: c[L[j]] = e[j]
  OBVIOUS
<1>6. \A j \in B: c[j] \in Int
  OBVIOUS
<1>7. \A j \in A: v[j] \in Int
  OBVIOUS
<1> HIDE DEF A, B, P, L, e, w
<1>8. SumFunctionOnSet(c, B) = SumFunctionOnSet(c, A) + SumFunctionOnSet(c, B \ A)
  BY <1>1, <1>2, <1>6, SumSplit
<1>9. SumFunctionOnSet(c, B \ A) = SumFunctionOnSet(e, P)
  <2>1. \A j \in P: e[j] \in Int /\ c[L[j]] = e[j]
    BY <1>3, <1>5
  <2>2. SumFunctionOnSet(c, {L[j]: j \in P}) = SumFunctionOnSet(e, P)
    BY <1>1, <1>4, <2>1, SumRename
  <2> QED BY <1>4, <2>2
<1>10. SumFunctionOnSet(c, A) = c[0] + SumFunctionOnSet(c, P)
  <2>1. \A j \in A: c[j] \in Int
    BY <1>2, <1>6
  <2>2. SumFunctionOnSet(c, A) = c[0] + SumFunctionOnSet(c, A \ {0})
    BY <1>1, <1>2, <2>1, SumRemove
  <2> QED BY <1>2, <2>2
<1>11. SumFunctionOnSet(v, A) = v[0] + SumFunctionOnSet(v, P)
  <2>1. SumFunctionOnSet(v, A) = v[0] + SumFunctionOnSet(v, A \ {0})
    BY <1>1, <1>2, <1>7, SumRemove
  <2> QED BY <1>2, <2>1
<1>12. SumFunctionOnSet(w, P) = SumFunctionOnSet(c, P) + SumFunctionOnSet(e, P)
  BY <1>1, <1>3, SumPlus
<1>13. SumFunctionOnSet(w, P) = SumFunctionOnSet(v, P) * total
  BY <1>1, <1>3, SumScale
<1> DEFINE V == SumFunctionOnSet(v, P)
           C == SumFunctionOnSet(c, P)
           E == SumFunctionOnSet(e, P)
<1>14. V \in Int /\ C \in Int /\ E \in Int /\ v[0] \in Int
  BY <1>1, <1>2, <1>3, <1>7, SumIsInt
<1>15. SumFunctionOnSet(c, B) = v[0] * total + C + E /\ C + E = V * total
  BY <1>8, <1>9, <1>10, <1>12, <1>13, <1>14
<1>16. SumFunctionOnSet(v, A) = v[0] + V
  BY <1>11
<1> DEFINE a == v[0]
<1> HIDE DEF V, C, E, a
<1>17. a \in Int /\ (a + V) * total = a * total + V * total
  BY <1>14 DEF a
<1> QED BY <1>14, <1>15, <1>16, <1>17 DEF A, B, a

(* Smoothing multiplies the sum by the weight of the kernel and loses        *)
(* nothing at the ends, however far the kernel reaches over them.            *)
LEMMA SmoothingKeeps ==
  ASSUME NEW n \in Nat, NEW y \in [1..n -> Int]
  PROVE  /\ gaussianFilter1d(y) \in [1..n -> Int]
         /\ SumFunction(gaussianFilter1d(y)) =
              SumFunction([j \in DOMAIN Kernel |-> IF j = 0 THEN Kernel[0] ELSE 2 * Kernel[j]])
              * SumFunction(y)
<1> DEFINE A == 1..n
           B == (-Radius)..Radius
           W == [j \in B |-> SumFunctionOnSet(Shifted(y, n, j), A)]
           f == [i \in A |-> [j \in B |-> At(y, n, i - 1 + j) * Kernel[Abs(j)]]]
           t == [j \in B |-> [i \in A |-> At(y, n, i - 1 + j) * Kernel[Abs(j)]]]
           s == gaussianFilter1d(y)
           c == [j \in B |-> SumFunctionOnSet(t[j], A)]
           v == [j \in 0..Radius |-> IF j = 0 THEN Kernel[0] ELSE 2 * Kernel[j]]
           total == SumFunctionOnSet(y, A)
<1>1. Radius \in Nat /\ -Radius \in Int /\ Kernel \in [0..Radius -> Nat]
  BY LatencyAssumption
<1>2. IsFiniteSet(A) /\ IsFiniteSet(B)
  BY <1>1, FS_Interval
<1>3. \A j \in B: Abs(j) \in 0..Radius /\ Kernel[Abs(j)] \in Nat
  BY <1>1 DEF Abs
<1>4. Len(y) = n
  <2>1. y \in Seq(Int)
    OBVIOUS
  <2> QED BY <2>1
<1>5. DOMAIN y = A /\ DOMAIN s = A /\ DOMAIN Kernel = 0..Radius
  BY <1>1, <1>4 DEF gaussianFilter1d
<1>6. \A i \in A: s[i] = SumFunctionOnSet(f[i], B)
  BY <1>4 DEF gaussianFilter1d, SumFunction, At
<1>7. CASE n = 0
  <2>1. A = {}
    BY <1>7
  <2>2. SumFunctionOnSet(s, A) = 0 /\ total = 0
    BY <2>1, SumEmpty
  <2>3. SumFunctionOnSet(v, 0..Radius) \in Int
    <3>1. \A j \in 0..Radius: v[j] \in Int
      BY <1>1
    <3>2. IsFiniteSet(0..Radius)
      BY <1>1, FS_Interval
    <3> DEFINE D == 0..Radius
    <3> HIDE DEF v, D
    <3> QED BY <3>1, <3>2, SumIsInt DEF D
  <2>4. SumFunction(s) = 0 /\ SumFunction(y) = 0 /\ SumFunction(v) \in Int
    BY <1>1, <1>5, <2>2, <2>3 DEF SumFunction
  <2>5. s \in [A -> Int]
    <3>1. s = [i \in A |-> s[i]]
      BY <1>4 DEF gaussianFilter1d
    <3> HIDE DEF s
    <3> QED BY <2>1, <3>1
  <2> DEFINE z == SumFunction(v)
  <2> HIDE DEF s, z
  <2>6. 0 = z * 0
    BY <2>4 DEF z
  <2>7. SumFunction(s) = z * SumFunction(y)
    BY <2>4, <2>6
  <2> QED BY <1>5, <2>5, <2>7 DEF s, z
<1>8. CASE n > 0
  <2>1. \A m \in Int: At(y, n, m) \in Int
    <3>1. 0 \in Int /\ 0 + 0 = 0
      OBVIOUS
    <3> QED BY <1>8, <3>1, PeriodInHalves
  <2>2. \A i \in A: \A j \in B:
          /\ i - 1 + j \in Int /\ At(y, n, i - 1 + j) \in Int
          /\ f[i][j] = At(y, n, i - 1 + j) * Kernel[Abs(j)] /\ t[j][i] = f[i][j] /\ f[i][j] \in Int
    <3> SUFFICES ASSUME NEW i \in A, NEW j \in B
                 PROVE  /\ i - 1 + j \in Int /\ At(y, n, i - 1 + j) \in Int
                        /\ f[i][j] = At(y, n, i - 1 + j) * Kernel[Abs(j)]
                        /\ t[j][i] = f[i][j] /\ f[i][j] \in Int
      OBVIOUS
    <3>1. i - 1 + j \in Int
      BY <1>1
    <3> DEFINE a == At(y, n, i - 1 + j)
               k == Kernel[Abs(j)]
    <3>2. a \in Int /\ k \in Nat
      BY <1>3, <2>1, <3>1
    <3>3. f[i][j] = a * k /\ t[j][i] = a * k
      OBVIOUS
    <3> HIDE DEF a, k
    <3>4. a * k \in Int
      BY <3>2
    <3> QED BY <3>1, <3>2, <3>3, <3>4 DEF a, k
  <2>3. \A j \in B: c[j] = SumFunctionOnSet(t[j], A)
    OBVIOUS
  <2>4. ASSUME NEW j \in B
        PROVE  W[j] \in Int /\ c[j] = W[j] * Kernel[Abs(j)] /\ c[j] \in Int
    <3> DEFINE g == Shifted(y, n, j)
               h == t[j]
               k == Kernel[Abs(j)]
    <3>1. k \in Int
      BY <1>3
    <3>2. \A i \in A: g[i] \in Int /\ h[i] = g[i] * k
      BY <2>2 DEF Shifted
    <3> HIDE DEF g, h, k, A, t
    <3>3. SumFunctionOnSet(h, A) = SumFunctionOnSet(g, A) * k
      BY <1>2, <3>1, <3>2, SumScale
    <3>4. SumFunctionOnSet(g, A) \in Int
      BY <1>2, <3>2, SumIsInt
    <3> DEFINE u == SumFunctionOnSet(g, A)
    <3>5. W[j] = u /\ c[j] = u * k
      BY <3>3 DEF g, h
    <3> HIDE DEF u, W, c
    <3> QED BY <3>1, <3>4, <3>5 DEF u, k
  <2>5. SumFunctionOnSet(s, A) = SumFunctionOnSet(c, B)
    <3> HIDE DEF f, t, c, s, A, B
    <3>1. Transposed(t, f, A, B) /\ RowSums(s, f, A, B) /\ RowSums(c, t, B, A)
      BY <1>6, <2>2, <2>3 DEF Transposed, RowSums
    <3> QED BY <1>2, <3>1, SumSwap
  <2>6. ASSUME NEW j \in B, NEW l \in B, j + l = 0
        PROVE  W[j] + W[l] = 2 * total
    <3>1. j \in Int /\ l \in Int
      BY <1>1
    <3> QED BY <1>8, <2>6, <3>1, PeriodIsTwice
  <2>7. total \in Int
    <3> HIDE DEF A
    <3>1. \A i \in A: y[i] \in Int
      BY DEF A
    <3> QED BY <1>2, <3>1, SumIsInt
  <2> HIDE DEF W, c, total, t, f, s, A
  <2>8. c[0] = v[0] * total
    <3>1. 0 \in B /\ 0 + 0 = 0 /\ Abs(0) = 0
      BY <1>1 DEF Abs
    <3>2. W[0] = total
      BY <2>4, <2>6, <2>7, <3>1
    <3>3. c[0] = W[0] * Kernel[0] /\ v[0] = Kernel[0] /\ Kernel[0] \in Nat
      BY <1>1, <2>4, <3>1
    <3> QED BY <2>7, <3>2, <3>3
  <2>9. ASSUME NEW j \in 1..Radius, NEW l \in B, j + l = 0
        PROVE  c[j] + c[l] = v[j] * total
    <3>1. j \in B /\ Abs(j) = j /\ Abs(l) = j /\ j # 0
      BY <1>1, <2>9 DEF Abs
    <3> DEFINE k == Kernel[j]
               a == W[j]
               b == W[l]
    <3>2. k \in Nat /\ v[j] = 2 * k
      BY <1>1, <3>1
    <3>3. c[j] = a * k /\ c[l] = b * k /\ a \in Int /\ b \in Int
      BY <2>4, <3>1
    <3>4. a + b = 2 * total
      BY <2>6, <2>9, <3>1
    <3> HIDE DEF k, a, b, v
    <3>5. a * k + b * k = (a + b) * k
      BY <3>2, <3>3
    <3>6. (2 * total) * k = (2 * k) * total
      BY <2>7, <3>2
    <3> QED BY <3>2, <3>3, <3>4, <3>5, <3>6
  <2>10. \A j \in 0..Radius: v[j] \in Int
    BY <1>1
  <2> HIDE DEF v
  <2>11. SumFunctionOnSet(c, B) = SumFunctionOnSet(v, 0..Radius) * total
    <3>1. \A j \in (-Radius)..Radius: c[j] \in Int
      BY <2>4
    <3>2. \A j \in 1..Radius: \A l \in (-Radius)..Radius: j + l = 0 => c[j] + c[l] = v[j] * total
      BY <2>9
    <3>3. Radius \in Nat
      BY <1>1
    <3> QED BY <2>7, <2>8, <2>10, <3>1, <3>2, <3>3, SumOfBothSides
  <2>12. \A i \in A: s[i] \in Int
    <3> SUFFICES ASSUME NEW i \in A PROVE s[i] \in Int
      OBVIOUS
    <3> DEFINE g == f[i]
    <3>1. \A j \in B: g[j] \in Int
      BY <2>2
    <3> HIDE DEF g, B
    <3>2. SumFunctionOnSet(g, B) \in Int
      BY <1>2, <3>1, SumIsInt
    <3> QED BY <1>6, <3>2 DEF g
  <2>13. s \in [A -> Int]
    <3>1. s = [i \in A |-> s[i]]
      BY <1>4 DEF s, gaussianFilter1d, A
    <3> QED BY <2>12, <3>1
  <2> QED BY <1>5, <2>5, <2>11, <2>13 DEF SumFunction, s, v, A, total
<1> QED BY <1>7, <1>8

(* Peaks are rows, and never the first or the last one.                      *)
LEMMA PeaksAreRows ==
  ASSUME NEW h, IsHistogram(h)
  PROVE  PeaksOf(h) \subseteq 1..Cardinality(Filled(h))
<1> DEFINE rows == parseHistogramBuckets(h)
           n == Cardinality(Filled(h))
           x == [i \in DOMAIN rows |-> h[rows[i]] * PerWidth[rows[i]]]
           s == gaussianFilter1d(x)
<1>1. n \in Nat /\ rows \in [1..n -> 1..NB] /\ \A i \in 1..n: h[rows[i]] \in Nat
  BY RowsSorted
<1>2. x \in [1..n -> Int]
  <2>1. DOMAIN rows = 1..n /\ \A i \in 1..n: PerWidth[rows[i]] \in Nat
    BY <1>1, LatencyAssumption
  <2>2. ASSUME NEW i \in 1..n
        PROVE  h[rows[i]] * PerWidth[rows[i]] \in Int
    <3> DEFINE a == h[rows[i]]
               b == PerWidth[rows[i]]
    <3>1. a \in Nat /\ b \in Nat
      BY <1>1, <2>1
    <3> HIDE DEF a, b
    <3>2. a * b \in Int
      BY <3>1
    <3> QED BY <3>2 DEF a, b
  <2> QED BY <2>1, <2>2
<1>3. PeaksOf(h) = {} \/ \E d: PeaksOf(h) = findPeaks(s, d)
  BY Zenon DEF PeaksOf
<1> HIDE DEF n, rows, x
<1>4. s \in [1..n -> Int]
  BY <1>1, <1>2, SmoothingKeeps
<1> HIDE DEF s
<1>5. \A d: findPeaks(s, d) \subseteq 2..(n - 1)
  BY <1>1, <1>4, PeaksSpaced
<1>6. 2..(n - 1) \subseteq 1..n
  BY <1>1
<1> QED BY <1>3, <1>5, <1>6 DEF n

(* What detection calls a pair of modes is one of some rows.                 *)
LEMMA FoundPairs ==
  ASSUME NEW h, IsHistogram(h)
  PROVE  \E peaks:
           /\ peaks \subseteq 1..Cardinality(Filled(h))
           /\ detectModesJS(h).flag <=> ValidPairs(h, parseHistogramBuckets(h), peaks) # {}
           /\ \A pair \in detectModesJS(h).pairs:
                \E pq \in ValidPairs(h, parseHistogramBuckets(h), peaks):
                  pair = <<parseHistogramBuckets(h)[pq[1]], parseHistogramBuckets(h)[pq[2]]>>
<1> DEFINE passes == CallsOf(h) - h[0] >= MinCalls /\ Bc(h) >= 555
           peaks == IF passes THEN PeaksOf(h) ELSE {}
           rows == parseHistogramBuckets(h)
           pairs == ValidPairs(h, rows, peaks)
<1>1. peaks \subseteq 1..Cardinality(Filled(h))
  BY PeaksAreRows
<1>2. /\ detectModesJS(h).flag = (pairs # {})
      /\ detectModesJS(h).pairs = {<<rows[pq[1]], rows[pq[2]]>>: pq \in pairs}
  BY DEF detectModesJS
<1> HIDE DEF peaks, rows
<1> QED BY <1>1, <1>2 DEF rows

(* The part of ModesAreModes that is about one histogram.                    *)
LEMMA ModesInvariant == IsHistogram(histogram) => ModesAreModes
<1> SUFFICES ASSUME IsHistogram(histogram) PROVE ModesAreModes
  OBVIOUS
<1> DEFINE h == histogram
           found == detectModesJS(h)
           rows == parseHistogramBuckets(h)
           n == Cardinality(Filled(h))
           y == [i \in DOMAIN rows |-> h[rows[i]]]
           s == gaussianFilter1d(y)
           weight == SumFunction([j \in DOMAIN Kernel |-> IF j = 0 THEN Kernel[0] ELSE 2 * Kernel[j]])
<1>1. n \in Nat /\ rows \in [1..n -> 1..NB] /\ \A i \in 1..n: h[rows[i]] \in Nat
  BY RowsSorted
<1>2. y \in [1..n -> Int]
  BY <1>1
<1>3. s \in [1..n -> Int] /\ SumFunction(s) = weight * SumFunction(y)
  <2> HIDE DEF n, y
  <2> QED BY <1>1, <1>2, SmoothingKeeps
<1>4. ASSUME NEW d \in {2, 4}
      PROVE  /\ \A p, q \in findPeaks(s, d): p # q => Abs(p - q) >= d
             /\ \A p \in findPeaks(s, 1) \ findPeaks(s, d):
                  \E q \in findPeaks(s, d): Abs(p - q) < d /\ s[q] >= s[p]
  <2> HIDE DEF n, s
  <2>1. d \in Int
    OBVIOUS
  <2>2. findPeaks(s, 1) \subseteq Candidates(s)
    BY <1>1, <1>3, PeaksSpaced
  <2>3. /\ \A p, q \in findPeaks(s, d): p # q => Abs(p - q) >= d
        /\ \A p \in Candidates(s) \ findPeaks(s, d):
             \E q \in findPeaks(s, d): Abs(p - q) < d /\ s[q] >= s[p]
    BY <1>1, <1>3, <2>1, PeaksSpaced
  <2> QED BY <2>2, <2>3
<1>5. PICK peaks: /\ peaks \subseteq 1..n
                  /\ found.flag <=> ValidPairs(h, rows, peaks) # {}
                  /\ \A pair \in found.pairs: \E pq \in ValidPairs(h, rows, peaks):
                       pair = <<rows[pq[1]], rows[pq[2]]>>
  BY FoundPairs
<1>6. ASSUME NEW pq \in ValidPairs(h, rows, peaks)
      PROVE  /\ rows[pq[1]] \in 1..NB /\ rows[pq[2]] \in 1..NB
             /\ \E b \in 1..NB: /\ rows[pq[1]] < b /\ b < rows[pq[2]]
                                /\ h[b] > 0 /\ h[b] < h[rows[pq[1]]] /\ h[b] < h[rows[pq[2]]]
  BY <1>5, PairHasValley
<1>7. ASSUME NEW pair \in found.pairs
      PROVE  \E b \in pair[1]..pair[2]: h[b] > 0 /\ h[b] < h[pair[1]] /\ h[b] < h[pair[2]]
  <2> HIDE DEF found, rows, n, h
  <2>1. PICK pq \in ValidPairs(h, rows, peaks): pair = <<rows[pq[1]], rows[pq[2]]>>
    BY <1>5
  <2> DEFINE a == rows[pq[1]]
             c == rows[pq[2]]
  <2>2. PICK b \in 1..NB: a < b /\ b < c /\ h[b] > 0 /\ h[b] < h[a] /\ h[b] < h[c]
    BY <1>6
  <2>3. a \in 1..NB /\ c \in 1..NB
    BY <1>6
  <2>4. pair[1] = a /\ pair[2] = c
    BY <2>1
  <2> HIDE DEF a, c
  <2>5. b \in a..c
    BY <2>2, <2>3
  <2> QED BY <2>2, <2>4, <2>5
<1>8. ASSUME Unimodal(h), found.flag
      PROVE  FALSE
  <2> HIDE DEF found, rows, n
  <2>1. PICK pq \in ValidPairs(h, rows, peaks): TRUE
    BY <1>5, <1>8
  <2> DEFINE a == rows[pq[1]]
             c == rows[pq[2]]
  <2>2. PICK b \in 1..NB: a < b /\ b < c /\ h[b] > 0 /\ h[b] < h[a] /\ h[b] < h[c]
    BY <1>6
  <2>3. a \in 1..NB /\ c \in 1..NB
    BY <1>6
  <2> HIDE DEF a, c
  <2>4. h[a] <= h[b] \/ h[c] <= h[b]
    BY <1>8, <2>2, <2>3, HillHasNoValley
  <2>5. h[a] \in Nat /\ h[b] \in Nat /\ h[c] \in Nat
    <3>1. \A x \in 1..NB: x \in 0..NB
      OBVIOUS
    <3> QED BY <2>3, <3>1 DEF IsHistogram
  <2> QED BY <2>2, <2>4, <2>5
<1>9. Unimodal(h) => ~found.flag
  BY <1>8
<1> QED BY <1>3, <1>4, <1>7, <1>9 DEF ModesAreModes

(* The histogram stays one.                                                  *)
HistogramInv == IsHistogram(histogram)

LEMMA HistogramInit == LatencyInit => HistogramInv
BY DEF LatencyInit, HistogramInv, IsHistogram

LatencyStep == \/ Next /\ UNCHANGED latencyVars
               \/ LatencyNext /\ UNCHANGED vars

LEMMA HistogramNext == HistogramInv /\ [LatencyStep]_<<vars, latencyVars>> => HistogramInv'
<1> SUFFICES ASSUME HistogramInv, [LatencyStep]_<<vars, latencyVars>> PROVE HistogramInv'
  OBVIOUS
<1>1. CASE UNCHANGED histogram
  BY <1>1 DEF HistogramInv, IsHistogram
<1>2. ASSUME NEW b \in 0..NB, Take(b)
      PROVE  HistogramInv'
  <2>1. histogram[b] \in Nat
    BY DEF HistogramInv, IsHistogram
  <2> QED BY <1>2, <2>1 DEF Take, HistogramInv, IsHistogram
<1>3. ASSUME NEW sidecar, RenderLatencyPanel(sidecar)
      PROVE  UNCHANGED histogram
  BY <1>3 DEF RenderLatencyPanel
<1>4. ASSUME NEW tier, NEW flagged, SetFilters(tier, flagged)
      PROVE  UNCHANGED histogram
  BY <1>4 DEF SetFilters
<1>5. ASSUME NEW key, ClickHeader(key)
      PROVE  UNCHANGED histogram
  BY <1>5 DEF ClickHeader
<1>6. UNCHANGED latencyVars => UNCHANGED histogram
  BY DEF latencyVars
<1> QED BY <1>1, <1>2, <1>3, <1>4, <1>5, <1>6 DEF LatencyStep, LatencyNext

(* app.js:3725, of every histogram: smoothing keeps the calls, peaks keep    *)
(* their distance, what is flagged has a valley, and one hill never is.      *)
THEOREM FlaggedHasModes == LatencySpec => []ModesAreModes
<1>1. LatencySpec => []HistogramInv
  BY HistogramInit, HistogramNext, PTL DEF LatencySpec, LatencyStep
<1>2. HistogramInv => ModesAreModes
  BY ModesInvariant DEF HistogramInv
<1> QED BY <1>1, <1>2, PTL

-----------------------------------------------------------------------------
(* Filters and templates                                                     *)

(* Results of an analysis, of either origin: one of each id.                 *)
IsResults(rs) ==
  /\ IsFiniteSet(DOMAIN rs) /\ DOMAIN rs \subseteq Nat
  /\ \A i \in DOMAIN rs: /\ rs[i].dip \in Nat \cup {NoDip} /\ rs[i].bc \in Int
                         /\ rs[i].tier \in DOMAIN HIST_TIER_RANK
  /\ \A i, j \in DOMAIN rs: rs[i].id = rs[j].id => i = j

(* The order of Ordered.                                                     *)
ByStrength(rs, S) == {ij \in S \X S: Stronger(rs, ij[1], ij[2])}

(* Of two results one is stronger, so that any of them can be sorted.        *)
LEMMA OrderedSorts ==
  ASSUME NEW rs, IsResults(rs), NEW S \in SUBSET DOMAIN rs
  PROVE  Sorts(Ordered(rs, S), S, ByStrength(rs, S))
<1> DEFINE dip(k) == IF rs[k].dip = NoDip THEN 1000 ELSE rs[k].dip
           bc(k) == rs[k].bc
           before == ByStrength(rs, S)
<1>1. \A k \in S: dip(k) \in Nat /\ bc(k) \in Int /\ k \in Nat
  BY DEF IsResults
<1>2. \A i, j \in S: <<i, j>> \in before <=>
        \/ dip(i) < dip(j)
        \/ dip(i) = dip(j) /\ bc(i) > bc(j)
        \/ dip(i) = dip(j) /\ bc(i) = bc(j) /\ i < j
  BY DEF ByStrength, Stronger
<1>3. IsFiniteSet(S)
  BY FS_Subset DEF IsResults
<1>4. Ordered(rs, S) = InOrder(S, before)
  BY DEF Ordered, ByStrength
<1> HIDE DEF dip, bc, before
<1>5. \A x \in S: <<x, x>> \notin before
  BY <1>1, <1>2
<1>6. \A x, y \in S: x # y => <<x, y>> \in before \/ <<y, x>> \in before
  BY <1>1, <1>2
<1>7. \A x, y, z \in S: <<x, y>> \in before /\ <<y, z>> \in before => <<x, z>> \in before
  BY <1>1, <1>2
<1>8. Orders(before, S)
  BY <1>5, <1>6, <1>7 DEF Orders
<1> QED BY <1>3, <1>4, <1>8, InOrderSorts DEF before

(* The rank of a result among some of them is its place in their order.      *)
LEMMA RankIsPlace ==
  ASSUME NEW rs, IsResults(rs), NEW S \in SUBSET DOMAIN rs, NEW ranked
  PROVE  LET o == Ordered(rs, S)
             n == Cardinality(S)
         IN /\ n \in Nat /\ o \in [1..n -> S] /\ \A x \in S: \E k \in 1..n: o[k] = x
            /\ \A k \in 1..n: rankByConfidence(rs, S, ranked)[o[k]] = k
            /\ \A i, j \in S: rankByConfidence(rs, S, ranked)[i] = rankByConfidence(rs, S, ranked)[j]
                                => i = j
            /\ \A i \in S: rankByConfidence(rs, S, ranked)[i] \in 1..n
<1> DEFINE o == Ordered(rs, S)
           n == Cardinality(S)
           r == rankByConfidence(rs, S, ranked)
<1>1. Sorts(o, S, ByStrength(rs, S))
  BY OrderedSorts
<1>2. n \in Nat /\ o \in [1..n -> S] /\ \A x \in S: \E k \in 1..n: o[k] = x
  BY <1>1 DEF Sorts
<1>3. ASSUME NEW k \in 1..n
      PROVE  r[o[k]] = k
  <2> DEFINE i == o[k]
  <2>1. i \in S /\ i \in DOMAIN rs
    BY <1>2
  <2>2. Cardinality({y \in S: <<y, i>> \in ByStrength(rs, S)}) = k - 1
    BY <1>1 DEF Sorts
  <2> HIDE DEF i
  <2>3. {y \in S: <<y, i>> \in ByStrength(rs, S)} = {j \in S: Stronger(rs, j, i)}
    BY <2>1 DEF ByStrength
  <2>4. r[i] = 1 + Cardinality({j \in S: Stronger(rs, j, i)})
    BY <2>1 DEF rankByConfidence
  <2>5. r[i] = 1 + (k - 1)
    BY <2>2, <2>3, <2>4
  <2> QED BY <1>2, <2>5 DEF i
<1> HIDE DEF o, n, r
<1>4. \A i, j \in S: r[i] = r[j] => i = j
  BY <1>2, <1>3
<1>5. \A i \in S: r[i] \in 1..n
  BY <1>2, <1>3
<1> QED BY <1>2, <1>3, <1>4, <1>5 DEF o, n, r

(* The results of a canonical text, and their group.                         *)
OfTemplate(rs, t) == {i \in DOMAIN rs: rs[i].template = t}
Group(rs, ranked, t) ==
  LET order == Ordered(rs, OfTemplate(rs, t))
  IN [template |-> t, best |-> ranked[order[1]], tier |-> rs[order[1]].tier,
      members |-> [k \in DOMAIN order |->
                     [id |-> rs[order[k]].id, tier |-> rs[order[k]].tier, rank |-> k]]]

(* A group lists the results of its text, the best one first.                *)
LEMMA GroupIs ==
  ASSUME NEW rs, IsResults(rs), NEW ranked, NEW i \in DOMAIN rs
  PROVE  LET t == rs[i].template
             g == Group(rs, ranked, t)
             S == OfTemplate(rs, t)
             m == Cardinality(S)
             o == Ordered(rs, S)
         IN /\ m \in Nat /\ m > 0 /\ o \in [1..m -> S] /\ \A x \in S: \E k \in 1..m: o[k] = x
            /\ g.template = t /\ g.best = ranked[o[1]] /\ g.tier = rs[o[1]].tier
            /\ g.members = [k \in 1..m |-> [id |-> rs[o[k]].id, tier |-> rs[o[k]].tier, rank |-> k]]
<1> DEFINE t == rs[i].template
           S == OfTemplate(rs, t)
           m == Cardinality(S)
           o == Ordered(rs, S)
<1>1. S \in SUBSET DOMAIN rs /\ i \in S
  BY DEF OfTemplate
<1>2. m \in Nat /\ o \in [1..m -> S] /\ \A x \in S: \E k \in 1..m: o[k] = x
  BY <1>1, OrderedSorts DEF Sorts
<1>3. m > 0
  BY <1>1, <1>2
<1>4. DOMAIN o = 1..m
  BY <1>2
<1> QED BY <1>2, <1>3, <1>4 DEF Group

(* Groups differ in their best, whose ranks among all the results differ.    *)
LEMMA GroupsSorted ==
  ASSUME NEW rs, IsResults(rs), NEW ranked,
         NEW groups \in SUBSET groupByTemplate(rs, rankByConfidence(rs, DOMAIN rs, ranked))
  PROVE  LET n == Cardinality(groups)
         IN n \in Nat /\ ByBest(groups) \in [1..n -> groups]
<1> DEFINE r == rankByConfidence(rs, DOMAIN rs, ranked)
           before == {gh \in groups \X groups: gh[1].best < gh[2].best}
           N == Cardinality(DOMAIN rs)
           all == groupByTemplate(rs, r)
           G == [i \in DOMAIN rs |-> Group(rs, r, rs[i].template)]
<1>1. all = {G[i]: i \in DOMAIN rs}
  BY DEF groupByTemplate, Group, OfTemplate
<1>2. IsFiniteSet(groups)
  <2>1. IsFiniteSet(DOMAIN rs)
    BY DEF IsResults
  <2> HIDE DEF G
  <2>2. IsFiniteSet({G[i]: i \in DOMAIN rs})
    BY <2>1, ImageFinite
  <2> HIDE DEF all
  <2>3. groups \in SUBSET all
    BY DEF all
  <2> QED BY <1>1, <2>2, <2>3, FS_Subset
<1>3. ASSUME NEW g \in groups
      PROVE  \E i \in DOMAIN rs: /\ g = Group(rs, r, rs[i].template) /\ g.best = r[i]
                                 /\ g.best \in Nat
  <2>1. PICK j \in DOMAIN rs: g = Group(rs, r, rs[j].template)
    BY <1>1
  <2> DEFINE t == rs[j].template
             S == OfTemplate(rs, t)
             o == Ordered(rs, S)
             m == Cardinality(S)
  <2>2. m \in Nat /\ m > 0 /\ o \in [1..m -> S] /\ Group(rs, r, t).best = r[o[1]]
    <3>1. Group(rs, r, t).best = r[o[1]]
      BY DEF Group
    <3> QED BY <3>1, GroupIs
  <2> DEFINE b == o[1]
  <2>3. b \in S
    BY <2>2
  <2>4. b \in DOMAIN rs /\ rs[b].template = t
    BY <2>3 DEF OfTemplate
  <2>5. N \in Nat /\ r[b] \in 1..N
    BY <2>4, RankIsPlace
  <2> QED BY <2>1, <2>2, <2>4, <2>5
<1>4. ASSUME NEW i \in DOMAIN rs, NEW j \in DOMAIN rs, r[i] = r[j]
      PROVE  i = j
  BY <1>4, RankIsPlace
<1> HIDE DEF r, all, G
<1>5. \A g, k \in groups: <<g, k>> \in before <=> g.best < k.best
  OBVIOUS
<1>6. \A g, k \in groups: g.best = k.best => g = k
  BY <1>3, <1>4
<1>7. \A g \in groups: g.best \in Nat
  BY <1>3
<1> HIDE DEF before
<1>8. Orders(before, groups)
  BY <1>5, <1>6, <1>7 DEF Orders
<1>9. Sorts(InOrder(groups, before), groups, before)
  BY <1>2, <1>8, InOrderSorts
<1> QED BY <1>9 DEF Sorts, ByBest, before

(* The levels are numbers.                                                   *)
LEMMA TierLevels == \A tier \in DOMAIN HIST_TIER_RANK: HIST_TIER_RANK[tier] \in Nat
BY DEF HIST_TIER_RANK

(* Another rank in the record of a member.                                   *)
LEMMA WithRank ==
  \A id, tier, old, new:
    LET member == [id |-> id, tier |-> tier, rank |-> old]
        numbered == [member EXCEPT !.rank = new]
    IN numbered.id = id /\ numbered.tier = tier /\ numbered.rank = new
OBVIOUS

(* A cell lists each member once, numbered from one, and if it is sorted by  *)
(* tier, descending, then the first is at least of the tier of the best.     *)
CellKeeps(members, tier) ==
  LET cell == orderTemplateMembers(members)
  IN /\ {cell[k].id: k \in DOMAIN cell} = {members[k].id: k \in DOMAIN members}
     /\ \A k \in DOMAIN cell: cell[k].rank = k
     /\ sort.key = "best_tier" /\ sort.dir = "desc" =>
          HIST_TIER_RANK[cell[1].tier] >= HIST_TIER_RANK[tier]

LEMMA CellKeepsMembers ==
  ASSUME NEW m \in Nat, m > 0, NEW ids, NEW tiers,
         \A k \in 1..m: tiers[k] \in DOMAIN HIST_TIER_RANK,
         NEW members,
         members = [k \in 1..m |-> [id |-> ids[k], tier |-> tiers[k], rank |-> k]]
  PROVE  CellKeeps(members, tiers[1])
<1> DEFINE D == 1..m
           level(k) == HIST_TIER_RANK[members[k].tier]
           asc == sort.dir = "asc"
           before(i, j) == \/ IF asc THEN level(i) < level(j) ELSE level(i) > level(j)
                           \/ level(i) = level(j) /\ members[i].rank < members[j].rank
           pairs == {ij \in (DOMAIN members) \X (DOMAIN members): before(ij[1], ij[2])}
           o == InOrder(DOMAIN members, pairs)
           ordered == [k \in DOMAIN o |-> members[o[k]]]
           sorted == [k \in DOMAIN ordered |-> [ordered[k] EXCEPT !.rank = k]]
           cell == orderTemplateMembers(members)
<1>1. DOMAIN members = D
  OBVIOUS
<1>2. cell = IF sort.key # "best_tier" THEN members ELSE sorted
  BY Zenon DEF orderTemplateMembers
<1>3. \A k \in D: /\ members[k] = [id |-> ids[k], tier |-> tiers[k], rank |-> k]
                  /\ level(k) = HIST_TIER_RANK[tiers[k]] /\ level(k) \in Nat
                  /\ members[k].id = ids[k] /\ members[k].rank = k
  BY TierLevels
<1>4. CASE sort.key # "best_tier"
  <2> HIDE DEF D, cell
  <2>1. cell = members
    BY <1>2, <1>4
  <2>2. {cell[k].id: k \in DOMAIN cell} = {members[k].id: k \in DOMAIN members}
    BY <2>1, Zenon
  <2>3. \A k \in DOMAIN cell: cell[k].rank = k
    BY <1>1, <1>3, <2>1
  <2> QED BY <1>4, <2>2, <2>3 DEF CellKeeps, cell
<1>5. CASE sort.key = "best_tier"
  <2>1. IsFiniteSet(D) /\ Cardinality(D) = m
    BY FS_Interval
  <2> DEFINE lv == [k \in D |-> level(k)]
  <2>2. \A k \in D: lv[k] = HIST_TIER_RANK[tiers[k]] /\ lv[k] \in Nat
    BY <1>3
  <2>3. \A i, j \in D: <<i, j>> \in pairs <=>
          \/ IF asc THEN lv[i] < lv[j] ELSE lv[i] > lv[j]
          \/ lv[i] = lv[j] /\ i < j
    BY <1>1, <1>3
  <2> HIDE DEF lv, asc
  <2> HIDE DEF pairs
  <2>4. Orders(pairs, D)
    <3>1. \A x \in D: <<x, x>> \notin pairs
      BY <2>2, <2>3
    <3>2. \A x, y \in D: x # y => <<x, y>> \in pairs \/ <<y, x>> \in pairs
      BY <2>2, <2>3
    <3>3. \A x, y, z \in D: <<x, y>> \in pairs /\ <<y, z>> \in pairs => <<x, z>> \in pairs
      BY <2>2, <2>3
    <3> QED BY <3>1, <3>2, <3>3 DEF Orders
  <2>5. Sorts(o, D, pairs)
    <3> HIDE DEF D
    <3> QED BY <1>1, <2>1, <2>4, InOrderSorts
  <2>6. /\ o \in [D -> D] /\ (\A x \in D: \E k \in D: o[k] = x)
        /\ \A j, k \in D: j < k <=> <<o[j], o[k]>> \in pairs
    BY <2>1, <2>5 DEF Sorts
  <2> HIDE DEF o
  <2>7. cell = sorted
    BY <1>2, <1>5
  <2>8. DOMAIN sorted = D
    BY <2>6
  <2>9. \A k \in D: o[k] \in D
    BY <2>6
  <2>10. \A k \in D: sorted[k].id = ids[o[k]] /\ sorted[k].tier = tiers[o[k]] /\ sorted[k].rank = k
    <3> SUFFICES ASSUME NEW k \in D
                 PROVE  /\ sorted[k].id = ids[o[k]] /\ sorted[k].tier = tiers[o[k]]
                        /\ sorted[k].rank = k
      OBVIOUS
    <3> DEFINE member == [id |-> ids[o[k]], tier |-> tiers[o[k]], rank |-> o[k]]
    <3>1. o[k] \in D /\ DOMAIN o = D
      BY <2>6
    <3>2. members[o[k]] = member
      BY <1>3, <3>1
    <3>3. sorted[k] = [members[o[k]] EXCEPT !.rank = k]
      BY <3>1
    <3> HIDE DEF sorted
    <3>4. sorted[k] = [member EXCEPT !.rank = k]
      BY <3>2, <3>3, Zenon
    <3> QED BY <3>4, WithRank, Zenon
  <2> HIDE DEF sorted, cell
  <2>11. {sorted[k].id: k \in D} = {members[k].id: k \in D}
    <3> HIDE DEF D
    <3>1. \A k \in D: members[k].id = ids[k]
      BY <1>3
    <3>2. \A k \in D: members[o[k]].id = ids[o[k]]
      BY <2>9, <3>1
    <3>3. \A k \in D: sorted[k].id = members[o[k]].id
      BY <2>10, <3>2
    <3>4. ASSUME NEW x \in {sorted[k].id: k \in D} PROVE x \in {members[k].id: k \in D}
      <4>1. PICK k \in D: x = sorted[k].id
        OBVIOUS
      <4>2. x = members[o[k]].id /\ o[k] \in D
        BY <2>9, <3>3, <4>1
      <4> QED BY <4>2
    <3>5. ASSUME NEW x \in {members[k].id: k \in D} PROVE x \in {sorted[k].id: k \in D}
      <4>1. PICK i \in D: x = members[i].id
        OBVIOUS
      <4>2. PICK k \in D: o[k] = i
        BY <2>6
      <4>3. x = sorted[k].id
        BY <3>3, <4>1, <4>2
      <4> QED BY <4>3
    <3> QED BY <3>4, <3>5
  <2>12. ASSUME sort.dir = "desc"
         PROVE  HIST_TIER_RANK[sorted[1].tier] >= HIST_TIER_RANK[tiers[1]]
    <3>1. 1 \in D /\ ~asc
      BY <2>12 DEF asc
    <3>2. PICK k \in D: o[k] = 1
      BY <2>6, <3>1
    <3>3. o[1] \in D
      BY <2>9, <3>1
    <3>4. k = 1 \/ <<o[1], o[k]>> \in pairs
      BY <2>6, <3>1
    <3>5. lv[o[1]] >= lv[1]
      BY <2>2, <2>3, <3>1, <3>2, <3>3, <3>4
    <3> QED BY <2>2, <2>10, <3>1, <3>3, <3>5
  <2> HIDE DEF D
  <2>13. DOMAIN cell = D
    BY <2>7, <2>8
  <2>14. {cell[k].id: k \in DOMAIN cell} = {members[k].id: k \in DOMAIN members}
    <3>1. {cell[k].id: k \in DOMAIN cell} = {sorted[k].id: k \in D}
      BY <2>7, <2>13, Zenon
    <3> QED BY <1>1, <2>11, <3>1
  <2>15. \A k \in DOMAIN cell: cell[k].rank = k
    BY <2>7, <2>10, <2>13
  <2>16. sort.dir = "desc" => HIST_TIER_RANK[cell[1].tier] >= HIST_TIER_RANK[tiers[1]]
    BY <2>7, <2>12
  <2> QED BY <2>14, <2>15, <2>16 DEF CellKeeps, cell
<1> QED BY <1>4, <1>5

(* Whatever they were before, the ranks among all the results are the same.  *)
LEMMA RanksOfAll ==
  ASSUME NEW rs, NEW a, NEW b
  PROVE  rankByConfidence(rs, DOMAIN rs, a) = rankByConfidence(rs, DOMAIN rs, b)
BY DEF rankByConfidence

(* The groups that have several members, of which one is among the visible.  *)
AllGroups(rs) == groupByTemplate(rs, rankByConfidence(rs, DOMAIN rs, <<>>))
Shown(rs, visible) ==
  {g \in AllGroups(rs): Len(g.members) > 1 /\ g.template \in {rs[i].template: i \in visible}}

(* What the tab shows is some of the results, and the groups of those.       *)
FilteredTo(visible) ==
  /\ table = [k \in 1..Cardinality(visible) |->
                [id |-> results[Ordered(results, visible)[k]].id, rank |-> k]]
  /\ recurring = ByBest(Shown(results, visible))

TemplatesInv == IsResults(results) /\ \E visible \in SUBSET DOMAIN results: FilteredTo(visible)

(* A group contains a visible row if and only if one of its text is visible. *)
LEMMA ContainsVisible ==
  ASSUME NEW rs, IsResults(rs), NEW visible \in SUBSET DOMAIN rs, NEW g \in AllGroups(rs)
  PROVE  (\E k \in DOMAIN g.members: g.members[k].id \in {rs[i].id: i \in visible})
           <=> g.template \in {rs[i].template: i \in visible}
<1> DEFINE r == rankByConfidence(rs, DOMAIN rs, <<>>)
<1>1. PICK j \in DOMAIN rs: g = Group(rs, r, rs[j].template)
  BY DEF AllGroups, groupByTemplate, Group, OfTemplate
<1> HIDE DEF r
<1> DEFINE t == rs[j].template
           S == OfTemplate(rs, t)
           m == Cardinality(S)
           o == Ordered(rs, S)
<1>2. /\ m \in Nat /\ o \in [1..m -> S] /\ \A x \in S: \E k \in 1..m: o[k] = x
      /\ g.template = t
      /\ g.members = [k \in 1..m |-> [id |-> rs[o[k]].id, tier |-> rs[o[k]].tier, rank |-> k]]
  <2>1. m \in Nat /\ o \in [1..m -> S] /\ \A x \in S: \E k \in 1..m: o[k] = x
    <3>1. S \in SUBSET DOMAIN rs
      BY DEF OfTemplate
    <3> QED BY <3>1, OrderedSorts DEF Sorts
  <2>2. DOMAIN o = 1..m
    BY <2>1
  <2> QED BY <1>1, <2>1, <2>2 DEF Group
<1>3. DOMAIN g.members = 1..m /\ \A k \in 1..m: g.members[k].id = rs[o[k]].id
  BY <1>2
<1>4. \A x: x \in S <=> x \in DOMAIN rs /\ rs[x].template = t
  BY DEF OfTemplate
<1> HIDE DEF t, S, m, o
<1>5. \A k \in 1..m: o[k] \in S
  BY <1>2
<1>6. ASSUME NEW k \in 1..m, NEW i \in visible, rs[o[k]].id = rs[i].id
      PROVE  t = rs[i].template
  BY <1>4, <1>5, <1>6 DEF IsResults
<1>7. ASSUME NEW i \in visible, t = rs[i].template
      PROVE  \E k \in 1..m: rs[o[k]].id = rs[i].id
  <2>1. i \in S
    BY <1>4, <1>7
  <2> QED BY <1>2, <2>1
<1>8. ASSUME NEW k \in DOMAIN g.members, g.members[k].id \in {rs[i].id: i \in visible}
      PROVE  t \in {rs[i].template: i \in visible}
  BY <1>3, <1>6, <1>8
<1>9. ASSUME t \in {rs[i].template: i \in visible}
      PROVE  \E k \in DOMAIN g.members: g.members[k].id \in {rs[i].id: i \in visible}
  <2>1. PICK i \in visible: t = rs[i].template
    BY <1>9
  <2>2. PICK k \in 1..m: rs[o[k]].id = rs[i].id
    BY <1>7, <2>1
  <2> QED BY <1>3, <2>2
<1>10. g.template = t
  BY <1>2
<1> QED BY <1>8, <1>9, <1>10

(* Any counts can be listed from the largest to the smallest.                *)
LEMMA ByCallsExists ==
  ASSUME NEW S, IsFiniteSet(S), NEW calls, \A s \in S: calls[s] \in Int
  PROVE  \E o \in Bijection(1..Cardinality(S), S):
           \A i, j \in DOMAIN o: i < j => calls[o[i]] >= calls[o[j]]
<1> DEFINE n == Cardinality(S)
<1>1. PICK m \in Nat: ExistsBijection(1..m, S)
  BY FS_NatBijection
<1>2. PICK e \in Bijection(1..m, S): TRUE
  BY <1>1 DEF ExistsBijection
<1>3. /\ \A i \in 1..m: e[i] \in S
      /\ \A i, j \in 1..m: e[i] = e[j] => i = j
      /\ \A s \in S: \E i \in 1..m: e[i] = s
  BY <1>2 DEF Bijection, Injection, Surjection, IsInjective
<1> DEFINE place == [s \in S |-> CHOOSE i \in 1..m: e[i] = s]
           before == {st \in S \X S: \/ calls[st[1]] > calls[st[2]]
                                     \/ /\ calls[st[1]] = calls[st[2]]
                                        /\ place[st[1]] < place[st[2]]}
           o == InOrder(S, before)
<1>4. \A s \in S: place[s] \in 1..m /\ e[place[s]] = s
  BY <1>3
<1>5. \A s, t \in S: <<s, t>> \in before <=>
        calls[s] > calls[t] \/ (calls[s] = calls[t] /\ place[s] < place[t])
  OBVIOUS
<1> HIDE DEF place, before
<1>6. \A s, t \in S: place[s] = place[t] => s = t
  BY <1>4
<1>7. \A s \in S: place[s] \in Int
  BY <1>4
<1>8. \A x \in S: <<x, x>> \notin before
  BY <1>5, <1>7
<1>9. \A x, y \in S: x # y => <<x, y>> \in before \/ <<y, x>> \in before
  BY <1>5, <1>6, <1>7
<1>10. \A x, y, z \in S: <<x, y>> \in before /\ <<y, z>> \in before => <<x, z>> \in before
  BY <1>5, <1>7
<1>11. Orders(before, S)
  BY <1>8, <1>9, <1>10 DEF Orders
<1>12. Sorts(o, S, before)
  BY <1>11, InOrderSorts
<1> HIDE DEF o
<1>13. /\ n \in Nat /\ o \in [1..n -> S] /\ \A x \in S: \E k \in 1..n: o[k] = x
       /\ \A j, k \in 1..n: (o[j] = o[k] => j = k) /\ (j < k <=> <<o[j], o[k]>> \in before)
  BY <1>12 DEF Sorts
<1> HIDE DEF n
<1>14. o \in Bijection(1..n, S)
  BY <1>13 DEF Bijection, Injection, Surjection, IsInjective
<1>15. ASSUME NEW i \in 1..n, NEW j \in 1..n, i < j
       PROVE  calls[o[i]] >= calls[o[j]]
  <2>1. o[i] \in S /\ o[j] \in S /\ <<o[i], o[j]>> \in before
    BY <1>13, <1>15
  <2> QED BY <1>5, <2>1
<1>16. DOMAIN o = 1..n
  BY <1>13
<1> QED BY <1>14, <1>15, <1>16 DEF n

(* What is not negative after all.                                           *)
LEMMA PositiveType == \A x \in Int: Positive(x) \in Nat
<1> SUFFICES ASSUME NEW x \in Int PROVE Positive(x) \in Nat
  OBVIOUS
<1>1. \E z \in {x, 0}: \A y \in {x, 0}: z >= y
  OBVIOUS
<1>2. Positive(x) \in {x, 0} /\ \A y \in {x, 0}: Positive(x) >= y
  BY <1>1 DEF Positive, Greatest
<1> QED BY <1>2

(* The rows that the browser analyses: merged, and subtracted if it can be.  *)
RowsOf(doc, prev) ==
  IF docHasLatencyHistograms(prev)
  THEN deltaLatencyHistograms(mergeLatencyHistograms(doc), mergeLatencyHistograms(prev))
  ELSE mergeLatencyHistograms(doc)

LEMMA RowsType ==
  ASSUME NEW doc, IsDoc(doc), NEW prev, IsDoc(prev)
  PROVE  /\ IsFiniteSet(DOMAIN RowsOf(doc, prev))
         /\ \A s \in DOMAIN RowsOf(doc, prev):
              RowsOf(doc, prev)[s].calls \in Int /\ IsHistogram(RowsOf(doc, prev)[s].buckets)
<1> DEFINE cur == mergeLatencyHistograms(doc)
           old == mergeLatencyHistograms(prev)
           delta == deltaLatencyHistograms(cur, old)
           before(s) == IF s \in DOMAIN old THEN old[s] ELSE NoHistogram
           gained(s) == [b \in 0..NB |-> Positive(cur[s].buckets[b] - before(s).buckets[b])]
<1>1. MergedKeys(doc) \subseteq Stmt /\ IsFiniteSet(Stmt)
  BY MergedTable, StatementsAssumption
<1>2. DOMAIN cur = MergedKeys(doc) /\ DOMAIN old = MergedKeys(prev)
  BY MergedHistograms
<1>3. ASSUME NEW s \in MergedKeys(doc)
      PROVE  /\ cur[s].calls \in Int /\ IsHistogram(cur[s].buckets)
             /\ before(s).calls \in Int /\ IsHistogram(before(s).buckets)
  <2>1. s \in Stmt
    BY <1>1
  <2>2. /\ cur[s] = [calls |-> Calls(doc, s), buckets |-> Hist(doc, s)]
        /\ before(s) = [calls |-> Calls(prev, s), buckets |-> Hist(prev, s)]
    BY <1>2, <2>1, MergedHistograms
  <2>3. Calls(doc, s) \in Int /\ Calls(prev, s) \in Int
    BY <2>1, TotalType
  <2>4. \A b \in 0..NB: Hist(doc, s)[b] \in Nat /\ Hist(prev, s)[b] \in Nat
    BY <2>1, HistSum
  <2>5. IsHistogram(Hist(doc, s)) /\ IsHistogram(Hist(prev, s))
    BY <2>4 DEF Hist, IsHistogram
  <2> HIDE DEF cur, before
  <2> QED BY <2>2, <2>3, <2>5
<1>4. /\ DOMAIN delta \subseteq DOMAIN cur
      /\ \A s \in DOMAIN delta:
           delta[s] = [calls |-> Positive(cur[s].calls - before(s).calls), buckets |-> gained(s)]
  <2> HIDE DEF cur, old
  <2> QED BY DEF deltaLatencyHistograms
<1> HIDE DEF cur, before, delta
<1>5. ASSUME NEW s \in DOMAIN delta
      PROVE  delta[s].calls \in Int /\ IsHistogram(delta[s].buckets)
  <2>1. s \in MergedKeys(doc)
    BY <1>2, <1>4
  <2>2. cur[s].calls - before(s).calls \in Int
    BY <1>3, <2>1
  <2>3. \A b \in 0..NB: cur[s].buckets[b] - before(s).buckets[b] \in Int
    <3> DEFINE f == cur[s].buckets
               g == before(s).buckets
    <3>1. IsHistogram(f) /\ IsHistogram(g)
      BY <1>3, <2>1
    <3> HIDE DEF f, g
    <3>2. \A b \in 0..NB: f[b] \in Nat /\ g[b] \in Nat
      BY <3>1 DEF IsHistogram
    <3>3. \A b \in 0..NB: f[b] - g[b] \in Int
      BY <3>2
    <3> QED BY <3>3 DEF f, g
  <2>4. Positive(cur[s].calls - before(s).calls) \in Nat /\ IsHistogram(gained(s))
    BY <2>2, <2>3, PositiveType DEF IsHistogram
  <2> HIDE DEF gained
  <2> QED BY <1>4, <2>4
<1>6. IsFiniteSet(DOMAIN cur) /\ IsFiniteSet(DOMAIN delta)
  BY <1>1, <1>2, <1>4, FS_Subset
<1> QED BY <1>2, <1>3, <1>5, <1>6 DEF RowsOf, cur, delta

(* Bc is a number, whatever the histogram.                                   *)
BcIsNumber == \A h \in [0..NB -> Nat]: Bc(h) \in Int

(* Both analyses give results.                                               *)
LEMMA AnalysesAreResults ==
  ASSUME BcIsNumber, NEW doc, IsDoc(doc), NEW prev, IsDoc(prev),
         NEW sidecar \in Sidecars \cup {NoAnalysis}
  PROVE  IsResults(analyzeLatencyDoc(doc, prev, sidecar))
<1> DEFINE delta == docHasLatencyHistograms(prev)
           rows == RowsOf(doc, prev)
           S == DOMAIN rows
           n == Cardinality(S)
           byCalls == CHOOSE o \in Bijection(1..Cardinality(DOMAIN rows), DOMAIN rows):
                        \A i, j \in DOMAIN o: i < j => rows[o[i]].calls >= rows[o[j]].calls
           d(s) == detectModesJS(rows[s].buckets)
           result(s) == [id |-> s, template |-> Template[s], flag |-> d(s).flag, dip |-> d(s).dip,
                         bc |-> d(s).bc, tier |-> histTierOf(d(s).flag, d(s).dip)]
           found == [i \in DOMAIN byCalls |-> result(byCalls[i])]
<1>1. analyzeLatencyDoc(doc, prev, sidecar) =
        IF sidecar # NoAnalysis
        THEN IF delta /\ "delta" \in DOMAIN sidecar THEN sidecar.delta ELSE sidecar.cumulative
        ELSE found
  BY Zenon DEF analyzeLatencyDoc, RowsOf
<1>2. CASE sidecar # NoAnalysis
  <2> DEFINE f == IF delta /\ "delta" \in DOMAIN sidecar THEN "delta" ELSE "cumulative"
             rs == sidecar[f]
  <2>1. sidecar \in Sidecars /\ f \in DOMAIN sidecar
    BY <1>2, SidecarsAssumption
  <2>2. IsResults(rs)
    BY <2>1, SidecarsAssumption DEF IsResults
  <2>3. rs = IF delta /\ "delta" \in DOMAIN sidecar THEN sidecar.delta ELSE sidecar.cumulative
    OBVIOUS
  <2> HIDE DEF rs, found
  <2> QED BY <1>1, <1>2, <2>2, <2>3
<1>3. IsFiniteSet(S) /\ \A s \in S: rows[s].calls \in Int /\ IsHistogram(rows[s].buckets)
  BY RowsType
<1> HIDE DEF rows
<1>4. byCalls \in Bijection(1..n, S)
  <2> DEFINE calls == [s \in S |-> rows[s].calls]
  <2>1. \A s \in S: calls[s] \in Int
    BY <1>3
  <2>2. \E o \in Bijection(1..n, S): \A i, j \in DOMAIN o: i < j => calls[o[i]] >= calls[o[j]]
    BY <1>3, <2>1, ByCallsExists
  <2>3. PICK o \in Bijection(1..n, S): \A i, j \in DOMAIN o: i < j => calls[o[i]] >= calls[o[j]]
    BY <2>2
  <2>4. \A i \in DOMAIN o: o[i] \in S
    BY DEF Bijection, Injection
  <2>5. \A i, j \in DOMAIN o: i < j => rows[o[i]].calls >= rows[o[j]].calls
    BY <2>3, <2>4
  <2> QED BY <2>5
<1> HIDE DEF byCalls
<1>5. /\ n \in Nat /\ DOMAIN byCalls = 1..n /\ IsFiniteSet(1..n)
      /\ \A i \in 1..n: byCalls[i] \in S
      /\ \A i, j \in 1..n: byCalls[i] = byCalls[j] => i = j
  <2> HIDE DEF S
  <2>1. n \in Nat
    BY <1>3, FS_CardinalityType
  <2>2. IsFiniteSet(1..n)
    BY <2>1, FS_Interval
  <2> HIDE DEF n
  <2>3. byCalls \in [1..n -> S] /\ \A i, j \in 1..n: byCalls[i] = byCalls[j] => i = j
    BY <1>4 DEF Bijection, Injection, IsInjective
  <2> QED BY <2>1, <2>2, <2>3
<1>6. ASSUME NEW s \in S
      PROVE  /\ d(s).dip = NoDip /\ d(s).bc \in Int
             /\ histTierOf(d(s).flag, d(s).dip) \in DOMAIN HIST_TIER_RANK
  <2> DEFINE h == rows[s].buckets
  <2>1. IsHistogram(h)
    BY <1>3
  <2> HIDE DEF h
  <2>2. Bc(h) \in Int
    BY <2>1 DEF BcIsNumber, IsHistogram
  <2>3. detectModesJS(h).dip = NoDip /\ detectModesJS(h).bc \in {Bc(h), 0}
    BY DEF detectModesJS
  <2>4. \A flag: histTierOf(flag, NoDip) \in {"not_flagged", "unconfirmed"}
    BY DEF histTierOf
  <2>5. {"not_flagged", "unconfirmed"} \subseteq DOMAIN HIST_TIER_RANK
    BY DEF HIST_TIER_RANK
  <2>6. d(s) = detectModesJS(h)
    BY DEF h
  <2> HIDE DEF d
  <2> QED BY <2>2, <2>3, <2>4, <2>5, <2>6
<1> HIDE DEF d, S, n
<1>7. DOMAIN found = 1..n
  BY <1>5
<1>8. \A i \in 1..n: /\ found[i].id = byCalls[i] /\ found[i].dip = d(byCalls[i]).dip
                     /\ found[i].bc = d(byCalls[i]).bc
                     /\ found[i].tier = histTierOf(d(byCalls[i]).flag, d(byCalls[i]).dip)
  BY <1>5
<1> HIDE DEF found
<1>9. \A i \in 1..n: /\ found[i].dip \in Nat \cup {NoDip} /\ found[i].bc \in Int
                     /\ found[i].tier \in DOMAIN HIST_TIER_RANK
  BY <1>5, <1>6, <1>8
<1>10. \A i, j \in 1..n: found[i].id = found[j].id => i = j
  BY <1>5, <1>8
<1>11. 1..n \subseteq Nat
  BY <1>5
<1>12. IsResults(found)
  BY <1>5, <1>7, <1>9, <1>10, <1>11 DEF IsResults
<1> QED BY <1>1, <1>2, <1>12

(* Whatever is filtered, the tab shows some of the results and their groups. *)
LEMMA RerenderKeepsTemplates ==
  ASSUME NEW rs, IsResults(rs), NEW tier, NEW flagged, Rerender(rs, tier, flagged)
  PROVE  TemplatesInv'
<1> DEFINE visible == Visible(rs, tier, flagged)
           stamped == rankByConfidence(rs, DOMAIN rs, ranks)
           last == rankByConfidence(rs, visible, stamped)
           o == Ordered(rs, visible)
           n == Cardinality(visible)
<1>1. visible \in SUBSET DOMAIN rs
  BY DEF Visible
<1>2. n \in Nat /\ o \in [1..n -> visible] /\ \A k \in 1..n: last[o[k]] = k
  BY <1>1, RankIsPlace
<1>3. results' = rs
  BY DEF Rerender
<1>4. table' = [k \in 1..n |-> [id |-> rs[o[k]].id, rank |-> k]]
  <2>1. table' = [k \in DOMAIN o |-> [id |-> rs[o[k]].id, rank |-> last[o[k]]]]
    BY DEF Rerender
  <2>2. DOMAIN o = 1..n
    BY <1>2
  <2> HIDE DEF o, n, last
  <2> QED BY <1>2, <2>1, <2>2
<1>5. recurring' = ByBest(Shown(rs, visible))
  <2>1. recurring' = ByBest({g \in groupByTemplate(rs, stamped):
                               /\ Len(g.members) > 1
                               /\ g.template \in {rs[i].template: i \in visible}})
    BY Zenon DEF Rerender
  <2>2. stamped = rankByConfidence(rs, DOMAIN rs, <<>>)
    BY RanksOfAll, Zenon
  <2> HIDE DEF stamped, visible
  <2> QED BY <2>1, <2>2, Zenon DEF Shown, AllGroups
<1> HIDE DEF visible
<1>6. FilteredTo(visible)'
  BY <1>3, <1>4, <1>5 DEF FilteredTo, visible
<1> QED BY <1>1, <1>3, <1>6 DEF TemplatesInv

LEMMA TemplatesInit == LatencyInit => TemplatesInv
<1> SUFFICES ASSUME LatencyInit PROVE TemplatesInv
  OBVIOUS
<1>1. results = <<>> /\ table = <<>> /\ recurring = <<>> /\ DOMAIN results = {}
  BY DEF LatencyInit
<1>2. IsResults(results)
  BY <1>1, FS_EmptySet DEF IsResults
<1>3. Cardinality({}) = 0 /\ 1..0 = {}
  BY FS_EmptySet
<1>4. Shown(results, {}) = {}
  BY DEF Shown
<1>5. ByBest({}) = <<>>
  BY <1>3 DEF ByBest, InOrder
<1>6. FilteredTo({})
  <2> DEFINE id(k) == results[Ordered(results, {})[k]].id
  <2> HIDE DEF id
  <2>1. [k \in 1..Cardinality({}) |-> [id |-> id(k), rank |-> k]] = <<>>
    BY <1>3
  <2> QED BY <1>1, <1>4, <1>5, <2>1, Zenon DEF FilteredTo, id
<1> QED BY <1>2, <1>6 DEF TemplatesInv

LEMMA TemplatesNext ==
  ASSUME BcIsNumber
  PROVE  IInv /\ TemplatesInv /\ [LatencyStep]_<<vars, latencyVars>> => TemplatesInv'
<1> SUFFICES ASSUME IInv, TemplatesInv, [LatencyStep]_<<vars, latencyVars>> PROVE TemplatesInv'
  OBVIOUS
<1>1. CASE UNCHANGED <<results, table, recurring>>
  BY <1>1 DEF TemplatesInv, FilteredTo
<1>2. ASSUME NEW b \in 0..NB, Take(b)
      PROVE  TemplatesInv'
  BY <1>1, <1>2 DEF Take
<1>3. ASSUME NEW sidecar \in Sidecars \cup {NoAnalysis}, RenderLatencyPanel(sidecar)
      PROVE  TemplatesInv'
  <2>1. IsDoc(newer) /\ IsDoc(older)
    BY DEF IInv, TypeOK
  <2>2. IsResults(analyzeLatencyDoc(newer, older, sidecar))
    BY <2>1, AnalysesAreResults
  <2> QED BY <1>3, <2>2, RerenderKeepsTemplates DEF RenderLatencyPanel
<1>4. ASSUME NEW tier, NEW flagged, SetFilters(tier, flagged)
      PROVE  TemplatesInv'
  <2>1. IsResults(results)
    BY DEF TemplatesInv
  <2> QED BY <1>4, <2>1, RerenderKeepsTemplates DEF SetFilters
<1>5. ASSUME NEW key, ClickHeader(key)
      PROVE  TemplatesInv'
  BY <1>1, <1>5 DEF ClickHeader
<1>6. UNCHANGED latencyVars => UNCHANGED <<results, table, recurring>>
  BY DEF latencyVars
<1> QED BY <1>1, <1>2, <1>3, <1>4, <1>5, <1>6 DEF LatencyStep, LatencyNext

(* What is shown is what filters must keep.                                  *)
LEMMA TemplatesInvariant == TemplatesInv => FiltersKeepTemplates
<1> SUFFICES ASSUME TemplatesInv PROVE FiltersKeepTemplates
  OBVIOUS
<1>1. IsResults(results)
  BY DEF TemplatesInv
<1>2. PICK visible \in SUBSET DOMAIN results: FilteredTo(visible)
  BY DEF TemplatesInv
<1> DEFINE rs == results
           all == AllGroups(rs)
           o == Ordered(rs, visible)
           n == Cardinality(visible)
           shown == {table[k].id: k \in DOMAIN table}
           contains(g, ids) == \E k \in DOMAIN g.members: g.members[k].id \in ids
           groups == {g \in all: Len(g.members) > 1 /\ contains(g, shown)}
<1>3. n \in Nat /\ o \in [1..n -> visible] /\ \A x \in visible: \E k \in 1..n: o[k] = x
  BY <1>1, OrderedSorts DEF Sorts
<1>4. DOMAIN table = 1..n /\ \A k \in 1..n: table[k].id = rs[o[k]].id /\ table[k].rank = k
  BY <1>2 DEF FilteredTo
<1>5. shown = {rs[i].id: i \in visible}
  <2> HIDE DEF o, n
  <2>1. ASSUME NEW x \in shown PROVE x \in {rs[i].id: i \in visible}
    <3>1. PICK k \in 1..n: x = table[k].id
      BY <1>4
    <3> QED BY <1>3, <1>4, <3>1
  <2>2. ASSUME NEW x \in {rs[i].id: i \in visible} PROVE x \in shown
    <3>1. PICK i \in visible: x = rs[i].id
      OBVIOUS
    <3>2. PICK k \in 1..n: o[k] = i
      BY <1>3
    <3> QED BY <1>4, <3>1, <3>2
  <2> QED BY <2>1, <2>2
<1>6. recurring = ByBest(groups)
  <2>1. recurring = ByBest(Shown(rs, visible))
    BY <1>2 DEF FilteredTo
  <2> HIDE DEF shown
  <2>2. \A g \in all: contains(g, shown) <=> g.template \in {rs[i].template: i \in visible}
    BY <1>1, <1>5, ContainsVisible
  <2> HIDE DEF contains, all
  <2>3. Shown(rs, visible) = groups
    BY <2>2 DEF Shown, all
  <2> QED BY <2>1, <2>3
<1> HIDE DEF shown
<1>7. ASSUME NEW i \in DOMAIN recurring
      PROVE  CellKeeps(recurring[i].members, recurring[i].tier)
  <2> DEFINE g == recurring[i]
             r == rankByConfidence(rs, DOMAIN rs, <<>>)
  <2>1. g \in all
    <3>1. groups \in SUBSET groupByTemplate(rs, rankByConfidence(rs, DOMAIN rs, <<>>))
      BY DEF AllGroups
    <3> HIDE DEF groups
    <3>2. recurring \in [1..Cardinality(groups) -> groups]
      BY <1>1, <1>6, <3>1, GroupsSorted
    <3>3. g \in groups
      BY <3>2
    <3> QED BY <3>3 DEF groups
  <2>2. PICK j \in DOMAIN rs: g = Group(rs, r, rs[j].template)
    BY <2>1 DEF AllGroups, groupByTemplate, Group, OfTemplate
  <2> DEFINE S == OfTemplate(rs, rs[j].template)
             m == Cardinality(S)
             p == Ordered(rs, S)
             ids == [k \in 1..m |-> rs[p[k]].id]
             tiers == [k \in 1..m |-> rs[p[k]].tier]
  <2>3. S \in SUBSET DOMAIN rs /\ j \in S
    BY DEF OfTemplate
  <2>4. m \in Nat /\ p \in [1..m -> S] /\ \A x \in S: \E k \in 1..m: p[k] = x
    BY <1>1, <2>3, OrderedSorts DEF Sorts
  <2>5. m > 0 /\ DOMAIN p = 1..m
    BY <2>3, <2>4
  <2>6. g.tier = rs[p[1]].tier
        /\ g.members = [k \in DOMAIN p |-> [id |-> rs[p[k]].id, tier |-> rs[p[k]].tier, rank |-> k]]
    BY <2>2 DEF Group
  <2> HIDE DEF p, m, S, g
  <2>7. g.members = [k \in 1..m |-> [id |-> ids[k], tier |-> tiers[k], rank |-> k]]
    BY <2>5, <2>6
  <2>8. \A k \in 1..m: tiers[k] \in DOMAIN HIST_TIER_RANK
    BY <1>1, <2>3, <2>4 DEF IsResults
  <2>9. g.tier = tiers[1]
    BY <2>4, <2>5, <2>6
  <2> HIDE DEF ids, tiers
  <2> DEFINE members == g.members
  <2>10. members = [k \in 1..m |-> [id |-> ids[k], tier |-> tiers[k], rank |-> k]]
    BY <2>7
  <2> HIDE DEF members
  <2>11. CellKeeps(members, tiers[1])
    BY <2>4, <2>5, <2>8, <2>10, CellKeepsMembers
  <2> QED BY <2>9, <2>11 DEF members, g
<1>8. \A k \in DOMAIN table: table[k].rank = k
  BY <1>4
<1> QED BY <1>6, <1>7, <1>8, Zenon DEF FiltersKeepTemplates, CellKeeps, AllGroups, shown

(* README.md:88: whatever the analyses are and whatever is filtered and      *)
(* clicked, the filters change which templates are seen, and not what they   *)
(* contain.                                                                  *)
THEOREM FiltersChooseTemplates ==
  ASSUME BcIsNumber
  PROVE  LatencySpec => []FiltersKeepTemplates
<1>1. Init /\ LatencyInit => IInv /\ TemplatesInv
  BY IInvInit, TemplatesInit
<1>2. IInv /\ TemplatesInv /\ [LatencyStep]_<<vars, latencyVars>> => (IInv /\ TemplatesInv)'
  <2>1. [LatencyStep]_<<vars, latencyVars>> => [Next]_vars
    BY DEF LatencyStep
  <2> QED BY <2>1, IInvNext, TemplatesNext
<1>3. IInv /\ TemplatesInv => FiltersKeepTemplates
  BY TemplatesInvariant
<1> QED BY <1>1, <1>2, <1>3, PTL DEF LatencySpec, LatencyStep
=============================================================================
