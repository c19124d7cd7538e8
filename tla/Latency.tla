------------------------------- MODULE Latency -------------------------------
(* The Latency modes tab (web/app.js): the histograms of the statements of   *)
(* two documents, merged and subtracted as the statements are; the search    *)
(* for several modes in one; the tables, their ranks and filters.            *)
(*                                                                           *)
(* Bucket 0 is the open-ended one; the others follow each other in time.     *)
(* Midpoints are whole units of time on a logarithmic scale; the bimodality  *)
(* coefficient, a float, is any function of the histogram.                   *)
EXTENDS Statements, Sequences, SequencesExt, TLC

CONSTANTS
  Mid,            \* bucket -> log2Mid
  PerWidth,       \* bucket -> 1 / its width on that scale, in any unit
  Kernel,         \* distance -> weight of the Gaussian
  Bc(_),          \* bimodalityCoefficient, in thousandths
  MinCalls,       \* opts.minCalls
  MinSeparation,  \* opts.minOctaveSeparation
  Sidecars,       \* external: analyses that `ybtop watch` may have written
  NoAnalysis,
  NoDip,          \* null
  MaxPerBucket    \* bound: calls of the free histogram in a bucket

Least(S) == CHOOSE x \in S: \A y \in S: x <= y
Greatest(S) == CHOOSE x \in S: \A y \in S: x >= y
Radius == Greatest(DOMAIN Kernel)
Histogram == [0..NB -> 0..MaxPerBucket]
MinTier == {"very_high", "high", "moderate", "unconfirmed", "all"}

ASSUME LatencyAssumption ==
  /\ Mid \in Seq(Nat) /\ Len(Mid) = NB /\ \A b \in 2..NB: Mid[b - 1] < Mid[b]
  /\ PerWidth \in [1..NB -> Nat \ {0}]
  /\ {MinCalls, MinSeparation, MaxPerBucket, Radius} \subseteq Nat
  /\ Kernel \in [0..Radius -> Nat]

VARIABLES
  histogram,    \* external: the histogram of one statement, any that there may be
  results,      \* analysis.results of the tab
  ranks,        \* the confidence_rank last written into each of them
  minTier, flaggedOnly,
  table,        \* rows of the main table, best first
  recurring,    \* rows of Recurring query templates
  sort          \* the column of recurring that was clicked, and its direction

latencyVars == <<histogram, results, ranks, minTier, flaggedOnly, table, recurring, sort>>

-----------------------------------------------------------------------------
(* Histograms of a document                                                  *)

Positive(x) == Greatest({x, 0})

mergeLatencyHistograms(doc) ==
  [s \in MergedKeys(doc) |->
     [calls |-> SumFunction([n \in DOMAIN doc |-> RowOn(doc, n, s).calls]),
      buckets |-> [b \in 0..NB |->
                     SumFunction([n \in DOMAIN doc |-> RowOn(doc, n, s).buckets[b]])]]]

NoHistogram == [calls |-> 0, buckets |-> [b \in 0..NB |-> 0]]

deltaLatencyHistograms_Unclamped(cur, prev) ==
  LET before(s) == IF s \in DOMAIN prev THEN prev[s] ELSE NoHistogram
      gained(s) == [b \in 0..NB |-> cur[s].buckets[b] - before(s).buckets[b]]
  IN [s \in {t \in DOMAIN cur: gained(t) # NoHistogram.buckets} |->
        [calls |-> Positive(cur[s].calls - before(s).calls), buckets |-> gained(s)]]

(* Only buckets that gained; a row without any is dropped.                   *)
deltaLatencyHistograms(cur, prev) ==
  LET before(s) == IF s \in DOMAIN prev THEN prev[s] ELSE NoHistogram
      gained(s) == [b \in 0..NB |-> Positive(cur[s].buckets[b] - before(s).buckets[b])]
  IN [s \in {t \in DOMAIN cur: CallsOf(gained(t)) > 0} |->
        [calls |-> Positive(cur[s].calls - before(s).calls), buckets |-> gained(s)]]

docHasLatencyHistograms(doc) == MergedKeys(doc) # {}

-----------------------------------------------------------------------------
(* S sorted: before is the set of the pairs that are in order.               *)
InOrder(S, before) ==
  [k \in 1..Cardinality(S) |->
     CHOOSE x \in S: Cardinality({y \in S: <<y, x>> \in before}) = k - 1]

(* detectModesJS.  rows are the finite buckets with calls, so that neighbours*)
(* in what follows need not be neighbours in time.                           *)

Faster == {pq \in (1..NB) \X (1..NB): pq[1] < pq[2]}
parseHistogramBuckets(h) == InOrder({b \in 1..NB: h[b] > 0}, Faster)

(* Half-sample symmetric, as often as needed: c b a | a b c | c b a.         *)
Reflected_Nearest(i, n) == IF i < 0 THEN 0 ELSE IF i >= n THEN n - 1 ELSE i
Reflected(i, n) ==
  LET m == i % (2 * n) IN IF m < n THEN m ELSE 2 * n - 1 - m

gaussianFilter1d(y) ==
  [i \in 1..Len(y) |->
     SumFunction([j \in (-Radius)..Radius |->
                    y[1 + Reflected(i - 1 + j, Len(y))] * Kernel[Abs(j)]])]

(* Down to the higher of the lowest points that are reached, to the left and *)
(* to the right, without touching the height again.                          *)
peakProminence(y, p) ==
  LET left == {l \in 1..(p - 1): \A k \in l..(p - 1): y[k] < y[p]}
      right == {r \in (p + 1)..Len(y): \A k \in (p + 1)..r: y[k] < y[p]}
      lowest(S) == IF S = {} THEN y[p] ELSE Least({y[k]: k \in S})
  IN y[p] - Greatest({lowest(left), lowest(right)})

Taller(y) ==
  {pq \in (DOMAIN y) \X (DOMAIN y):
     y[pq[1]] > y[pq[2]] \/ (y[pq[1]] = y[pq[2]] /\ pq[1] < pq[2])}

(* Of candidates, one after another, those that none kept before is close to.*)
Spaced(candidates, distance) ==
  LET kept[k \in 0..Len(candidates)] ==
        IF k = 0 THEN {}
        ELSE LET p == candidates[k]
             IN IF \E q \in kept[k - 1]: Abs(p - q) < distance THEN kept[k - 1]
                ELSE kept[k - 1] \cup {p}
  IN kept[Len(candidates)]

(* Prominent rises, those too close to a taller one left out.                *)
findPeaks(y, distance) ==
  LET prominent(p) == 100 * peakProminence(y, p) >= 3 * Greatest({y[i]: i \in DOMAIN y})
      rises(p) == y[p] > y[p - 1] /\ y[p] >= y[p + 1]
      candidates == {p \in 2..(Len(y) - 1): rises(p) /\ prominent(p)}
  IN Spaced(InOrder(candidates, Taller(y)), distance)

histTierOf(flag, dip) ==
  IF ~flag THEN "not_flagged"
  ELSE IF dip = NoDip THEN "unconfirmed"
  ELSE IF dip <= 1 THEN "very_high"
  ELSE IF dip <= 10 THEN "high" ELSE "moderate"

(* Peaks next to each other whose valley, in calls, is deep enough.          *)
ValidPairs(h, rows, peaks) ==
  {pq \in peaks \X peaks:
     LET p == pq[1]  q == pq[2]
         smaller == Least({h[rows[p]], h[rows[q]]})
         valley == Least({h[rows[i]]: i \in p..q})
     IN /\ p < q /\ \A r \in peaks: ~(p < r /\ r < q)
        /\ Mid[rows[q]] - Mid[rows[p]] >= MinSeparation
        /\ 4 * valley <= 3 * smaller}

PeaksOf(h) ==
  LET rows == parseHistogramBuckets(h)
      smoothed == gaussianFilter1d([i \in DOMAIN rows |-> h[rows[i]] * PerWidth[rows[i]]])
      \* Math.round(minOctaveSeparation / avgSpacing)
      span == Mid[rows[Len(rows)]] - Mid[rows[1]]
      distance == (2 * MinSeparation * (Len(rows) - 1) + span) \div (2 * span)
  IN IF Len(rows) < 3 THEN {} ELSE findPeaks(smoothed, Greatest({1, distance}))

detectModesJS(h) ==
  LET rows == parseHistogramBuckets(h)
      calls == CallsOf(h) - h[0]
      passes == calls >= MinCalls /\ Bc(h) >= 555
      peaks == IF passes THEN PeaksOf(h) ELSE {}
      pairs == ValidPairs(h, rows, peaks)
  IN [calls |-> calls, flag |-> pairs # {}, dip |-> NoDip,
      bc |-> IF calls >= MinCalls THEN Bc(h) ELSE 0,
      peaks |-> Cardinality(peaks),
      pairs |-> {<<rows[pq[1]], rows[pq[2]]>>: pq \in pairs}]

-----------------------------------------------------------------------------
(* The tab.  A result is a record with an id (queryid and database), its      *)
(* canonical text and what was detected.                                     *)

(* What the watcher analysed if it did, with a delta only for a document that*)
(* has a predecessor with histograms; otherwise what the browser finds.      *)
analyzeLatencyDoc(doc, prev, sidecar) ==
  LET cur == mergeLatencyHistograms(doc)
      delta == docHasLatencyHistograms(prev)
      rows == IF delta THEN deltaLatencyHistograms(cur, mergeLatencyHistograms(prev)) ELSE cur
      byCalls == CHOOSE o \in Bijection(1..Cardinality(DOMAIN rows), DOMAIN rows):
                   \A i, j \in DOMAIN o: i < j => rows[o[i]].calls >= rows[o[j]].calls
      result(s) == LET d == detectModesJS(rows[s].buckets)
                   IN [id |-> s, template |-> Template[s], flag |-> d.flag, dip |-> d.dip,
                       bc |-> d.bc, tier |-> histTierOf(d.flag, d.dip)]
  IN IF sidecar # NoAnalysis
     THEN IF delta /\ "delta" \in DOMAIN sidecar THEN sidecar.delta ELSE sidecar.cumulative
     ELSE [i \in DOMAIN byCalls |-> result(byCalls[i])]

(* dip_p ascending, none last; then bc descending; ties as they come (code   *)
(* breaks those of a template by queryid).                                   *)
Stronger(rs, i, j) ==
  LET dip(k) == IF rs[k].dip = NoDip THEN 1000 ELSE rs[k].dip
  IN \/ dip(i) < dip(j)
     \/ dip(i) = dip(j) /\ rs[i].bc > rs[j].bc
     \/ dip(i) = dip(j) /\ rs[i].bc = rs[j].bc /\ i < j

Ordered(rs, S) == InOrder(S, {ij \in S \X S: Stronger(rs, ij[1], ij[2])})

(* The ranks, with those of S written over: a result's place in the order.   *)
rankByConfidence(rs, S, ranked) ==
  [i \in DOMAIN rs |->
     IF i \in S THEN 1 + Cardinality({j \in S: Stronger(rs, j, i)}) ELSE ranked[i]]

(* One group per canonical text, across databases.                           *)
groupByTemplate(rs, ranked) ==
  LET group(t) ==
        LET order == Ordered(rs, {i \in DOMAIN rs: rs[i].template = t})
            best == order[1]
        IN [template |-> t, best |-> ranked[best], tier |-> rs[best].tier,
            members |-> [k \in DOMAIN order |->
                           LET i == order[k] IN [id |-> rs[i].id, tier |-> rs[i].tier, rank |-> k]]]
  IN {group(rs[i].template): i \in DOMAIN rs}

(* By the rank of the best.                                                  *)
ByBest(groups) == InOrder(groups, {gh \in groups \X groups: gh[1].best < gh[2].best})

HIST_TIER_RANK ==
  [not_flagged |-> 0, unconfirmed |-> 1, moderate |-> 2, high |-> 3, very_high |-> 4, all |-> 0]

(* Sidecars hold results, and a row for each statement.                      *)
ASSUME SidecarsAssumption ==
  \A sidecar \in Sidecars: "cumulative" \in DOMAIN sidecar /\ \A f \in DOMAIN sidecar:
    LET rs == sidecar[f]
    IN /\ IsFiniteSet(DOMAIN rs) /\ DOMAIN rs \subseteq Nat
       /\ \A i \in DOMAIN rs: /\ rs[i].dip \in Nat \cup {NoDip} /\ rs[i].bc \in Int
                              /\ rs[i].tier \in DOMAIN HIST_TIER_RANK
       /\ \A i, j \in DOMAIN rs: rs[i].id = rs[j].id => i = j

Visible(rs, tier, flagged) ==
  {i \in DOMAIN rs: (flagged => rs[i].flag) /\ HIST_TIER_RANK[rs[i].tier] >= HIST_TIER_RANK[tier]}

(* Groups by the ranks that the table left behind.                           *)
Rerender_Filtered(rs, tier, flagged) ==
  LET visible == Visible(rs, tier, flagged)
      stamped == rankByConfidence(rs, visible, rankByConfidence(rs, DOMAIN rs, ranks))
      order == Ordered(rs, visible)
      templates == {rs[i].template: i \in visible}
  IN /\ results' = rs /\ ranks' = stamped
     /\ table' = [k \in DOMAIN order |-> [id |-> rs[order[k]].id, rank |-> stamped[order[k]]]]
     /\ recurring' = ByBest({g \in groupByTemplate(rs, stamped):
                               Len(g.members) > 1 /\ g.template \in templates})
     /\ minTier' = tier /\ flaggedOnly' = flagged
     /\ sort' = [key |-> "best_tier", dir |-> "desc"]

(* Ranks among all for the groups; then among the visible rows, in the same  *)
(* objects.  (Merge similar SQL is on; without it recurring stays empty.)    *)
Rerender(rs, tier, flagged) ==
  LET stamped == rankByConfidence(rs, DOMAIN rs, ranks)
      visible == Visible(rs, tier, flagged)
      order == Ordered(rs, visible)
      templates == {rs[i].template: i \in visible}
  IN /\ results' = rs /\ ranks' = rankByConfidence(rs, visible, stamped)
     /\ table' = [k \in DOMAIN order |-> [id |-> rs[order[k]].id, rank |-> ranks'[order[k]]]]
     /\ recurring' = ByBest({g \in groupByTemplate(rs, stamped):
                               Len(g.members) > 1 /\ g.template \in templates})
     /\ minTier' = tier /\ flaggedOnly' = flagged
     /\ sort' = [key |-> "best_tier", dir |-> "desc"]

LatencyInit ==
  /\ histogram = [b \in 0..NB |-> 0]
  /\ results = <<>> /\ ranks = <<>> /\ table = <<>> /\ recurring = <<>>
  /\ minTier = "high" /\ flaggedOnly = FALSE
  /\ sort = [key |-> "best_tier", dir |-> "desc"]

(* External: a call ends.                                                    *)
Take(b) ==
  /\ histogram[b] < MaxPerBucket
  /\ histogram' = [histogram EXCEPT ![b] = @ + 1]
  /\ UNCHANGED <<results, ranks, minTier, flaggedOnly, table, recurring, sort>>

RenderLatencyPanel(sidecar) ==
  /\ results = <<>> /\ docHasLatencyHistograms(newer)
  /\ Rerender(analyzeLatencyDoc(newer, older, sidecar), minTier, flaggedOnly)
  /\ UNCHANGED histogram

SetFilters(tier, flagged) ==
  /\ results # <<>>
  /\ Rerender(results, tier, flagged)
  /\ UNCHANGED histogram

(* A header of Recurring query templates.                                    *)
ClickHeader(key) ==
  /\ recurring # <<>>
  /\ sort' = [key |-> key,
              dir |-> IF sort.key # key THEN IF key = "best_tier" THEN "desc" ELSE "asc"
                      ELSE IF sort.dir = "asc" THEN "desc" ELSE "asc"]
  /\ UNCHANGED <<histogram, results, ranks, minTier, flaggedOnly, table, recurring>>

LatencyNext ==
  \/ \E b \in 0..NB: Take(b)
  \/ \E sidecar \in Sidecars \cup {NoAnalysis}: RenderLatencyPanel(sidecar)
  \/ \E tier \in MinTier, flagged \in BOOLEAN: SetFilters(tier, flagged)
  \/ \E key \in {"best_tier", "query"}: ClickHeader(key)

(* The tab on the documents of Statements.                                   *)
LatencySpec ==
  /\ Init /\ LatencyInit
  /\ [][\/ Next /\ UNCHANGED latencyVars
        \/ LatencyNext /\ UNCHANGED vars]_<<vars, latencyVars>>

(* The members in a cell of that table: by tier if it is sorted by tier.     *)
orderTemplateMembers(members) ==
  LET level(k) == HIST_TIER_RANK[members[k].tier]
      before(i, j) == \/ IF sort.dir = "asc" THEN level(i) < level(j) ELSE level(i) > level(j)
                      \/ level(i) = level(j) /\ members[i].rank < members[j].rank
      order == InOrder(DOMAIN members,
                       {ij \in (DOMAIN members) \X (DOMAIN members): before(ij[1], ij[2])})
      ordered == [k \in DOMAIN order |-> members[order[k]]]
  IN IF sort.key # "best_tier" THEN members
     ELSE [k \in DOMAIN ordered |-> [ordered[k] EXCEPT !.rank = k]]

-----------------------------------------------------------------------------
(* Properties                                                                *)

(* The histogram of the tab, merged and subtracted bucket by bucket, is that *)
(* of the calls executed between two documents that have all the rows of the *)
(* statement, if no node forgot it.  A reset between them empties buckets and*)
(* makes none more than what was executed; whatever was reset or left the    *)
(* list, a loss in one bucket never hides a call in another: the histogram   *)
(* has at least the calls of the statement's row in the table.               *)
DeltaHistogramIsTruth ==
  LET rows == deltaLatencyHistograms(mergeLatencyHistograms(newer), mergeLatencyHistograms(older))
      shown(s) == IF s \in DOMAIN rows THEN rows[s] ELSE NoHistogram
  IN docs >= 2 =>
       /\ \A s \in Stmt \ blurred:
            shown(s) = [calls |-> window[s].calls, buckets |-> window[s].buckets]
       /\ \A s \in Stmt \ unlisted, b \in 0..NB:
            shown(s).buckets[b] \in 0..window[s].buckets[b]
       /\ \A s \in DOMAIN Merged: CallsOf(shown(s).buckets) >= CallsIn(Rows, s)

(* Times of calls with one mode: they become more, then fewer.               *)
Unimodal(h) ==
  \E top \in 1..NB: \A b \in 2..NB: IF b <= top THEN h[b - 1] <= h[b] ELSE h[b - 1] >= h[b]

(* app.js:3725: smoothing moves calls between buckets and neither loses nor  *)
(* doubles any at the ends; of the peaks kept no two are closer than the     *)
(* distance, and a rise is left out only for a neighbour at least as high;   *)
(* what is flagged has two modes, with less than three quarters of the lower *)
(* between them, and is never one hill.                                      *)
ModesAreModes ==
  LET found == detectModesJS(histogram)
      rows == parseHistogramBuckets(histogram)
      y == [i \in DOMAIN rows |-> histogram[rows[i]]]
      smoothed == gaussianFilter1d(y)
      weight == SumFunction([j \in DOMAIN Kernel |-> IF j = 0 THEN Kernel[0] ELSE 2 * Kernel[j]])
  IN /\ SumFunction(smoothed) = weight * SumFunction(y)
     /\ \A d \in {2, 4}:
          LET kept == findPeaks(smoothed, d)
          IN /\ \A p, q \in kept: p # q => Abs(p - q) >= d
             /\ \A p \in findPeaks(smoothed, 1) \ kept:
                  \E q \in kept: Abs(p - q) < d /\ smoothed[q] >= smoothed[p]
     /\ \A pair \in found.pairs:
          \E b \in pair[1]..pair[2]:
            histogram[b] > 0 /\ histogram[b] < histogram[pair[1]] /\ histogram[b] < histogram[pair[2]]
     /\ Unimodal(histogram) => ~found.flag

(* README.md:88, the filters "change which templates you see, never what a   *)
(* template contains": after any filters the recurring templates are those   *)
(* of all the analysed statements that a visible row belongs to, in the order*)
(* and with the members that all the statements give, while the rows of the  *)
(* table are ranked from one; and whichever column is clicked, a cell lists  *)
(* each member once, numbered from one, by tier if sorted by tier.           *)
FiltersKeepTemplates ==
  LET all == groupByTemplate(results, rankByConfidence(results, DOMAIN results, <<>>))
      shown == {table[k].id: k \in DOMAIN table}
      contains(g, ids) == \E k \in DOMAIN g.members: g.members[k].id \in ids
  IN /\ recurring = ByBest({g \in all: Len(g.members) > 1 /\ contains(g, shown)})
     /\ \A k \in DOMAIN table: table[k].rank = k
     /\ \A i \in DOMAIN recurring:
          LET members == recurring[i].members
              cell == orderTemplateMembers(members)
          IN /\ {cell[k].id: k \in DOMAIN cell} = {members[k].id: k \in DOMAIN members}
             /\ \A k \in DOMAIN cell: cell[k].rank = k
             /\ sort.key = "best_tier" /\ sort.dir = "desc" =>
                  HIST_TIER_RANK[cell[1].tier] >= HIST_TIER_RANK[recurring[i].tier]
=============================================================================
