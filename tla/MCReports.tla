----------------------------- MODULE MCReports ------------------------------
(* Statements, Ash and Latency for TLC.  A document of few calls is looked at*)
(* with ASH samples: two ids of one shape, one of which only TServer waits   *)
(* have; YCQL, background work and a session without query.  Another one is  *)
(* looked at in the Latency tab, as the browser analyses it and as a watcher *)
(* may have: four statements of two shapes.  The histogram that is searched  *)
(* for modes grows while nothing has been executed.                          *)
EXTENDS MCStatements, Ash, Latency

CONSTANTS rows1, items1, null, MaxListed

MCTableOf     == rows1 :> "orders" @@ items1 :> "items"
MCNamespaceOf == [orders |-> "shop", items |-> "ks"]
MCDbName      == 16384 :> "shop" @@ 0 :> null
MCRawText     == [q1 |-> "orders $1", q2 |-> "orders $1, $2", q7 |-> "flush"]

Kind(qid, component, event, aux, dbid) ==
  [qid |-> qid, component |-> component, event |-> event, aux |-> aux, dbid |-> dbid]
MCSession ==
  {Kind("q1", "YSQL", "read", rows1, 16384),
   Kind("q2", "YSQL", "read", rows1, 16384),
   Kind("q2", "YSQL", "cpu", null, 16384),
   Kind("q9", "YCQL", "write", "items", 0),
   Kind("q7", "TServer", "write", items1, 0),
   Kind(null, "TServer", "write", null, 0)}

MCNodeItself == [n \in MCNode |-> n]

MCMid      == <<1, 3, 4, 5, 6, 7>>
MCPerWidth == <<1, 2, 2, 2, 2, 2>>
MCKernel   == 0 :> 1000 @@ 1 :> 607 @@ 2 :> 135 @@ 3 :> 11 @@ 4 :> 0
MCBc(h)    == IF Cardinality({b \in 1..6: h[b] > 0}) > 1 THEN 600 ELSE 0

Result(id, template, verdict) ==
  [id |-> id, template |-> template, flag |-> verdict[1], dip |-> verdict[2],
   bc |-> verdict[3], tier |-> histTierOf(verdict[1], verdict[2])]
Verdicts == {<<TRUE, 0, 700>>, <<TRUE, null, 600>>, <<FALSE, 300, 650>>, <<FALSE, null, 400>>}
MCSidecars ==
  {[cumulative |-> <<Result("a", "A", v), Result("b", "B", w), Result("c", "A", x),
                     Result("d", "B", y)>>]:
     v \in Verdicts, w \in Verdicts, x \in Verdicts, y \in Verdicts}

NoSamples == sampled = [n \in Node |-> [s \in Session |-> 0]] /\ moves = 0
NoTab     == results = <<>>
NoTakes   == histogram = [b \in 0..NB |-> 0]

ReportsInit == Init /\ AshInit /\ LatencyInit

(* The documents that are looked at: with ASH samples, of at most MaxListed  *)
(* calls; in the Latency tab, of one call and then of three.                 *)
Looked    == resets = 0 /\ ran = NoRows /\ NoTab
AshLooked == Looked /\ docs = 1 /\ CallTotals(newer) <= MaxListed /\ missed = {}
TabLooked == Looked /\ NoSamples /\ DOMAIN newer = Node
Analysed  == docs = 1 /\ CallTotals(newer) = 1
Compared  == docs = 2 /\ DOMAIN older = Node /\ CallTotals(older) = 1 /\ CallTotals(newer) = 3
Unused     == docs = 0 /\ counter = [n \in Node |-> NoRows] /\ resets = 0

ReportsNext ==
  \/ NoSamples /\ NoTab /\ NoTakes /\ Next /\ UNCHANGED <<ashVars, latencyVars>>
  \/ AshLooked /\ AshNext /\ UNCHANGED <<vars, latencyVars>>
  \/ Unused    /\ (\E b \in 0..NB: Take(b)) /\ UNCHANGED <<vars, ashVars>>
  \/ TabLooked /\ Analysed /\ (\E sidecar \in Sidecars: RenderLatencyPanel(sidecar))
     /\ UNCHANGED <<vars, ashVars>>
  \/ TabLooked /\ Compared /\ RenderLatencyPanel(NoAnalysis) /\ UNCHANGED <<vars, ashVars>>
  \/ (\E tier \in MinTier, flagged \in BOOLEAN: SetFilters(tier, flagged))
     /\ UNCHANGED <<vars, ashVars>>
  \/ (\E key \in {"best_tier", "query"}: ClickHeader(key)) /\ UNCHANGED <<vars, ashVars>>

ReportsSpec == ReportsInit /\ [][ReportsNext]_<<vars, ashVars, latencyVars>>
=============================================================================
