----------------------------- MODULE Statements -----------------------------
(* Statement counters on their way to a reader: cumulative counters on every *)
(* node, the top-N of them in a snapshot, merged across nodes, subtracted    *)
(* from the previous snapshot, folded into canonical families.  Written for  *)
(* YSQL; YCQL takes the same way with no dbname.  Every call takes a measured*)
(* time, so that equal calls need not mean equal time.  The other additive   *)
(* columns (rows, DocDB metrics) are added and subtracted as the time is.    *)
EXTENDS Integers, FiniteSets, Functions

CONSTANTS
  Node,        \* the YSQL nodes
  Stmt,        \* rows of pg_stat_statements: a queryid in a database
  Qid,         \* Stmt -> queryid
  Db,          \* Stmt -> dbname, NoDb when pg_database has no such oid
  NoDb,
  Template,    \* Stmt -> its normalized query text
  NB,          \* histogram buckets besides the open-ended one
  Measured,    \* Stmt -> what a call of it may measure: a time and its bucket
  Limit,       \* --snapshot-statements-per-node
  MaxCalls,    \* bound: calls executed between two snapshots
  MaxResets,   \* bound: resets
  MaxDocs      \* bound: snapshots

ASSUME StatementsAssumption ==
  /\ IsFiniteSet(Node) /\ IsFiniteSet(Stmt)
  /\ Measured \in [Stmt -> SUBSET [exec: Nat, bucket: 0..NB]]
  /\ {NB, Limit, MaxCalls, MaxResets, MaxDocs} \subseteq Nat
  /\ \A s, t \in Stmt: Qid[s] = Qid[t] /\ Db[s] = Db[t] => s = t
  /\ \A s, t \in Stmt: Qid[s] = Qid[t] => Template[s] = Template[t]

VARIABLES
  counter,   \* external: node -> statement -> its row since the last reset
  older,     \* the previous document: node -> listed statement -> its row
  newer,     \* the latest document
  docs,      \* documents written
  resets,    \* resets
  ran,       \* ghost: calls executed since the latest document
  window,    \* ghost: calls executed between the two documents
  wiped,     \* ghost: statements that lost calls since the latest document
  missed,    \* ghost: statements with a row that the latest document lacks
  unlisted,  \* ghost: statements that one of the two documents misses
  lossy      \* ghost: statements that lost calls between the two documents

vars == <<counter, older, newer, docs, resets, ran, window, wiped, missed,
          unlisted, lossy>>

MaxCount == MaxCalls * (MaxDocs + 1)

(* The additive columns of a row: calls, time in thousandths of a ms, and    *)
(* yb_latency_histogram, which has each of the calls in one bucket.          *)
CallsOf(h) == SumFunction(h)
Row(max) ==
  {row \in [calls: 0..max, exec: Nat, buckets: [0..NB -> Nat]]:
     CallsOf(row.buckets) = row.calls /\ (row.calls = 0 => row.exec = 0)}
NoRow == [calls |-> 0, exec |-> 0, buckets |-> [b \in 0..NB |-> 0]]
NoRows == [s \in Stmt |-> NoRow]

IsDoc(d) ==
  /\ DOMAIN d \subseteq Node
  /\ \A n \in DOMAIN d:
       /\ DOMAIN d[n] \subseteq Stmt /\ Cardinality(DOMAIN d[n]) <= Limit
       /\ \A s \in DOMAIN d[n]: d[n][s] \in Row(MaxCount) /\ d[n][s].calls > 0

TypeOK ==
  /\ counter \in [Node -> [Stmt -> Row(MaxCount)]]
  /\ IsDoc(older) /\ IsDoc(newer)
  /\ docs \in 0..MaxDocs
  /\ resets \in 0..MaxResets
  /\ ran \in [Stmt -> Row(MaxCalls)] /\ window \in [Stmt -> Row(MaxCalls)]
  /\ {wiped, missed, unlisted, lossy} \subseteq SUBSET Stmt

-----------------------------------------------------------------------------
(* The nodes and the collection                                              *)

HasRow(n) == {s \in Stmt: counter[n][s].calls > 0}

Top_NoLimit(n) == {HasRow(n)}

(* ORDER BY total_exec_time DESC LIMIT n: equal times come in any order.     *)
Top(n) ==
  LET size == IF Cardinality(HasRow(n)) < Limit THEN Cardinality(HasRow(n)) ELSE Limit
  IN {L \in SUBSET HasRow(n):
        /\ Cardinality(L) = size
        /\ \A s \in L, t \in HasRow(n) \ L:
             counter[n][s].exec >= counter[n][t].exec}

Init ==
  /\ counter = [n \in Node |-> NoRows]
  /\ older = <<>> /\ newer = <<>>
  /\ docs = 0 /\ resets = 0
  /\ ran = NoRows /\ window = NoRows
  /\ wiped = {} /\ missed = {} /\ unlisted = {} /\ lossy = {}

Counted(row, call) ==
  [calls |-> row.calls + 1, exec |-> row.exec + call.exec,
   buckets |-> [row.buckets EXCEPT ![call.bucket] = @ + 1]]

CallsRan == SumFunction([s \in Stmt |-> ran[s].calls])

(* External: a client executes a statement, which takes what it takes.       *)
Execute(n, s, call) ==
  /\ docs < MaxDocs
  /\ CallsRan < MaxCalls
  /\ counter' = [counter EXCEPT ![n][s] = Counted(@, call)]
  /\ ran' = [ran EXCEPT ![s] = Counted(@, call)]
  /\ UNCHANGED <<older, newer, docs, resets, window, wiped, missed, unlisted, lossy>>

(* reset_pg_stat_statements goes from node to node and past those that fail; *)
(* a node that restarts forgets its counters as well.                        *)
Reset(answering) ==
  /\ docs < MaxDocs /\ resets < MaxResets
  /\ counter' = [n \in Node |-> IF n \in answering THEN NoRows ELSE counter[n]]
  /\ resets' = resets + 1
  /\ wiped' = wiped \cup UNION {HasRow(n): n \in answering}
  /\ UNCHANGED <<older, newer, docs, ran, window, missed, unlisted, lossy>>

(* A document has the top rows of the nodes that yb_servers() named.         *)
Snapshot(discovered) ==
  /\ docs < MaxDocs
  /\ \E listed \in [discovered -> SUBSET Stmt]:
       /\ \A n \in discovered: listed[n] \in Top(n)
       /\ newer' = [n \in discovered |-> [s \in listed[n] |-> counter[n][s]]]
       /\ missed' = {s \in Stmt: \E n \in Node:
                       s \in HasRow(n) /\ ~(n \in discovered /\ s \in listed[n])}
  /\ older' = newer
  /\ docs' = docs + 1
  /\ window' = ran
  /\ ran' = NoRows
  /\ unlisted' = missed \cup missed'
  /\ lossy' = wiped
  /\ wiped' = {}
  /\ UNCHANGED <<counter, resets>>

Next ==
  \/ \E n \in Node, s \in Stmt: \E call \in Measured[s]: Execute(n, s, call)
  \/ \E answering \in (SUBSET Node) \ {{}}: Reset(answering)
  \/ \E discovered \in (SUBSET Node) \ {{}}: Snapshot(discovered)

Spec == Init /\ [][Next]_vars

-----------------------------------------------------------------------------
(* Merging (merge.py, app.js): a merged table maps a key to its sums; exec   *)
(* is what is added up, total_ms what is shown, in hundredths of a ms.       *)

(* Math.round(1000x / 10): half up, also below zero.                         *)
Rounded(exec) == (exec + 5) \div 10

(* Python's round: half to even.                                             *)
RoundedToEven(exec) ==
  IF exec % 10 = 5 /\ Rounded(exec) % 2 = 1 THEN Rounded(exec) - 1 ELSE Rounded(exec)

MergedKeys(doc) == UNION {DOMAIN doc[n]: n \in DOMAIN doc}
RowOn(doc, n, s) ==
  IF n \in DOMAIN doc /\ s \in DOMAIN doc[n] THEN doc[n][s] ELSE NoRow

mergeStatements_OnePerNode(doc) ==
  [s \in MergedKeys(doc) |->
     LET row == doc[CHOOSE n \in DOMAIN doc: s \in DOMAIN doc[n]][s]
     IN [calls |-> row.calls, exec |-> row.exec]]

mergeStatements(doc) ==
  [s \in MergedKeys(doc) |->
     [calls |-> SumFunction([n \in DOMAIN doc |-> RowOn(doc, n, s).calls]),
      exec  |-> SumFunction([n \in DOMAIN doc |-> RowOn(doc, n, s).exec])]]

(* The watcher's own merge keeps only the rounded time.                      *)
merge_pg_stat_statements(doc) ==
  LET merged == mergeStatements(doc)
  IN [s \in DOMAIN merged |->
        [calls |-> merged[s].calls, total_ms |-> RoundedToEven(merged[s].exec)]]

(* ysql_calls of the manifest entry.                                         *)
CallTotals(doc) ==
  SumFunction([n \in DOMAIN doc |-> SumFunction([s \in DOMAIN doc[n] |-> doc[n][s].calls])])

-----------------------------------------------------------------------------
(* Deltas: rows of the newer table less the rows of the older; a row without *)
(* any change is dropped.                                                    *)

Before(prev, key) == IF key \in DOMAIN prev THEN prev[key] ELSE [calls |-> 0, exec |-> 0]

deltaPgStatMergedRows(cur, prev) ==
  LET delta == [key \in DOMAIN cur |->
                  [calls |-> cur[key].calls - Before(prev, key).calls,
                   exec  |-> cur[key].exec - Before(prev, key).exec]]
      changed == {key \in DOMAIN cur: delta[key].calls # 0 \/ Rounded(delta[key].exec) # 0}
  IN [key \in changed |->
        [calls |-> delta[key].calls, total_ms |-> Rounded(delta[key].exec)]]

delta_pg_stat_merged_rows_ByQueryid(cur, prev) ==
  LET same(s) == {t \in DOMAIN prev: Qid[t] = Qid[s]}
      before(s) == IF same(s) # {} THEN prev[CHOOSE t \in same(s): TRUE]
                   ELSE [calls |-> 0, total_ms |-> 0]
      delta == [s \in DOMAIN cur |->
                  [calls |-> cur[s].calls - before(s).calls,
                   total_ms |-> cur[s].total_ms - before(s).total_ms]]
  IN [s \in {t \in DOMAIN cur: delta[t] # [calls |-> 0, total_ms |-> 0]} |-> delta[s]]

delta_pg_stat_merged_rows(cur, prev) ==
  LET before(s) == IF s \in DOMAIN prev THEN prev[s] ELSE [calls |-> 0, total_ms |-> 0]
      delta == [s \in DOMAIN cur |->
                  [calls |-> cur[s].calls - before(s).calls,
                   total_ms |-> cur[s].total_ms - before(s).total_ms]]
  IN [s \in {t \in DOMAIN cur: delta[t] # [calls |-> 0, total_ms |-> 0]} |-> delta[s]]

deltaCalls_Unclamped(cur, prev) == CallTotals(cur) - CallTotals(prev)

(* The bar of a window: never below zero.                                    *)
deltaCalls(cur, prev) ==
  LET d == CallTotals(cur) - CallTotals(prev) IN IF d > 0 THEN d ELSE 0

-----------------------------------------------------------------------------
(* Merge similar SQL: one row per template and database                      *)

Family(s) == <<Template[s], Db[s]>>
Members(table, family) == {s \in DOMAIN table: Family(s) = family}

collapseStatementsByTemplate_AcrossDbs(merged) ==
  [f \in {Family(s): s \in DOMAIN merged} |->
     LET members == {s \in DOMAIN merged: Template[s] = f[1]}
     IN [calls |-> SumFunction([s \in members |-> merged[s].calls]),
         exec  |-> SumFunction([s \in members |-> merged[s].exec])]]

collapseStatementsByTemplate(merged) ==
  [f \in {Family(s): s \in DOMAIN merged} |->
     [calls |-> SumFunction([s \in Members(merged, f) |-> merged[s].calls]),
      exec  |-> SumFunction([s \in Members(merged, f) |-> merged[s].exec])]]

(* Recurring query templates: families of several ids among ungrouped rows.  *)
statementTemplateSummaryRows(rows) ==
  LET recurs(f) == Cardinality({Qid[s]: s \in Members(rows, f)}) > 1
  IN [f \in {g \in {Family(s): s \in DOMAIN rows}: recurs(g)} |->
        [calls    |-> SumFunction([s \in Members(rows, f) |-> rows[s].calls]),
         total_ms |-> SumFunction([s \in Members(rows, f) |-> rows[s].total_ms])]]

(* The member that stands for a family in links: the heaviest, any of equals.*)
Primaries(merged, family) ==
  {Qid[s]: s \in {t \in Members(merged, family):
                    \A u \in Members(merged, family): merged[t].exec >= merged[u].exec}}

(* What an id, with a database if the link has one, resolves to: among the   *)
(* families of the id those of that database, if any; then the heaviest.     *)
FamilyMs(merged, f) ==
  SumFunction([s \in Members(merged, f) |-> Rounded(merged[s].exec)])

resolveCanonicalStatementFamily_NoDb(merged, qid, db) ==
  LET candidates == {Family(s): s \in {t \in DOMAIN merged: Qid[t] = qid}}
  IN {f \in candidates: \A g \in candidates: FamilyMs(merged, f) >= FamilyMs(merged, g)}

resolveCanonicalStatementFamily(merged, qid, db) ==
  LET all == {Family(s): s \in {t \in DOMAIN merged: Qid[t] = qid}}
      sameDb == {f \in all: db # NoDb /\ f[2] = db}
      candidates == IF sameDb # {} THEN sameDb ELSE all
  IN {f \in candidates: \A g \in candidates: FamilyMs(merged, f) >= FamilyMs(merged, g)}

Contributions_AnyDb(cur, prev, family) ==
  LET on(doc, n) == SumFunction([s \in {t \in Stmt: Template[t] = family[1]} |-> RowOn(doc, n, s).calls])
      gain == [n \in DOMAIN cur \cup DOMAIN prev |-> on(cur, n) - on(prev, n)]
  IN [n \in {m \in DOMAIN gain: gain[m] > 0} |-> gain[n]]

(* The calls of a family that each node has contributed, positive ones only. *)
Contributions(cur, prev, family) ==
  LET on(doc, n) == SumFunction([s \in {t \in Stmt: Family(t) = family} |-> RowOn(doc, n, s).calls])
      gain == [n \in DOMAIN cur \cup DOMAIN prev |-> on(cur, n) - on(prev, n)]
  IN [n \in {m \in DOMAIN gain: gain[m] > 0} |-> gain[n]]

-----------------------------------------------------------------------------
(* What the screens show of the two latest documents                         *)

Merged == mergeStatements(newer)
MergedBefore == mergeStatements(older)
Rows == deltaPgStatMergedRows(Merged, MergedBefore)
FamilyRows ==
  deltaPgStatMergedRows(collapseStatementsByTemplate(Merged),
                        collapseStatementsByTemplate(MergedBefore))
TerminalRows ==
  delta_pg_stat_merged_rows(merge_pg_stat_statements(newer), merge_pg_stat_statements(older))

CallsIn(table, key) == IF key \in DOMAIN table THEN table[key].calls ELSE 0
MsIn(table, key) == IF key \in DOMAIN table THEN table[key].total_ms ELSE 0
Abs(x) == IF x < 0 THEN -x ELSE x

(* The statements whose delta is not all of the truth.                       *)
blurred == unlisted \cup lossy

(* No statement of the older document is gone from the newer.                *)
NothingGone == DOMAIN MergedBefore \subseteq DOMAIN Merged

-----------------------------------------------------------------------------
(* Properties                                                                *)

(* Where both documents have all the rows of a statement and no node reset   *)
(* it, its delta is what clients executed between them, calls and time:      *)
(* neither the merge nor the subtraction loses or doubles a node, and a      *)
(* statement without a row was not executed.  A reset only makes it less.    *)
DeltaIsTruth ==
  docs >= 2 =>
    /\ \A s \in Stmt \ blurred:
         /\ CallsIn(Rows, s) = window[s].calls
         /\ MsIn(Rows, s) = Rounded(window[s].exec)
         /\ s \in DOMAIN Rows <=> window[s].calls > 0
    /\ \A s \in Stmt \ unlisted:
         CallsIn(Rows, s) <= window[s].calls /\ MsIn(Rows, s) <= Rounded(window[s].exec)

(* README.md:84, "delta arithmetic behave as they do ungrouped": as long as  *)
(* no statement has left the document, the delta of a family is the sum of   *)
(* its members', up to the rounding of each, whatever was reset; and the two *)
(* tables of one screen, Recurring query templates, which adds up deltas, and*)
(* Top 25, which subtracts sums, agree.                                      *)
GroupedAsUngrouped ==
  LET recurring == statementTemplateSummaryRows(Rows)
  IN NothingGone =>
       /\ \A s \in DOMAIN Merged:
            LET f == Family(s)
            IN /\ CallsIn(FamilyRows, f) = SumFunction([t \in Members(Merged, f) |-> CallsIn(Rows, t)])
               /\ Abs(MsIn(FamilyRows, f) - SumFunction([t \in Members(Merged, f) |-> MsIn(Rows, t)]))
                    <= Cardinality(Members(Merged, f))
       /\ \A f \in DOMAIN recurring:
            /\ CallsIn(FamilyRows, f) = recurring[f].calls
            /\ Abs(MsIn(FamilyRows, f) - recurring[f].total_ms) <= Cardinality(Members(Merged, f))

(* The same without the condition, as README.md:84 has it.                   *)
GroupedLikeUngrouped ==
  \A s \in DOMAIN Merged:
    CallsIn(FamilyRows, Family(s)) =
      SumFunction([t \in Members(Merged, Family(s)) |-> CallsIn(Rows, t)])

(* The chart, fed by the watcher's totals, agrees with the table, fed by the *)
(* documents, as long as no statement has left them.                         *)
ChartAgrees ==
  NothingGone =>
    LET total == SumFunction([s \in DOMAIN Rows |-> Rows[s].calls])
    IN deltaCalls(newer, older) = IF total > 0 THEN total ELSE 0

(* pg_stat_display.py:1, "aligned with web/app.js": the terminal, which      *)
(* subtracts what is already rounded, has the calls of the viewer and its    *)
(* times up to a hundredth of a ms.  A row that only one of them shows has   *)
(* gained no call, and at most that time: as many were lost as were executed.*)
(* Where the documents suffice both show the same rows.                      *)
TerminalAgrees ==
  /\ DOMAIN TerminalRows \subseteq DOMAIN Merged
  /\ \A s \in DOMAIN Merged:
       /\ CallsIn(TerminalRows, s) = CallsIn(Rows, s)
       /\ Abs(MsIn(TerminalRows, s) - MsIn(Rows, s)) <= 1
  /\ \A s \in Stmt \ blurred: s \in DOMAIN TerminalRows <=> s \in DOMAIN Rows

(* The link of a family's row leads to that family's report, whichever of    *)
(* several members stands for it, though its id may exist in other databases.*)
(* (A row without a database can lead to the same shape in another one.)     *)
LinkLeadsHome ==
  LET families == collapseStatementsByTemplate(Merged)
  IN \A f \in DOMAIN families: \A qid \in Primaries(Merged, f):
       \A found \in resolveCanonicalStatementFamily(Merged, qid, f[2]):
         found[1] = f[1] /\ (f[2] # NoDb => found = f)

(* The distribution of a row's calls over the nodes adds up to the row,      *)
(* unless a node has lost calls; then it adds up to more.                    *)
DistributionAddsUp ==
  \A f \in DOMAIN FamilyRows:
    LET parts == Contributions(newer, older, f)
        total == SumFunction(parts)
    IN /\ total >= FamilyRows[f].calls
       /\ (\A n \in Node: \A s \in {t \in Stmt: Family(t) = f}:
             RowOn(newer, n, s).calls >= RowOn(older, n, s).calls) =>
            total = FamilyRows[f].calls
=============================================================================
