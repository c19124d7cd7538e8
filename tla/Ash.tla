--------------------------------- MODULE Ash ---------------------------------
(* The Active Session History of a document, and how the viewer breaks it    *)
(* down (web/app.js): samples that the nodes have counted per session kind,  *)
(* named by each node from the tablets it hosts, merged across nodes, then   *)
(* grouped by query, database and table, each row with its split over nodes. *)
(* The texts come from the statements of the same document.                  *)
(*                                                                           *)
(* A table stands for its table_id and its name, an event for wait_event and *)
(* its type.                                                                 *)
EXTENDS Statements, Sequences

CONSTANTS
  Session,     \* what can be sampled: [qid, component, event, aux, dbid]
  Tablet,
  TableOf,     \* Tablet -> table
  NamespaceOf, \* table -> namespace
  DbName,      \* dbid -> datname, Null when pg_database has no such oid
  RawText,     \* Qid and background id -> text
  Background,  \* ids of background work, which have fixed labels
  Crz,         \* Node -> cloud, region and zone
  Null,
  MaxSamples,  \* bound: samples
  MaxMoves     \* bound: tablets placed or moved

ASSUME AshAssumption ==
  /\ {MaxSamples, MaxMoves} \subseteq Nat
  /\ TableOf \in [Tablet -> DOMAIN NamespaceOf]
  /\ \A s \in Session: s.dbid \in DOMAIN DbName
  /\ Background \subseteq DOMAIN RawText
  /\ IsFiniteSet(Session) /\ IsFiniteSet(Tablet)
  \* Null and the marker of PostgreSQL's own waits are no tables, Null is no text.
  /\ {Null, "[PGLayer]"} \cap DOMAIN NamespaceOf = {}
  /\ \A q \in DOMAIN RawText: RawText[q] # Null
  /\ \A s \in Stmt: Qid[s] \in DOMAIN RawText /\ Template[s] # Null
  \* normalizeQueryTemplate is a function of the text, and leaves canonical texts alone.
  /\ \A s, t \in Stmt: RawText[Qid[s]] \in {RawText[Qid[t]], Template[t]} => Template[s] = Template[t]
  \* The labels are distinct and no SQL.
  /\ \A b, c \in Background: RawText[b] = RawText[c] => b = c
  /\ \A b \in Background, s \in Stmt: RawText[b] \notin {RawText[Qid[s]], Template[s]}

VARIABLES
  sampled,   \* external: node -> session kind -> samples in the window
  hosted,    \* external: node -> tablet -> its state there, Null: not there
  moves      \* placements so far

ashVars == <<sampled, hosted, moves>>

TabletState == {"TABLET_DATA_READY", "TABLET_DATA_COPYING"}

AshInit ==
  /\ sampled = [n \in Node |-> [s \in Session |-> 0]]
  /\ hosted = [n \in Node |-> [t \in Tablet |-> Null]]
  /\ moves = 0

(* External: yb_active_session_history takes a sample.                       *)
Sample(n, s) ==
  /\ SumFunction([m \in Node |-> SumFunction(sampled[m])]) < MaxSamples
  /\ sampled' = [sampled EXCEPT ![n][s] = @ + 1]
  /\ UNCHANGED <<hosted, moves>>

(* External: a replica appears on a node, becomes ready or goes.             *)
Place(n, t, state) ==
  /\ moves < MaxMoves
  /\ hosted[n][t] # state
  /\ hosted' = [hosted EXCEPT ![n][t] = state]
  /\ moves' = moves + 1
  /\ UNCHANGED sampled

AshNext ==
  \/ \E n \in Node, s \in Session: Sample(n, s)
  \/ \E n \in Node, t \in Tablet, state \in TabletState \cup {Null}: Place(n, t, state)

(* Samples are taken and tablets move while documents are written.           *)
AshSpec ==
  /\ Init /\ AshInit
  /\ [][\/ Next /\ UNCHANGED ashVars
        \/ AshNext /\ UNCHANGED vars]_<<vars, ashVars>>

-----------------------------------------------------------------------------
(* The query (queries.py): a node names table and namespace only from the    *)
(* tablets it hosts itself; aux is a tablet, for YCQL a table.               *)

LocalTables(n, s) ==
  {TableOf[t]: t \in {u \in Tablet: /\ hosted[n][u] # Null
                                    /\ s.aux = IF s.component = "YCQL" THEN TableOf[u] ELSE u}}

(* A YSQL wait without object is PostgreSQL's own.                           *)
ashDisplayObjectName(s, table) ==
  IF table # Null THEN table
  ELSE IF s.component = "YSQL" /\ s.aux = Null THEN "[PGLayer]" ELSE Null

AshRow(n, s) ==
  LET table == IF LocalTables(n, s) = {} THEN Null ELSE CHOOSE t \in LocalTables(n, s): TRUE
  IN [node |-> n, qid |-> s.qid, component |-> s.component, event |-> s.event,
      dbid |-> s.dbid, aux |-> s.aux, samples |-> sampled[n][s],
      ns |-> IF table # Null THEN NamespaceOf[table]
             ELSE IF s.component = "YCQL" THEN Null ELSE DbName[s.dbid],
      object |-> ashDisplayObjectName(s, table),
      text |-> Null]

-----------------------------------------------------------------------------
(* Texts: reserved ids have labels, others the text of a listed statement.   *)

buildPgStatQueryTextByQueryId == {Qid[s]: s \in MergedKeys(newer)}

enrichAshRowsQueryFromPgStat(rows) ==
  {[r EXCEPT !.text = IF r.qid \in Background \cup buildPgStatQueryTextByQueryId
                      THEN RawText[r.qid] ELSE Null]: r \in rows}

ashQueryGroupText(merge, text) ==
  LET same == {s \in MergedKeys(newer): RawText[Qid[s]] = text}
  IN IF merge /\ same # {} THEN Template[CHOOSE s \in same: TRUE] ELSE text

ashCanonicalGroupKey(merge, r) ==
  IF r.text # Null THEN <<"text", ashQueryGroupText(merge, r.text)>>
  ELSE IF merge /\ r.qid # Null THEN <<"qid", r.qid>> ELSE <<"no query">>

ashMergeKey(r) == <<r.qid, r.component, r.event, r.object, r.dbid>>

ashMergeKeyCanonical(merge, r) ==
  <<ashCanonicalGroupKey(merge, r), r.component, r.event, r.object, r.dbid>>

-----------------------------------------------------------------------------
(* Scopes: the rows of one node, of one query id or of all the ids of a      *)
(* canonical family, of one table.                                           *)

AllRows ==
  UNION {{AshRow(n, s): s \in {u \in Session: sampled[n][u] > 0}}: n \in DOMAIN newer}

filterAshPerNodeByQueryId(rows, qid) == {r \in rows: r.qid = qid}
filterAshPerNodeByNodeId(rows, n) == {r \in rows: r.node = n}
filterAshPerNodeByTableId(rows, table) == {r \in rows: r.object = table}

filterAshPerNodeByCanonicalFamily_IdOnly(rows, family, qid) == {r \in rows: r.qid = qid}

filterAshPerNodeByCanonicalFamily(rows, family, qid) ==
  {r \in rows: r.qid \in {Qid[s]: s \in Members(mergeStatements(newer), family)}}

(* What a family link to an id shows: a family of it, or the id alone.       *)
FamilyScopes(qid, db) ==
  LET families == resolveCanonicalStatementFamily(mergeStatements(newer), qid, db)
  IN IF families = {} THEN {filterAshPerNodeByQueryId(AllRows, qid)}
     ELSE {filterAshPerNodeByCanonicalFamily(AllRows, f, qid): f \in families}

Scope(rows, query, table) == [rows |-> rows, query |-> query, table |-> table]

Scopes ==
  {Scope(AllRows, FALSE, FALSE)}
  \cup {Scope(filterAshPerNodeByNodeId(AllRows, n), FALSE, FALSE): n \in Node}
  \cup {Scope(filterAshPerNodeByTableId(AllRows, t), FALSE, TRUE): t \in DOMAIN NamespaceOf}
  \cup {Scope(rows, TRUE, FALSE):
          rows \in UNION {{filterAshPerNodeByQueryId(AllRows, r.qid)} \cup FamilyScopes(r.qid, NoDb):
                            r \in {u \in AllRows: u.qid # Null}}}

-----------------------------------------------------------------------------
(* Grouping.  A row of a report stands for the rows with its key: the sum of *)
(* their samples, and the id of the heaviest of them if its text or, while   *)
(* merging, its key identifies it.                                           *)

Samples(rows) == SumFunction([r \in rows |-> r.samples])
Partition(rows, key) == {{r \in rows: key[r] = k}: k \in {key[r]: r \in rows}}
Heaviest(rows) == CHOOSE r \in rows: \A u \in rows: r.samples >= u.samples

mergeAsh_FirstNode(rows) ==
  {[(CHOOSE r \in same: TRUE) EXCEPT !.node = Null]: same \in Partition(rows, [r \in rows |-> ashMergeKey(r)])}

mergeAsh(rows) ==
  {[Heaviest(same) EXCEPT !.node = Null, !.samples = Samples(same)]:
     same \in Partition(rows, [r \in rows |-> ashMergeKey(r)])}

Representative(merge, same) ==
  IF merge \/ Heaviest(same).text # Null THEN Heaviest(same).qid ELSE Null

(* One grouped row: what identifies it, as its cells and links have it.      *)
Group(merge, same) ==
  [Heaviest(same) EXCEPT
     !.samples = Samples(same),
     !.qid = Representative(merge, same),
     !.text = ashQueryGroupText(merge, @)]

collapseAshMergedByCanonicalQuery(rows) ==
  LET key == [r \in rows |-> ashMergeKeyCanonical(TRUE, r)]
  IN {Group(TRUE, same): same \in Partition(rows, key)}

(* The row loses what is not in its key, and so its split must not need it.  *)
groupAshByNamespaceQuery(merge, rows) ==
  LET key == [r \in rows |-> <<r.ns, ashCanonicalGroupKey(merge, r)>>]
  IN {[Group(merge, same) EXCEPT !.object = Null]: same \in Partition(rows, key)}

groupAshByQueryId(merge, rows) ==
  LET key == [r \in rows |-> IF merge THEN ashCanonicalGroupKey(merge, r) ELSE <<"qid", r.qid>>]
  IN {[Group(merge, same) EXCEPT !.object = Null, !.ns = Null,
                                 !.qid = IF merge THEN @ ELSE Heaviest(same).qid]:
        same \in Partition(rows, key)}

groupAshByNamespaceObjectQuery(merge, ignoreQuery, rows) ==
  LET key == [r \in rows |-> IF ignoreQuery THEN <<r.ns, r.object>>
                             ELSE <<r.ns, r.object, ashCanonicalGroupKey(merge, r)>>]
  IN {Group(merge, same): same \in Partition(rows, key)}

ashAggregateNsObjectBuckets(rows) ==
  LET key == [r \in rows |-> <<r.ns, r.object>>]
  IN {[Group(FALSE, same) EXCEPT !.text = Null, !.qid = Null]: same \in Partition(rows, key)}

byDb(rows) ==
  LET key == [r \in rows |-> r.ns]
  IN {[Group(FALSE, same) EXCEPT !.text = Null, !.qid = Null, !.object = Null]:
        same \in Partition(rows, key)}

-----------------------------------------------------------------------------
(* Load Distribution %: the key that a grouped row has now is looked up      *)
(* among the keys of the rows of every node.                                 *)

bucketKeyAshQueryIdFlat(merge, r) ==
  IF merge THEN ashCanonicalGroupKey(merge, r) ELSE <<"qid", r.qid>>

bucketKeyAshNamespaceQueryFlat(merge, r) == <<r.ns, ashCanonicalGroupKey(merge, r)>>

bucketKeyAshNsObjBucketFlat(merge, r) == <<r.ns, r.object>>

bucketKeyAshNsObjQueryFlat(merge, r) == <<r.ns, r.object, ashCanonicalGroupKey(merge, r)>>

bucketKeyAshDbFlat(merge, r) == r.ns

bucketKeyMain(merge, r) ==
  IF merge THEN ashMergeKeyCanonical(merge, r) ELSE ashMergeKey(r)

(* Node -> samples; only the shares of five nodes are shown.                 *)
attachAshNodeLoadDistribution(row, flat, bucketKey) ==
  LET mine == {r \in flat: bucketKey[r] = bucketKey[row]}
  IN [n \in {r.node: r \in mine} |-> Samples({r \in mine: r.node = n})]

-----------------------------------------------------------------------------
(* Recurring templates: canonical text -> its samples, and those of each id. *)

groupAshByTemplate(rows) ==
  LET Of(r) == ashCanonicalGroupKey(TRUE, [r EXCEPT !.qid = Null])
      Same(key) == {r \in rows: Of(r) = key}
      Ids(key) == {r.qid: r \in Same(key)} \ {Null}
  IN [key \in {Of(r): r \in rows} |->
        [samples |-> Samples(Same(key)),
         members |-> [qid \in Ids(key) |-> Samples({r \in Same(key): r.qid = qid})]]]

-----------------------------------------------------------------------------
(* The tablet report: replicas that are ready.                               *)

filterLocalTabletsDataReady ==
  {p \in Node \X Tablet: hosted[p[1]][p[2]] = "TABLET_DATA_READY"}

tabletsPerTableReport ==
  [table \in {TableOf[p[2]]: p \in filterLocalTabletsDataReady} |->
     [n \in {p[1]: p \in {q \in filterLocalTabletsDataReady: TableOf[q[2]] = table}} |->
        Cardinality({p \in filterLocalTabletsDataReady: p[1] = n /\ TableOf[p[2]] = table})]]

tabletsPerNodeReport ==
  [n \in Node |-> Cardinality({p \in filterLocalTabletsDataReady: p[1] = n})]

tabletsPerCloudRegionZoneReport ==
  [z \in {Crz[p[1]]: p \in filterLocalTabletsDataReady} |->
     Cardinality({p \in filterLocalTabletsDataReady: Crz[p[1]] = z})]

-----------------------------------------------------------------------------
(* Properties                                                                *)

(* One report of the panel: its rows add up to the samples of the scope, and *)
(* the split of each row over the nodes adds up to the row, although the row *)
(* is looked up again by the text and the id it was given.                   *)
AddsUp(merge, flat, rows, BucketKey(_, _)) ==
  LET bucketKey == [r \in flat \cup rows |-> BucketKey(merge, r)]
      split(row) == attachAshNodeLoadDistribution(row, flat, bucketKey)
  IN /\ Samples(rows) = Samples(flat)
     /\ \A row \in rows: SumFunction(split(row)) = row.samples

TotalOf(report) == SumFunction(report)

TabletReportsAgree ==
  LET byTable == tabletsPerTableReport
  IN /\ TotalOf(tabletsPerNodeReport) = SumFunction([t \in DOMAIN byTable |-> TotalOf(byTable[t])])
     /\ TotalOf(tabletsPerCloudRegionZoneReport) = TotalOf(tabletsPerNodeReport)

(* Every breakdown of the ASH panel, with Merge on and off, in every scope,  *)
(* accounts for every sample once, in its rows and in their distribution     *)
(* over the nodes (app.js:1862-2290, :5383-5760), whatever tablets the nodes *)
(* host and whichever statements have a text; the three tablet reports count *)
(* the same ready replicas (app.js:2346-2466).                               *)
ReportsAddUp ==
  /\ TabletReportsAgree
  /\ \A merge \in BOOLEAN, scope \in Scopes:
       LET flat == enrichAshRowsQueryFromPgStat(scope.rows)
           byId == enrichAshRowsQueryFromPgStat(mergeAsh(scope.rows))
           main == IF merge THEN collapseAshMergedByCanonicalQuery(byId) ELSE byId
           templates == groupAshByTemplate(byId)
       IN /\ AddsUp(merge, flat, main, bucketKeyMain)
          /\ scope.table =>
               AddsUp(merge, flat, groupAshByQueryId(merge, byId), bucketKeyAshQueryIdFlat)
          /\ ~scope.query /\ ~scope.table =>
               /\ AddsUp(merge, flat, groupAshByNamespaceQuery(merge, byId),
                         bucketKeyAshNamespaceQueryFlat)
               /\ AddsUp(merge, flat, ashAggregateNsObjectBuckets(byId), bucketKeyAshNsObjBucketFlat)
               /\ AddsUp(merge, flat, groupAshByNamespaceObjectQuery(merge, FALSE, byId),
                         bucketKeyAshNsObjQueryFlat)
          /\ scope.query =>
               /\ AddsUp(merge, flat, groupAshByNamespaceObjectQuery(merge, TRUE, byId),
                         bucketKeyAshNsObjBucketFlat)
          /\ ~scope.table => AddsUp(merge, flat, byDb(main), bucketKeyAshDbFlat)
          /\ ~scope.query => SumFunction([k \in DOMAIN templates |-> templates[k].samples]) = Samples(flat)

(* The report that the canonical text of a row leads to has all the samples  *)
(* of the row, though it is found through the id of one member, without a    *)
(* database, in an index of the statements and not of the sessions.  (As     *)
(* long as the shape occurs in one database: a family has one, a row of the  *)
(* ASH panel may have several.)                                              *)
FamilyCoversRow ==
  LET listed == MergedKeys(newer)
      byId == enrichAshRowsQueryFromPgStat(mergeAsh(AllRows))
      rows == collapseAshMergedByCanonicalQuery(byId)
                \cup groupAshByNamespaceQuery(TRUE, byId)
                \cup groupAshByNamespaceObjectQuery(TRUE, FALSE, byId)
      oneDb(text) == Cardinality({Db[s]: s \in {t \in listed: Template[t] = text}}) <= 1
  IN \A row \in {r \in rows: r.text # Null /\ oneDb(r.text)}:
       \A report \in FamilyScopes(row.qid, NoDb): Samples(report) >= row.samples
=============================================================================
