------------------------------ MODULE AshProofs ------------------------------
(* The reports of Ash add up, for any finite sets of nodes, sessions and     *)
(* tablets and any texts: a report consolidates the rows that it is made of, *)
(* and consolidations compose.                                               *)
EXTENDS Ash, StatementsProofs

(* The fields of a row.                                                      *)
RowField == {"node", "qid", "component", "event", "dbid", "aux", "samples", "ns", "object", "text"}
IsRow(r) == r = [f \in RowField |-> r[f]] /\ r.samples \in Nat

(* The text that an id has, and the namespace that the other cells of a row  *)
(* determine.                                                                *)
TextOf(qid) ==
  IF qid \in Background \cup buildPgStatQueryTextByQueryId THEN RawText[qid] ELSE Null
NsOf(r) ==
  IF r.object \in DOMAIN NamespaceOf THEN NamespaceOf[r.object]
  ELSE IF r.component = "YCQL" THEN Null ELSE DbName[r.dbid]

AshTypeOK ==
  /\ sampled \in [Node -> [Session -> Nat]]
  /\ hosted \in [Node -> [Tablet -> TabletState \cup {Null}]]

(* A row as a node reports it (queries.py) has all the fields, no text, and  *)
(* the namespace of its table or, without a table, of its database.          *)
LEMMA AshRowType ==
  ASSUME AshTypeOK, NEW n \in Node, NEW s \in Session
  PROVE  LET r == AshRow(n, s)
         IN IsRow(r) /\ r.text = Null /\ r.ns = NsOf(r)
<1> DEFINE table == IF LocalTables(n, s) = {} THEN Null ELSE CHOOSE t \in LocalTables(n, s): TRUE
           r == AshRow(n, s)
<1>1. LocalTables(n, s) \subseteq DOMAIN NamespaceOf
  BY AshAssumption DEF LocalTables
<1>2. table # Null <=> table \in DOMAIN NamespaceOf
  BY <1>1, AshAssumption
<1>3. /\ r.object = ashDisplayObjectName(s, table)
      /\ r.ns = IF table # Null THEN NamespaceOf[table]
                ELSE IF s.component = "YCQL" THEN Null ELSE DbName[s.dbid]
      /\ r.component = s.component /\ r.dbid = s.dbid /\ r.text = Null
      /\ r.samples = sampled[n][s]
  BY DEF AshRow
<1>4. IsRow(r)
  <2>1. r = [f \in RowField |-> r[f]]
    BY DEF AshRow, RowField
  <2> QED BY <2>1, <1>3 DEF IsRow, AshTypeOK
<1>5. r.ns = NsOf(r)
  <2> HIDE DEF table, r
  <2> QED BY <1>2, <1>3, AshAssumption DEF NsOf, ashDisplayObjectName
<1> QED BY <1>3, <1>4, <1>5

(* The samples of finitely many rows add up to a number, and to no less than *)
(* any of the rows has.                                                      *)
LEMMA SamplesSum ==
  ASSUME NEW S, IsFiniteSet(S), \A r \in S: r.samples \in Nat
  PROVE  Samples(S) \in Nat /\ \A r \in S: r.samples <= Samples(S)
<1> DEFINE f == [r \in S |-> r.samples]
<1>1. Samples(S) = SumFunctionOnSet(f, S)
  BY DEF Samples, SumFunction
<1>2. \A r \in S: f[r] \in Nat /\ f[r] = r.samples
  OBVIOUS
<1> HIDE DEF f
<1> QED BY <1>1, <1>2, SumIsNat

(* Among finitely many numbers one is the greatest.                          *)
LEMMA GreatestExists ==
  ASSUME NEW S, IsFiniteSet(S), S # {}, NEW f, \A x \in S: f[x] \in Int
  PROVE  \E x \in S: \A y \in S: f[x] >= f[y]
<1> DEFINE Good == {s \in SUBSET S: s # {} => \E x \in s: \A y \in s: f[x] >= f[y]}
<1>1. {} \in Good
  OBVIOUS
<1>2. ASSUME NEW s \in SUBSET S, NEW x \in s, s \ {x} \in Good
      PROVE  s \in Good
  <2>1. CASE s \ {x} = {}
    <3>1. s = {x}
      BY <2>1
    <3> QED BY <3>1
  <2>2. CASE s \ {x} # {}
    <3>1. PICK z \in s \ {x}: \A y \in s \ {x}: f[z] >= f[y]
      BY <1>2, <2>2
    <3>2. CASE f[z] >= f[x]
      BY <3>1, <3>2
    <3>3. CASE f[x] >= f[z]
      BY <3>1, <3>3
    <3> QED BY <3>2, <3>3
  <2> QED BY <2>1, <2>2
<1>3. S \in Good
  <2> HIDE DEF Good
  <2> QED BY <1>1, <1>2, SubsetInduction
<1> QED BY <1>3

(* The heaviest of some rows, which stands for them in links, is one of them *)
(* and none has more samples.                                                *)
LEMMA HeaviestIsOne ==
  ASSUME NEW S, IsFiniteSet(S), S # {}, \A r \in S: r.samples \in Nat
  PROVE  Heaviest(S) \in S /\ \A r \in S: Heaviest(S).samples >= r.samples
<1> DEFINE f == [r \in S |-> r.samples]
<1>1. \A r \in S: f[r] = r.samples /\ f[r] \in Int
  OBVIOUS
<1> HIDE DEF f
<1>2. \E r \in S: \A u \in S: f[r] >= f[u]
  BY <1>1, GreatestExists
<1>3. \E r \in S: \A u \in S: r.samples >= u.samples
  BY <1>1, <1>2
<1> QED BY <1>3 DEF Heaviest

(* T has one row for every key of the rows of S, with all their samples.     *)
Consolidates(T, S, key) ==
  /\ \A r \in S: \E t \in T: key[t] = key[r]
  /\ \A t \in T: \E r \in S: key[r] = key[t]
  /\ \A t, u \in T: key[t] = key[u] => t = u
  /\ \A t \in T: t.samples = Samples({r \in S: key[r] = key[t]})

RowSet(S) == IsFiniteSet(S) /\ \A r \in S: r.samples \in Nat

(* What consolidates a set of rows is finite and adds up to the same: no row *)
(* is counted twice or lost between two keys.                                *)
LEMMA ConsolidatesSum ==
  ASSUME NEW S, RowSet(S), NEW T, NEW key, Consolidates(T, S, key)
  PROVE  RowSet(T) /\ Samples(T) = Samples(S)
<1> DEFINE of == [r \in S |-> CHOOSE t \in T: key[t] = key[r]]
           f == [r \in S |-> r.samples]
           g == [t \in T |-> t.samples]
<1>1. \A r \in S: of[r] \in T /\ key[of[r]] = key[r]
  BY DEF Consolidates
<1>2. \A t \in T: \E r \in S: of[r] = t
  BY <1>1 DEF Consolidates
<1>3. IsFiniteSet(T)
  <2>1. of \in Surjection(S, T)
    BY <1>1, <1>2 DEF Surjection
  <2> QED BY <2>1, FS_Surjection DEF RowSet
<1>4. ASSUME NEW t \in T
      PROVE  t.samples \in Nat /\ t.samples = SumFunctionOnSet(f, {r \in S: of[r] = t})
  <2> DEFINE here == {r \in S: key[r] = key[t]}
             h == [r \in here |-> r.samples]
  <2>1. here = {r \in S: of[r] = t}
    BY <1>1 DEF Consolidates
  <2>2. IsFiniteSet(here) /\ \A r \in here: r.samples \in Nat /\ h[r] = f[r] /\ f[r] \in Int
    BY FS_Subset DEF RowSet
  <2>3. t.samples = Samples(here)
    BY DEF Consolidates
  <2>4. Samples(here) = SumFunctionOnSet(h, here)
    BY DEF Samples, SumFunction
  <2> HIDE DEF here, h, f, of
  <2>5. SumFunctionOnSet(h, here) = SumFunctionOnSet(f, here)
    BY <2>2, SumEqual
  <2>6. Samples(here) \in Nat
    BY <2>2, SamplesSum
  <2> QED BY <2>1, <2>3, <2>4, <2>5, <2>6
<1>5. KeyedSums(g, f, of, S, T)
  <2>1. \A r \in S: of[r] \in T /\ f[r] \in Int
    BY <1>1 DEF RowSet
  <2>2. \A t \in T: g[t] = t.samples
    OBVIOUS
  <2> HIDE DEF of, f, g
  <2> QED BY <1>4, <2>1, <2>2 DEF KeyedSums
<1>6. Samples(T) = SumFunctionOnSet(g, T) /\ Samples(S) = SumFunctionOnSet(f, S)
  BY DEF Samples, SumFunction
<1>7. RowSet(T)
  BY <1>3, <1>4 DEF RowSet
<1> HIDE DEF of, f, g
<1>8. SumFunctionOnSet(g, T) = SumFunctionOnSet(f, S)
  BY <1>3, <1>5, SumPartition DEF RowSet
<1> QED BY <1>6, <1>7, <1>8

(* A part of the rows is a set of rows.                                      *)
LEMMA RowSubset ==
  ASSUME NEW S, RowSet(S), NEW T \in SUBSET S
  PROVE  RowSet(T)
BY FS_Subset DEF RowSet

(* Load Distribution % of a row: its split over the nodes adds up to the     *)
(* samples of all the rows with its key, on whichever nodes they are.        *)
LEMMA SplitSum ==
  ASSUME NEW flat, RowSet(flat), NEW row, NEW bucketKey
  PROVE  SumFunction(attachAshNodeLoadDistribution(row, flat, bucketKey))
           = Samples({r \in flat: bucketKey[r] = bucketKey[row]})
<1> DEFINE mine == {r \in flat: bucketKey[r] = bucketKey[row]}
           node == [r \in mine |-> r.node]
           N == {r.node: r \in mine}
           g == [n \in N |-> Samples({r \in mine: r.node = n})]
           f == [r \in mine |-> r.samples]
<1>1. RowSet(mine)
  BY RowSubset
<1>2. SumFunction(attachAshNodeLoadDistribution(row, flat, bucketKey)) = SumFunctionOnSet(g, N)
  BY DEF attachAshNodeLoadDistribution, SumFunction
<1>3. Samples(mine) = SumFunctionOnSet(f, mine)
  BY DEF Samples, SumFunction
<1>4. IsFiniteSet(N)
  <2>1. {node[r]: r \in mine} = N
    OBVIOUS
  <2> HIDE DEF mine, node
  <2>2. IsFiniteSet({node[r]: r \in mine})
    BY <1>1, ImageFinite DEF RowSet
  <2> QED BY <2>1, <2>2
<1>5. ASSUME NEW n \in N
      PROVE  g[n] = SumFunctionOnSet(f, {r \in mine: node[r] = n})
  <2> DEFINE here == {r \in mine: r.node = n}
             h == [r \in here |-> r.samples]
  <2>1. here = {r \in mine: node[r] = n}
    OBVIOUS
  <2>2. IsFiniteSet(here) /\ \A r \in here: f[r] \in Int /\ h[r] = f[r]
    BY <1>1, FS_Subset DEF RowSet
  <2>3. g[n] = SumFunctionOnSet(h, here)
    BY DEF Samples, SumFunction
  <2> HIDE DEF here, h, f, g
  <2>4. SumFunctionOnSet(h, here) = SumFunctionOnSet(f, here)
    BY <2>2, SumEqual
  <2> QED BY <2>1, <2>3, <2>4
<1>6. KeyedSums(g, f, node, mine, N)
  <2>1. \A r \in mine: node[r] \in N /\ f[r] \in Int
    BY <1>1 DEF RowSet
  <2> HIDE DEF mine, N, f, g, node
  <2> QED BY <1>5, <2>1 DEF KeyedSums
<1> HIDE DEF mine, N, f, g, node
<1>7. SumFunctionOnSet(g, N) = SumFunctionOnSet(f, mine)
  BY <1>1, <1>4, <1>6, SumPartition DEF RowSet
<1> QED BY <1>2, <1>3, <1>7 DEF mine

(* What consolidates rows that consolidate others, under a coarser key,      *)
(* consolidates those: a report made of merged rows stands for the rows of   *)
(* every node.                                                               *)
LEMMA ConsolidatesThrough ==
  ASSUME NEW S, RowSet(S), NEW M, NEW T, NEW fine, NEW key,
         Consolidates(M, S, fine), Consolidates(T, M, key),
         \A m \in M: \A r \in S: fine[m] = fine[r] => key[m] = key[r]
  PROVE  Consolidates(T, S, key)
<1> USE DEF Consolidates
<1>1. \A r \in S: \E t \in T: key[t] = key[r]
  OBVIOUS
<1>2. \A t \in T: \E r \in S: key[r] = key[t]
  OBVIOUS
<1>3. ASSUME NEW t \in T
      PROVE  t.samples = Samples({r \in S: key[r] = key[t]})
  <2> DEFINE here == {r \in S: key[r] = key[t]}
             of == {m \in M: key[m] = key[t]}
  <2>1. RowSet(here)
    BY RowSubset
  <2>2. Consolidates(of, here, fine)
    <3>1. \A r \in here: \E m \in of: fine[m] = fine[r]
      OBVIOUS
    <3>2. \A m \in of: \E r \in here: fine[r] = fine[m]
      OBVIOUS
    <3>3. \A m, l \in of: fine[m] = fine[l] => m = l
      OBVIOUS
    <3>4. ASSUME NEW m \in of
          PROVE  m.samples = Samples({r \in here: fine[r] = fine[m]})
      <4>1. {r \in here: fine[r] = fine[m]} = {r \in S: fine[r] = fine[m]}
        OBVIOUS
      <4>2. m \in M
        OBVIOUS
      <4> HIDE DEF here, of
      <4> QED BY <4>1, <4>2
    <3> HIDE DEF here, of
    <3> QED BY <3>1, <3>2, <3>3, <3>4
  <2>3. t.samples = Samples(of)
    OBVIOUS
  <2> HIDE DEF here, of, Consolidates
  <2>4. Samples(of) = Samples(here)
    BY <2>1, <2>2, ConsolidatesSum
  <2> QED BY <2>3, <2>4 DEF here
<1> QED BY <1>1, <1>2, <1>3

(* Of a key only its values on the two sets matter: a report looks its rows  *)
(* up again by the same key, as a function of its own.                       *)
LEMMA ConsolidatesSameKeys ==
  ASSUME NEW S, NEW T, NEW key, Consolidates(T, S, key), NEW same,
         \A r \in S \cup T: same[r] = key[r]
  PROVE  Consolidates(T, S, same)
<1>1. ASSUME NEW t \in T
      PROVE  {r \in S: key[r] = key[t]} = {r \in S: same[r] = same[t]}
  OBVIOUS
<1> QED BY <1>1 DEF Consolidates

(* A row for every part of a partition.                                      *)
Represents(R, S, by, key) ==
  /\ \A r \in S: key[r] = by[r]
  /\ \A part \in Partition(S, by):
       /\ R[part].samples = Samples(part)
       /\ \A r \in part: key[R[part]] = key[r]

(* A row for every part of a partition, with the part's samples and still    *)
(* with the key of its part, consolidates what was partitioned.              *)
LEMMA PartitionConsolidates ==
  ASSUME NEW S, NEW by, NEW R, NEW key, Represents(R, S, by, key)
  PROVE  Consolidates({R[part]: part \in Partition(S, by)}, S, key)
<1> DEFINE T == {R[part]: part \in Partition(S, by)}
           part(r) == {u \in S: by[u] = by[r]}
<1>1. \A r \in S: part(r) \in Partition(S, by) /\ r \in part(r)
  BY DEF Partition
<1>2. ASSUME NEW t \in T
      PROVE  \E r \in S: /\ t = R[part(r)] /\ key[t] = key[r]
                         /\ part(r) = {u \in S: key[u] = key[t]}
                         /\ t.samples = Samples(part(r))
  <2>1. PICK p \in Partition(S, by): t = R[p]
    OBVIOUS
  <2>2. PICK r \in S: p = part(r)
    BY DEF Partition
  <2>3. key[t] = key[r] /\ t.samples = Samples(part(r))
    BY <1>1, <2>1, <2>2 DEF Represents
  <2>4. part(r) = {u \in S: key[u] = key[t]}
    BY <2>3 DEF Represents
  <2> QED BY <2>1, <2>2, <2>3, <2>4
<1>3. ASSUME NEW r \in S
      PROVE  R[part(r)] \in T /\ key[R[part(r)]] = key[r]
  BY <1>1 DEF Represents
<1>4. \A t, u \in T: key[t] = key[u] => t = u
  <2> SUFFICES ASSUME NEW t \in T, NEW u \in T, key[t] = key[u]
               PROVE  t = u
    OBVIOUS
  <2>1. PICK r \in S: t = R[part(r)] /\ part(r) = {v \in S: key[v] = key[t]}
    BY <1>2
  <2>2. PICK q \in S: u = R[part(q)] /\ part(q) = {v \in S: key[v] = key[u]}
    BY <1>2
  <2> QED BY <2>1, <2>2
<1>5. ASSUME NEW t \in T
      PROVE  /\ \E r \in S: key[r] = key[t]
             /\ t.samples = Samples({r \in S: key[r] = key[t]})
  <2>1. PICK r \in S: /\ key[t] = key[r]
                      /\ part(r) = {u \in S: key[u] = key[t]}
                      /\ t.samples = Samples(part(r))
    BY <1>2
  <2> QED BY <2>1
<1> HIDE DEF T, part
<1>6. Consolidates(T, S, key)
  BY <1>3, <1>4, <1>5 DEF Consolidates
<1> QED BY <1>6 DEF T

(* A report that consolidates the rows of every node adds up, in its rows    *)
(* and in the split of every row over the nodes.                             *)
LEMMA ConsolidatedAddsUp ==
  ASSUME NEW flat, RowSet(flat), NEW rows, NEW key, Consolidates(rows, flat, key)
  PROVE  /\ Samples(rows) = Samples(flat)
         /\ \A row \in rows:
              SumFunction(attachAshNodeLoadDistribution(row, flat, key)) = row.samples
<1>1. Samples(rows) = Samples(flat)
  BY ConsolidatesSum
<1>2. ASSUME NEW row \in rows
      PROVE  SumFunction(attachAshNodeLoadDistribution(row, flat, key)) = row.samples
  <2>1. row.samples = Samples({r \in flat: key[r] = key[row]})
    BY DEF Consolidates
  <2> QED BY <2>1, SplitSum
<1> QED BY <1>1, <1>2

-----------------------------------------------------------------------------
(* The rows of a scope, and the same merged over the nodes                   *)

(* Rows whose text and namespace are those that their other cells determine. *)
Raw(S) == RowSet(S) /\ \A r \in S: IsRow(r) /\ r.text = Null /\ r.ns = NsOf(r)
Enriched(S) == RowSet(S) /\ \A r \in S: IsRow(r) /\ r.text = TextOf(r.qid) /\ r.ns = NsOf(r)

(* The rows that the nodes of a document report are finitely many, without   *)
(* text, and each has the namespace that its other cells determine.          *)
LEMMA AllRowsRaw ==
  ASSUME AshTypeOK, IsDoc(newer)
  PROVE  Raw(AllRows)
<1> DEFINE row == [p \in Node \X Session |-> AshRow(p[1], p[2])]
           Rows2 == {row[p]: p \in Node \X Session}
<1>1. IsFiniteSet(Node \X Session)
  BY FS_Product, StatementsAssumption, AshAssumption
<1>2. AllRows \subseteq Rows2
  <2>1. DOMAIN newer \subseteq Node
    BY DEF IsDoc
  <2>2. ASSUME NEW n \in Node, NEW s \in Session
        PROVE  AshRow(n, s) \in Rows2
    <3>1. <<n, s>> \in Node \X Session /\ row[<<n, s>>] = AshRow(n, s)
      OBVIOUS
    <3> HIDE DEF row
    <3> QED BY <3>1
  <2> HIDE DEF Rows2
  <2> QED BY <2>1, <2>2 DEF AllRows
<1>3. IsFiniteSet(Rows2)
  <2> HIDE DEF row
  <2> QED BY <1>1, ImageFinite
<1>4. ASSUME NEW r \in Rows2
      PROVE  IsRow(r) /\ r.text = Null /\ r.ns = NsOf(r)
  <2>1. PICK n \in Node, s \in Session: r = AshRow(n, s)
    OBVIOUS
  <2> HIDE DEF Rows2
  <2> QED BY <2>1, AshRowType
<1> HIDE DEF Rows2
<1>5. \A r \in AllRows: r.samples \in Nat
  BY <1>2, <1>4 DEF IsRow
<1> QED BY <1>2, <1>3, <1>4, <1>5, FS_Subset DEF Raw, RowSet

(* Every scope of the panel (app.js:1537-1590: all, a node, a query id or    *)
(* its canonical family, a table) is a part of these rows.                   *)
LEMMA ScopesRaw ==
  ASSUME AshTypeOK, IsDoc(newer), NEW scope \in Scopes
  PROVE  Raw(scope.rows)
<1>1. scope.rows \in SUBSET AllRows
  <2>1. \A qid: filterAshPerNodeByQueryId(AllRows, qid) \in SUBSET AllRows
    BY DEF filterAshPerNodeByQueryId
  <2>2. \A n: filterAshPerNodeByNodeId(AllRows, n) \in SUBSET AllRows
    BY DEF filterAshPerNodeByNodeId
  <2>3. \A t: filterAshPerNodeByTableId(AllRows, t) \in SUBSET AllRows
    BY DEF filterAshPerNodeByTableId
  <2>4. \A f, qid: filterAshPerNodeByCanonicalFamily(AllRows, f, qid) \in SUBSET AllRows
    BY DEF filterAshPerNodeByCanonicalFamily
  <2>5. \A qid, db: \A rows \in FamilyScopes(qid, db): rows \in SUBSET AllRows
    BY <2>1, <2>4 DEF FamilyScopes
  <2>7. CASE \E n: scope = Scope(filterAshPerNodeByNodeId(AllRows, n), FALSE, FALSE)
    <3>1. PICK n: scope.rows = filterAshPerNodeByNodeId(AllRows, n)
      BY <2>7 DEF Scope
    <3> QED BY <2>2, <3>1
  <2>8. CASE \E t: scope = Scope(filterAshPerNodeByTableId(AllRows, t), FALSE, TRUE)
    <3>1. PICK t: scope.rows = filterAshPerNodeByTableId(AllRows, t)
      BY <2>8 DEF Scope
    <3> QED BY <2>3, <3>1
  <2>9. CASE \E qid: \E rows \in {filterAshPerNodeByQueryId(AllRows, qid)} \cup FamilyScopes(qid, NoDb):
               scope = Scope(rows, TRUE, FALSE)
    <3>1. PICK qid, rows: /\ rows \in {filterAshPerNodeByQueryId(AllRows, qid)} \cup FamilyScopes(qid, NoDb)
                          /\ scope.rows = rows
      BY <2>9 DEF Scope
    <3> QED BY <2>1, <2>5, <3>1
  <2>10. CASE scope = Scope(AllRows, FALSE, FALSE)
    BY <2>10 DEF Scope
  <2> QED BY <2>7, <2>8, <2>9, <2>10 DEF Scopes
<1> QED BY <1>1, AllRowsRaw, RowSubset DEF Raw

(* The parts of a partition of rows are not empty sets of them, and the      *)
(* heaviest row of a part is in it.                                          *)
LEMMA PartOfRows ==
  ASSUME NEW S, RowSet(S), NEW by, NEW part \in Partition(S, by)
  PROVE  /\ RowSet(part) /\ part \subseteq S
         /\ Heaviest(part) \in part
         /\ \A r \in S: r \in part <=> by[r] = by[Heaviest(part)]
         /\ Samples(part) \in Nat
<1>1. PICK q \in S: part = {u \in S: by[u] = by[q]}
  BY DEF Partition
<1>2. q \in part /\ part \in SUBSET S
  BY <1>1
<1>3. RowSet(part)
  BY <1>2, RowSubset
<1>4. Heaviest(part) \in part
  BY <1>2, <1>3, HeaviestIsOne DEF RowSet
<1>5. by[Heaviest(part)] = by[q]
  BY <1>1, <1>4
<1> QED BY <1>1, <1>2, <1>3, <1>4, <1>5, SamplesSum DEF RowSet

(* mergeAsh (app.js:1476): the rows of all nodes with one merge key become   *)
(* one, with the sum of their samples.                                       *)
LEMMA MergedRaw ==
  ASSUME NEW S, Raw(S), NEW key,
         \A r \in S \cup mergeAsh(S): key[r] = ashMergeKey(r)
  PROVE  Raw(mergeAsh(S)) /\ Consolidates(mergeAsh(S), S, key)
<1> DEFINE by == [r \in S |-> ashMergeKey(r)]
           R == [part \in Partition(S, by) |->
                   [Heaviest(part) EXCEPT !.node = Null, !.samples = Samples(part)]]
<1>1. mergeAsh(S) = {R[part]: part \in Partition(S, by)}
  BY DEF mergeAsh
<1>2. ASSUME NEW part \in Partition(S, by)
      PROVE  /\ R[part] \in mergeAsh(S)
             /\ IsRow(R[part]) /\ R[part].samples = Samples(part)
             /\ R[part].text = Null /\ R[part].ns = NsOf(R[part])
             /\ \A r \in part: ashMergeKey(R[part]) = ashMergeKey(r)
  <2>1. /\ Heaviest(part) \in S /\ Samples(part) \in Nat
        /\ \A r \in part: r \in S /\ by[r] = by[Heaviest(part)]
    BY PartOfRows DEF Raw
  <2>2. \A r \in S: by[r] = ashMergeKey(r)
    OBVIOUS
  <2>3. R[part] = [Heaviest(part) EXCEPT !.node = Null, !.samples = Samples(part)]
    OBVIOUS
  <2>4. R[part] \in mergeAsh(S)
    BY <1>1
  <2> HIDE DEF by, R
  <2>5. LET h == Heaviest(part)
        IN /\ IsRow(R[part]) /\ R[part].samples = Samples(part)
           /\ \A f \in RowField \ {"node", "samples"}: R[part][f] = h[f]
    <3>1. IsRow(Heaviest(part))
      BY <2>1 DEF Raw
    <3> DEFINE h == Heaviest(part)
               t == R[part]
               k == Samples(part)
    <3>2. t = [h EXCEPT !.node = Null, !.samples = k]
      BY <2>3
    <3> HIDE DEF h, t, k
    <3>3. k \in Nat /\ IsRow(h)
      BY <2>1, <3>1 DEF h, k
    <3>4. IsRow(t) /\ t.samples = k /\ \A f \in RowField \ {"node", "samples"}: t[f] = h[f]
      BY <3>2, <3>3 DEF IsRow, RowField
    <3> QED BY <3>4 DEF h, t, k
  <2>6. LET h == Heaviest(part)  t == R[part]
        IN /\ t.qid = h.qid /\ t.component = h.component /\ t.event = h.event
           /\ t.object = h.object /\ t.dbid = h.dbid /\ t.text = h.text /\ t.ns = h.ns
    BY <2>5 DEF RowField
  <2>7. NsOf(R[part]) = NsOf(Heaviest(part)) /\ ashMergeKey(R[part]) = ashMergeKey(Heaviest(part))
    BY <2>6 DEF NsOf, ashMergeKey
  <2> QED BY <2>1, <2>2, <2>4, <2>5, <2>6, <2>7 DEF Raw
<1>3. Represents(R, S, by, key)
  <2>1. \A r \in S: key[r] = by[r]
    OBVIOUS
  <2>2. \A part \in Partition(S, by): \A r \in part: r \in S
    BY DEF Partition
  <2> HIDE DEF by, R
  <2> QED BY <1>2, <2>1, <2>2 DEF Represents
<1> HIDE DEF by, R
<1>4. Consolidates(mergeAsh(S), S, key)
  BY <1>1, <1>3, PartitionConsolidates
<1>5. RowSet(mergeAsh(S))
  BY <1>4, ConsolidatesSum DEF Raw
<1>6. \A r \in mergeAsh(S): IsRow(r) /\ r.text = Null /\ r.ns = NsOf(r)
  BY <1>1, <1>2
<1> QED BY <1>4, <1>5, <1>6 DEF Raw

WithText(r) == [r EXCEPT !.text = TextOf(r.qid)]

(* Giving a row its text changes no other cell of it, so neither its merge   *)
(* key nor its namespace.                                                    *)
LEMMA WithTextRow ==
  ASSUME NEW r, IsRow(r)
  PROVE  /\ IsRow(WithText(r)) /\ WithText(r).text = TextOf(r.qid)
         /\ \A f \in RowField \ {"text"}: WithText(r)[f] = r[f]
         /\ WithText(r).samples = r.samples /\ WithText(r).qid = r.qid
         /\ ashMergeKey(WithText(r)) = ashMergeKey(r)
         /\ NsOf(WithText(r)) = NsOf(r) /\ WithText(r).ns = r.ns
<1> DEFINE x == TextOf(r.qid)
           t == WithText(r)
<1>1. t = [r EXCEPT !.text = x]
  BY DEF WithText
<1> HIDE DEF x, t
<1>2. IsRow(t) /\ t.text = x /\ \A f \in RowField \ {"text"}: t[f] = r[f]
  BY <1>1 DEF IsRow, RowField
<1>3. /\ t.qid = r.qid /\ t.component = r.component /\ t.event = r.event /\ t.object = r.object
      /\ t.dbid = r.dbid /\ t.samples = r.samples /\ t.ns = r.ns
  BY <1>2 DEF RowField
<1>4. ashMergeKey(t) = ashMergeKey(r) /\ NsOf(t) = NsOf(r)
  BY <1>3 DEF ashMergeKey, NsOf
<1> QED BY <1>2, <1>3, <1>4 DEF t, x

(* Rows without texts that get the same text and cells were the same row.    *)
LEMMA WithTextInjective ==
  ASSUME NEW r, IsRow(r), r.text = Null, NEW q, IsRow(q), q.text = Null, WithText(r) = WithText(q)
  PROVE  r = q
<1>1. \A f \in RowField: r[f] = q[f]
  BY WithTextRow DEF RowField
<1> QED BY <1>1 DEF IsRow

(* enrichAshRowsQueryFromPgStat gives every row the text of its id and       *)
(* leaves the number of samples alone: no two rows become one.               *)
LEMMA EnrichedRows ==
  ASSUME NEW S, Raw(S)
  PROVE  /\ enrichAshRowsQueryFromPgStat(S) = {WithText(r): r \in S}
         /\ Enriched(enrichAshRowsQueryFromPgStat(S))
         /\ Samples(enrichAshRowsQueryFromPgStat(S)) = Samples(S)
<1> DEFINE E == enrichAshRowsQueryFromPgStat(S)
           R == [r \in S |-> WithText(r)]
           f == [e \in E |-> e.samples]
           g == [r \in S |-> r.samples]
<1>1. E = {WithText(r): r \in S}
  BY DEF enrichAshRowsQueryFromPgStat, WithText, TextOf
<1>2. \A r \in S: R[r] = WithText(r) /\ WithText(r) \in E
  BY <1>1
<1>3. E = {R[r]: r \in S}
  BY <1>1
<1>4. \A r \in S: g[r] \in Int /\ f[R[r]] = g[r]
  BY <1>2, WithTextRow DEF Raw, RowSet
<1>5. \A r, q \in S: R[r] = R[q] => r = q
  BY <1>2, WithTextInjective DEF Raw
<1>6. ASSUME NEW e \in E
      PROVE  IsRow(e) /\ e.text = TextOf(e.qid) /\ e.ns = NsOf(e)
  <2>1. PICK r \in S: e = WithText(r)
    BY <1>1
  <2>2. IsRow(r) /\ r.ns = NsOf(r)
    BY DEF Raw
  <2> QED BY <2>1, <2>2, WithTextRow
<1>7. IsFiniteSet(S)
  BY DEF Raw, RowSet
<1>8. Samples(E) = SumFunctionOnSet(f, E) /\ Samples(S) = SumFunctionOnSet(g, S)
  BY DEF Samples, SumFunction
<1> HIDE DEF R, f, g, E
<1>9. IsFiniteSet(E)
  BY <1>3, <1>7, ImageFinite
<1>10. Enriched(E)
  BY <1>6, <1>9 DEF Enriched, RowSet, IsRow
<1>11. SumFunctionOnSet(f, {R[r]: r \in S}) = SumFunctionOnSet(g, S)
  BY <1>4, <1>5, <1>7, SumRename
<1> QED BY <1>1, <1>3, <1>8, <1>10, <1>11 DEF E

(* Giving both sides their texts changes nothing about the one consolidating *)
(* the other.                                                                *)
LEMMA EnrichedConsolidates ==
  ASSUME NEW S, Raw(S), NEW T, Raw(T), NEW key, Consolidates(T, S, key),
         NEW same, \A r \in S \cup T: same[WithText(r)] = key[r]
  PROVE  Consolidates(enrichAshRowsQueryFromPgStat(T), enrichAshRowsQueryFromPgStat(S), same)
<1> DEFINE ES == enrichAshRowsQueryFromPgStat(S)
           ET == enrichAshRowsQueryFromPgStat(T)
<1>1. ES = {WithText(r): r \in S} /\ ET = {WithText(r): r \in T}
  BY EnrichedRows
<1>2. \A e \in ES: \E d \in ET: same[d] = same[e]
  BY <1>1 DEF Consolidates
<1>3. \A d \in ET: \E e \in ES: same[e] = same[d]
  BY <1>1 DEF Consolidates
<1>4. \A d, e \in ET: same[d] = same[e] => d = e
  BY <1>1 DEF Consolidates
<1>5. ASSUME NEW d \in ET
      PROVE  d.samples = Samples({e \in ES: same[e] = same[d]})
  <2>1. PICK t \in T: d = WithText(t)
    BY <1>1
  <2> DEFINE here == {r \in S: key[r] = key[t]}
  <2>2. Raw(here)
    BY RowSubset DEF Raw
  <2>3. enrichAshRowsQueryFromPgStat(here) = {e \in ES: same[e] = same[d]}
    <3>1. \A r \in S: same[WithText(r)] = same[d] <=> key[r] = key[t]
      BY <2>1
    <3>2. enrichAshRowsQueryFromPgStat(here) = {WithText(r): r \in here}
      BY <2>2, EnrichedRows
    <3> QED BY <1>1, <3>1, <3>2
  <2>4. Samples(enrichAshRowsQueryFromPgStat(here)) = Samples(here)
    BY <2>2, EnrichedRows
  <2>5. d.samples = t.samples
    <3>1. IsRow(t)
      BY DEF Raw
    <3> QED BY <2>1, <3>1, WithTextRow
  <2>6. t.samples = Samples(here)
    BY DEF Consolidates
  <2> QED BY <2>3, <2>4, <2>5, <2>6
<1> HIDE DEF ES, ET
<1>6. Consolidates(ET, ES, same)
  BY <1>2, <1>3, <1>4, <1>5 DEF Consolidates
<1> QED BY <1>6 DEF ES, ET

-----------------------------------------------------------------------------
(* Grouping: a row still has the key that it was grouped by                  *)

(* The text of a group is canonical: grouping by it again gives the same     *)
(* text, and it is null only if the text was.  This is what                  *)
(* normalizeQueryTemplate's idempotence is needed for.                       *)
LEMMA GroupText ==
  ASSUME IsDoc(newer), NEW merge \in BOOLEAN, NEW x
  PROVE  LET y == ashQueryGroupText(merge, x)
         IN ashQueryGroupText(merge, y) = y /\ (y = Null <=> x = Null)
<1> DEFINE same(z) == {s \in MergedKeys(newer): RawText[Qid[s]] = z}
           y == ashQueryGroupText(merge, x)
<1>1. MergedKeys(newer) \subseteq Stmt
  BY MergedTable
<1>2. \A z: merge /\ same(z) # {} =>
        \E s \in Stmt: RawText[Qid[s]] = z /\ ashQueryGroupText(merge, z) = Template[s]
  <2> SUFFICES ASSUME NEW z, merge, same(z) # {}
               PROVE  \E s \in Stmt: RawText[Qid[s]] = z /\ ashQueryGroupText(merge, z) = Template[s]
    OBVIOUS
  <2>1. (CHOOSE s \in same(z): TRUE) \in same(z)
    OBVIOUS
  <2>2. ashQueryGroupText(merge, z) = Template[CHOOSE s \in same(z): TRUE]
    BY DEF ashQueryGroupText
  <2> QED BY <1>1, <2>1, <2>2
<1>3. \A z: ~(merge /\ same(z) # {}) => ashQueryGroupText(merge, z) = z
  BY DEF ashQueryGroupText
<1> HIDE DEF same
<1>4. y = Null <=> x = Null
  <2>1. \A s \in Stmt: RawText[Qid[s]] # Null /\ Template[s] # Null
    BY AshAssumption
  <2> QED BY <1>2, <1>3, <2>1
<1>5. ashQueryGroupText(merge, y) = y
  <2>1. CASE ~(merge /\ same(y) # {})
    BY <1>3, <2>1
  <2>2. CASE merge /\ same(y) # {} /\ same(x) # {}
    <3>1. PICK s \in Stmt: RawText[Qid[s]] = y /\ ashQueryGroupText(merge, y) = Template[s]
      BY <1>2, <2>2
    <3>2. PICK t \in Stmt: y = Template[t]
      BY <1>2, <2>2
    <3> QED BY <3>1, <3>2, AshAssumption
  <2>3. CASE ~(merge /\ same(x) # {})
    <3>1. y = x
      BY <1>3, <2>3
    <3> QED BY <3>1
  <2> QED BY <2>1, <2>2, <2>3
<1> QED BY <1>4, <1>5

ReportRows(S) == RowSet(S) /\ \A r \in S: IsRow(r)

(* A grouped row has the cells of the heaviest row of its group, all the     *)
(* samples of the group, and is found again under the key that it was        *)
(* grouped by, although id and text may have been replaced.                  *)
LEMMA GroupRow ==
  ASSUME IsDoc(newer), NEW merge \in BOOLEAN, NEW S, ReportRows(S), NEW by,
         NEW part \in Partition(S, by)
  PROVE  LET h == Heaviest(part)
             t == Group(merge, part)
         IN /\ h \in S /\ h \in part
            /\ IsRow(t) /\ t.samples = Samples(part)
            /\ t.component = h.component /\ t.event = h.event /\ t.object = h.object
            /\ t.dbid = h.dbid /\ t.ns = h.ns
            /\ merge => t.qid = h.qid
            /\ t.text = ashQueryGroupText(merge, h.text)
            /\ ashCanonicalGroupKey(merge, t) = ashCanonicalGroupKey(merge, h)
<1> DEFINE h == Heaviest(part)
           t == Group(merge, part)
           k == Samples(part)
           q == Representative(merge, part)
           x == ashQueryGroupText(merge, h.text)
<1>1. h \in part /\ h \in S /\ IsRow(h) /\ k \in Nat
  BY PartOfRows DEF ReportRows
<1>2. t = [h EXCEPT !.samples = k, !.qid = q, !.text = ashQueryGroupText(merge, @)]
  BY DEF Group
<1>3. ashQueryGroupText(merge, x) = x /\ (x = Null <=> h.text = Null)
  BY GroupText
<1>4. q = IF merge \/ h.text # Null THEN h.qid ELSE Null
  BY DEF Representative
<1>5. x = ashQueryGroupText(merge, h.text)
  OBVIOUS
<1> HIDE DEF h, t, k, q, x
<1>6. t = [h EXCEPT !.samples = k, !.qid = q, !.text = x]
  BY <1>1, <1>2, <1>5 DEF IsRow, RowField
<1>7. /\ IsRow(t) /\ t.samples = k /\ t.qid = q /\ t.text = x
      /\ t.component = h.component /\ t.event = h.event /\ t.object = h.object
      /\ t.dbid = h.dbid /\ t.ns = h.ns
  BY <1>1, <1>6 DEF IsRow, RowField
<1>8. ashCanonicalGroupKey(merge, t) = ashCanonicalGroupKey(merge, h)
  <2>1. CASE h.text # Null
    BY <1>3, <1>5, <1>7, <2>1 DEF ashCanonicalGroupKey
  <2>2. CASE h.text = Null
    BY <1>3, <1>4, <1>7, <2>2 DEF ashCanonicalGroupKey
  <2> QED BY <2>1, <2>2
<1>9. merge => t.qid = h.qid
  BY <1>4, <1>7
<1> QED BY <1>1, <1>5, <1>7, <1>8, <1>9 DEF h, t, k

(* As PartitionConsolidates, where a row has the key of the heaviest row of  *)
(* its part.                                                                 *)
LEMMA HeaviestRepresents ==
  ASSUME NEW S, RowSet(S), NEW by, NEW R, NEW key,
         \A r \in S: key[r] = by[r],
         \A part \in Partition(S, by):
           R[part].samples = Samples(part) /\ key[R[part]] = key[Heaviest(part)]
  PROVE  Consolidates({R[part]: part \in Partition(S, by)}, S, key)
<1>1. Represents(R, S, by, key)
  BY PartOfRows DEF Represents
<1> QED BY <1>1, PartitionConsolidates

(* collapseAshMergedByCanonicalQuery: the main table with Merge similar SQL  *)
(* on consolidates the rows it is made of.                                   *)
LEMMA CollapsedConsolidates ==
  ASSUME IsDoc(newer), NEW S, ReportRows(S), NEW key,
         \A r \in S \cup collapseAshMergedByCanonicalQuery(S): key[r] = bucketKeyMain(TRUE, r)
  PROVE  Consolidates(collapseAshMergedByCanonicalQuery(S), S, key)
<1> DEFINE T == collapseAshMergedByCanonicalQuery(S)
           by == [r \in S |-> ashMergeKeyCanonical(TRUE, r)]
           R == [part \in Partition(S, by) |-> Group(TRUE, part)]
           merge == TRUE
<1>1. T = {R[part]: part \in Partition(S, by)}
  BY DEF collapseAshMergedByCanonicalQuery
<1>2. \A r \in S: key[r] = by[r]
  BY DEF bucketKeyMain
<1>3. \A part \in Partition(S, by): R[part] = Group(TRUE, part) /\ R[part] \in T
  BY <1>1
<1>4. merge \in BOOLEAN
  OBVIOUS
<1> HIDE DEF by, R
<1>5. ASSUME NEW part \in Partition(S, by)
      PROVE  R[part].samples = Samples(part) /\ key[R[part]] = key[Heaviest(part)]
  <2> DEFINE h == Heaviest(part)
             t == Group(merge, part)
  <2> HIDE DEF merge
  <2>1. /\ h \in S /\ t.samples = Samples(part)
        /\ t.component = h.component /\ t.event = h.event /\ t.object = h.object
        /\ t.dbid = h.dbid /\ ashCanonicalGroupKey(merge, t) = ashCanonicalGroupKey(merge, h)
    BY <1>4, GroupRow
  <2>2. key[t] = bucketKeyMain(TRUE, t) /\ key[h] = bucketKeyMain(TRUE, h)
    BY <1>3, <2>1 DEF merge
  <2> HIDE DEF h, t
  <2>3. key[t] = key[h]
    BY <2>1, <2>2 DEF bucketKeyMain, ashMergeKeyCanonical, merge
  <2> QED BY <1>3, <2>1, <2>3 DEF h, t, merge
<1> QED BY <1>1, <1>2, <1>5, HeaviestRepresents DEF ReportRows

(* groupAshByNamespaceQuery consolidates the rows it is made of, though its  *)
(* rows lose their object.                                                   *)
LEMMA NamespaceQueryConsolidates ==
  ASSUME IsDoc(newer), NEW merge \in BOOLEAN, NEW S, ReportRows(S), NEW key,
         \A r \in S \cup groupAshByNamespaceQuery(merge, S):
           key[r] = bucketKeyAshNamespaceQueryFlat(merge, r)
  PROVE  Consolidates(groupAshByNamespaceQuery(merge, S), S, key)
<1> DEFINE T == groupAshByNamespaceQuery(merge, S)
           by == [r \in S |-> <<r.ns, ashCanonicalGroupKey(merge, r)>>]
           R == [part \in Partition(S, by) |-> [Group(merge, part) EXCEPT !.object = Null]]
<1>1. T = {R[part]: part \in Partition(S, by)}
  BY DEF groupAshByNamespaceQuery
<1>2. \A r \in S: key[r] = by[r]
  BY DEF bucketKeyAshNamespaceQueryFlat
<1>3. \A part \in Partition(S, by):
        R[part] = [Group(merge, part) EXCEPT !.object = Null] /\ R[part] \in T
  BY <1>1
<1> HIDE DEF by, R
<1>4. ASSUME NEW part \in Partition(S, by)
      PROVE  R[part].samples = Samples(part) /\ key[R[part]] = key[Heaviest(part)]
  <2> DEFINE h == Heaviest(part)
             g == Group(merge, part)
             t == R[part]
  <2>1. /\ h \in S /\ IsRow(g) /\ g.samples = Samples(part) /\ g.ns = h.ns
        /\ ashCanonicalGroupKey(merge, g) = ashCanonicalGroupKey(merge, h)
    BY GroupRow
  <2>2. t = [g EXCEPT !.object = Null]
    BY <1>3
  <2>3. /\ key[t] = bucketKeyAshNamespaceQueryFlat(merge, t)
        /\ key[h] = bucketKeyAshNamespaceQueryFlat(merge, h)
    BY <1>3, <2>1
  <2> HIDE DEF h, g, t
  <2>4. t.samples = g.samples /\ t.ns = g.ns /\ t.text = g.text /\ t.qid = g.qid
    BY <2>1, <2>2 DEF IsRow, RowField
  <2>5. ashCanonicalGroupKey(merge, t) = ashCanonicalGroupKey(merge, g)
    BY <2>4 DEF ashCanonicalGroupKey
  <2>6. key[t] = key[h]
    BY <2>1, <2>3, <2>4, <2>5 DEF bucketKeyAshNamespaceQueryFlat
  <2> QED BY <2>1, <2>4, <2>6 DEF h, g, t
<1> QED BY <1>1, <1>2, <1>4, HeaviestRepresents DEF ReportRows

(* groupAshByQueryId, of the page of a table, consolidates the rows it is    *)
(* made of, though its rows lose object and namespace and, while merging,    *)
(* keep only one id of several.                                              *)
LEMMA QueryIdConsolidates ==
  ASSUME IsDoc(newer), NEW merge \in BOOLEAN, NEW S, ReportRows(S), NEW key,
         \A r \in S \cup groupAshByQueryId(merge, S): key[r] = bucketKeyAshQueryIdFlat(merge, r)
  PROVE  Consolidates(groupAshByQueryId(merge, S), S, key)
<1> DEFINE T == groupAshByQueryId(merge, S)
           by == [r \in S |-> IF merge THEN ashCanonicalGroupKey(merge, r) ELSE <<"qid", r.qid>>]
           R == [part \in Partition(S, by) |->
                   [Group(merge, part) EXCEPT !.object = Null, !.ns = Null,
                                              !.qid = IF merge THEN @ ELSE Heaviest(part).qid]]
<1>1. T = {R[part]: part \in Partition(S, by)}
  BY DEF groupAshByQueryId
<1>2. \A r \in S: key[r] = by[r]
  BY DEF bucketKeyAshQueryIdFlat
<1>3. \A part \in Partition(S, by):
        /\ R[part] = [Group(merge, part) EXCEPT !.object = Null, !.ns = Null,
                                                !.qid = IF merge THEN @ ELSE Heaviest(part).qid]
        /\ R[part] \in T
  BY <1>1
<1> HIDE DEF by, R
<1>4. ASSUME NEW part \in Partition(S, by)
      PROVE  R[part].samples = Samples(part) /\ key[R[part]] = key[Heaviest(part)]
  <2> DEFINE h == Heaviest(part)
             g == Group(merge, part)
             t == R[part]
  <2>1. /\ h \in S /\ IsRow(g) /\ g.samples = Samples(part)
        /\ ashCanonicalGroupKey(merge, g) = ashCanonicalGroupKey(merge, h)
    BY GroupRow
  <2>2. t = [g EXCEPT !.object = Null, !.ns = Null, !.qid = IF merge THEN @ ELSE h.qid]
    BY <1>3
  <2>3. key[t] = bucketKeyAshQueryIdFlat(merge, t) /\ key[h] = bucketKeyAshQueryIdFlat(merge, h)
    BY <1>3, <2>1
  <2> HIDE DEF h, g, t
  <2>4. /\ t.samples = g.samples /\ t.text = g.text
        /\ t.qid = IF merge THEN g.qid ELSE h.qid
    BY <2>1, <2>2 DEF IsRow, RowField
  <2>5. merge => ashCanonicalGroupKey(merge, t) = ashCanonicalGroupKey(merge, g)
    BY <2>4 DEF ashCanonicalGroupKey
  <2>6. key[t] = key[h]
    BY <2>1, <2>3, <2>4, <2>5 DEF bucketKeyAshQueryIdFlat
  <2> QED BY <2>1, <2>4, <2>6 DEF h, g, t
<1> QED BY <1>1, <1>2, <1>4, HeaviestRepresents DEF ReportRows

(* groupAshByNamespaceObjectQuery with the query in its key consolidates the *)
(* rows it is made of.                                                       *)
LEMMA NsObjQueryConsolidates ==
  ASSUME IsDoc(newer), NEW merge \in BOOLEAN, NEW S, ReportRows(S), NEW key,
         \A r \in S \cup groupAshByNamespaceObjectQuery(merge, FALSE, S):
           key[r] = bucketKeyAshNsObjQueryFlat(merge, r)
  PROVE  Consolidates(groupAshByNamespaceObjectQuery(merge, FALSE, S), S, key)
<1> DEFINE T == groupAshByNamespaceObjectQuery(merge, FALSE, S)
           by == [r \in S |-> <<r.ns, r.object, ashCanonicalGroupKey(merge, r)>>]
           R == [part \in Partition(S, by) |-> Group(merge, part)]
<1>1. T = {R[part]: part \in Partition(S, by)}
  BY DEF groupAshByNamespaceObjectQuery
<1>2. \A r \in S: key[r] = by[r]
  BY DEF bucketKeyAshNsObjQueryFlat
<1>3. \A part \in Partition(S, by): R[part] = Group(merge, part) /\ R[part] \in T
  BY <1>1
<1> HIDE DEF by, R
<1>4. ASSUME NEW part \in Partition(S, by)
      PROVE  R[part].samples = Samples(part) /\ key[R[part]] = key[Heaviest(part)]
  <2> DEFINE h == Heaviest(part)
             t == Group(merge, part)
  <2>1. /\ h \in S /\ t.samples = Samples(part) /\ t.ns = h.ns /\ t.object = h.object
        /\ ashCanonicalGroupKey(merge, t) = ashCanonicalGroupKey(merge, h)
    BY GroupRow
  <2>2. key[t] = bucketKeyAshNsObjQueryFlat(merge, t) /\ key[h] = bucketKeyAshNsObjQueryFlat(merge, h)
    BY <1>3, <2>1
  <2> HIDE DEF h, t
  <2>3. key[t] = key[h]
    BY <2>1, <2>2 DEF bucketKeyAshNsObjQueryFlat
  <2> QED BY <1>3, <2>1, <2>3 DEF h, t
<1> HIDE DEF T
<1>5. Consolidates(T, S, key)
  BY <1>1, <1>2, <1>4, HeaviestRepresents DEF ReportRows
<1> QED BY <1>5 DEF T

(* groupAshByNamespaceObjectQuery without the query in its key, of the page  *)
(* of a query, consolidates the rows it is made of.                          *)
LEMMA NsObjConsolidates ==
  ASSUME IsDoc(newer), NEW merge \in BOOLEAN, NEW S, ReportRows(S), NEW key,
         \A r \in S \cup groupAshByNamespaceObjectQuery(merge, TRUE, S):
           key[r] = bucketKeyAshNsObjBucketFlat(merge, r)
  PROVE  Consolidates(groupAshByNamespaceObjectQuery(merge, TRUE, S), S, key)
<1> DEFINE T == groupAshByNamespaceObjectQuery(merge, TRUE, S)
           by == [r \in S |-> <<r.ns, r.object>>]
           R == [part \in Partition(S, by) |-> Group(merge, part)]
<1>1. T = {R[part]: part \in Partition(S, by)}
  BY DEF groupAshByNamespaceObjectQuery
<1>2. \A r \in S: key[r] = by[r]
  BY DEF bucketKeyAshNsObjBucketFlat
<1>3. \A part \in Partition(S, by): R[part] = Group(merge, part) /\ R[part] \in T
  BY <1>1
<1> HIDE DEF by, R
<1>4. ASSUME NEW part \in Partition(S, by)
      PROVE  R[part].samples = Samples(part) /\ key[R[part]] = key[Heaviest(part)]
  <2> DEFINE h == Heaviest(part)
             t == Group(merge, part)
  <2>1. h \in S /\ t.samples = Samples(part) /\ t.ns = h.ns /\ t.object = h.object
    BY GroupRow
  <2>2. key[t] = bucketKeyAshNsObjBucketFlat(merge, t) /\ key[h] = bucketKeyAshNsObjBucketFlat(merge, h)
    BY <1>3, <2>1
  <2> HIDE DEF h, t
  <2>3. key[t] = key[h]
    BY <2>1, <2>2 DEF bucketKeyAshNsObjBucketFlat
  <2> QED BY <1>3, <2>1, <2>3 DEF h, t
<1> HIDE DEF T
<1>5. Consolidates(T, S, key)
  BY <1>1, <1>2, <1>4, HeaviestRepresents DEF ReportRows
<1> QED BY <1>5 DEF T

(* ashAggregateNsObjectBuckets consolidates the rows it is made of, though   *)
(* its rows lose id and text.                                                *)
LEMMA NsObjBucketConsolidates ==
  ASSUME IsDoc(newer), NEW merge \in BOOLEAN, NEW S, ReportRows(S), NEW key,
         \A r \in S \cup ashAggregateNsObjectBuckets(S): key[r] = bucketKeyAshNsObjBucketFlat(merge, r)
  PROVE  Consolidates(ashAggregateNsObjectBuckets(S), S, key)
<1> DEFINE T == ashAggregateNsObjectBuckets(S)
           by == [r \in S |-> <<r.ns, r.object>>]
           R == [part \in Partition(S, by) |-> [Group(FALSE, part) EXCEPT !.text = Null, !.qid = Null]]
           off == FALSE
<1>1. T = {R[part]: part \in Partition(S, by)}
  BY DEF ashAggregateNsObjectBuckets
<1>2. \A r \in S: key[r] = by[r]
  BY DEF bucketKeyAshNsObjBucketFlat
<1>3. \A part \in Partition(S, by):
        R[part] = [Group(off, part) EXCEPT !.text = Null, !.qid = Null] /\ R[part] \in T
  BY <1>1
<1>4. off \in BOOLEAN
  OBVIOUS
<1> HIDE DEF by, R, off
<1>5. ASSUME NEW part \in Partition(S, by)
      PROVE  R[part].samples = Samples(part) /\ key[R[part]] = key[Heaviest(part)]
  <2> DEFINE h == Heaviest(part)
             g == Group(off, part)
             t == R[part]
  <2>1. h \in S /\ IsRow(g) /\ g.samples = Samples(part) /\ g.ns = h.ns /\ g.object = h.object
    BY <1>4, GroupRow
  <2>2. t = [g EXCEPT !.text = Null, !.qid = Null]
    BY <1>3
  <2>3. key[t] = bucketKeyAshNsObjBucketFlat(merge, t) /\ key[h] = bucketKeyAshNsObjBucketFlat(merge, h)
    BY <1>3, <2>1
  <2> HIDE DEF h, g, t
  <2>4. t.samples = g.samples /\ t.ns = g.ns /\ t.object = g.object
    BY <2>1, <2>2 DEF IsRow, RowField
  <2>5. key[t] = key[h]
    BY <2>1, <2>3, <2>4 DEF bucketKeyAshNsObjBucketFlat
  <2> QED BY <2>1, <2>4, <2>5 DEF h, g, t
<1> QED BY <1>1, <1>2, <1>5, HeaviestRepresents DEF ReportRows

(* The report by database consolidates the rows it is made of, though its    *)
(* rows lose id, text and object.                                            *)
LEMMA ByDbConsolidates ==
  ASSUME IsDoc(newer), NEW merge \in BOOLEAN, NEW S, ReportRows(S), NEW key,
         \A r \in S \cup byDb(S): key[r] = bucketKeyAshDbFlat(merge, r)
  PROVE  Consolidates(byDb(S), S, key)
<1> DEFINE T == byDb(S)
           by == [r \in S |-> r.ns]
           R == [part \in Partition(S, by) |->
                   [Group(FALSE, part) EXCEPT !.text = Null, !.qid = Null, !.object = Null]]
           off == FALSE
<1>1. T = {R[part]: part \in Partition(S, by)}
  BY DEF byDb
<1>2. \A r \in S: key[r] = by[r]
  BY DEF bucketKeyAshDbFlat
<1>3. \A part \in Partition(S, by):
        /\ R[part] = [Group(off, part) EXCEPT !.text = Null, !.qid = Null, !.object = Null]
        /\ R[part] \in T
  BY <1>1
<1>4. off \in BOOLEAN
  OBVIOUS
<1> HIDE DEF by, R, off
<1>5. ASSUME NEW part \in Partition(S, by)
      PROVE  R[part].samples = Samples(part) /\ key[R[part]] = key[Heaviest(part)]
  <2> DEFINE h == Heaviest(part)
             g == Group(off, part)
             t == R[part]
  <2>1. h \in S /\ IsRow(g) /\ g.samples = Samples(part) /\ g.ns = h.ns
    BY <1>4, GroupRow
  <2>2. t = [g EXCEPT !.text = Null, !.qid = Null, !.object = Null]
    BY <1>3
  <2>3. key[t] = bucketKeyAshDbFlat(merge, t) /\ key[h] = bucketKeyAshDbFlat(merge, h)
    BY <1>3, <2>1
  <2> HIDE DEF h, g, t
  <2>4. t.samples = g.samples /\ t.ns = g.ns
    BY <2>1, <2>2 DEF IsRow, RowField
  <2>5. key[t] = key[h]
    BY <2>1, <2>3, <2>4 DEF bucketKeyAshDbFlat
  <2> QED BY <2>1, <2>4, <2>5 DEF h, g, t
<1> QED BY <1>1, <1>2, <1>5, HeaviestRepresents DEF ReportRows

-----------------------------------------------------------------------------
(* The reports of a panel                                                    *)

(* Rows with texts and with one merge key agree on namespace, text and       *)
(* canonical key as well: these are functions of the cells in the merge key. *)
LEMMA MergeKeyDecides ==
  ASSUME NEW merge \in BOOLEAN, NEW m, NEW r,
         m.text = TextOf(m.qid), m.ns = NsOf(m), r.text = TextOf(r.qid), r.ns = NsOf(r),
         ashMergeKey(m) = ashMergeKey(r)
  PROVE  /\ m.qid = r.qid /\ m.component = r.component /\ m.event = r.event
         /\ m.object = r.object /\ m.dbid = r.dbid /\ m.ns = r.ns
         /\ ashCanonicalGroupKey(merge, m) = ashCanonicalGroupKey(merge, r)
<1>1. /\ m.qid = r.qid /\ m.component = r.component /\ m.event = r.event
      /\ m.object = r.object /\ m.dbid = r.dbid
  BY DEF ashMergeKey
<1>2. m.text = r.text /\ m.ns = r.ns
  BY <1>1 DEF NsOf
<1> QED BY <1>1, <1>2 DEF ashCanonicalGroupKey

Flat(raw) == enrichAshRowsQueryFromPgStat(raw)
ById(raw) == enrichAshRowsQueryFromPgStat(mergeAsh(raw))

(* The rows by query id, one for all nodes and with texts, consolidate the   *)
(* rows of every node with texts.                                            *)
LEMMA MergedConsolidates ==
  ASSUME NEW raw, Raw(raw), NEW key,
         \A r \in Flat(raw) \cup ById(raw): key[r] = ashMergeKey(r)
  PROVE  /\ Enriched(Flat(raw)) /\ Enriched(ById(raw))
         /\ Consolidates(ById(raw), Flat(raw), key)
<1> DEFINE k0 == [r \in raw \cup mergeAsh(raw) |-> ashMergeKey(r)]
<1>1. \A r \in raw \cup mergeAsh(raw): k0[r] = ashMergeKey(r)
  OBVIOUS
<1> HIDE DEF k0
<1>2. Raw(mergeAsh(raw)) /\ Consolidates(mergeAsh(raw), raw, k0)
  BY <1>1, MergedRaw
<1>3. Enriched(Flat(raw)) /\ Enriched(ById(raw))
  BY <1>2, EnrichedRows DEF Flat, ById
<1>4. Flat(raw) = {WithText(r): r \in raw} /\ ById(raw) = {WithText(r): r \in mergeAsh(raw)}
  BY <1>2, EnrichedRows DEF Flat, ById
<1>5. \A r \in raw \cup mergeAsh(raw): key[WithText(r)] = k0[r]
  BY <1>1, <1>2, <1>4, WithTextRow DEF Raw
<1>6. Consolidates(ById(raw), Flat(raw), key)
  BY <1>2, <1>5, EnrichedConsolidates DEF Flat, ById
<1> QED BY <1>3, <1>6

(* What consolidates the rows by query id consolidates the rows of every     *)
(* node, if its key is determined by the merge key.                          *)
LEMMA ReportConsolidates ==
  ASSUME NEW raw, Raw(raw), NEW T, NEW key, Consolidates(T, ById(raw), key),
         \A m \in ById(raw): \A r \in Flat(raw): ashMergeKey(m) = ashMergeKey(r) => key[m] = key[r]
  PROVE  Consolidates(T, Flat(raw), key)
<1> DEFINE fine == [r \in Flat(raw) \cup ById(raw) |-> ashMergeKey(r)]
<1>1. \A r \in Flat(raw) \cup ById(raw): fine[r] = ashMergeKey(r)
  OBVIOUS
<1> HIDE DEF fine
<1>2. Enriched(Flat(raw)) /\ Consolidates(ById(raw), Flat(raw), fine)
  BY <1>1, MergedConsolidates
<1>3. \A m \in ById(raw): \A r \in Flat(raw): fine[m] = fine[r] => key[m] = key[r]
  BY <1>1
<1> QED BY <1>2, <1>3, ConsolidatesThrough DEF Enriched

(* As MergeKeyDecides, for a row by query id and a row of a node.            *)
LEMMA EnrichedDecides ==
  ASSUME NEW merge \in BOOLEAN, NEW raw, Raw(raw), NEW m \in ById(raw), NEW r \in Flat(raw),
         ashMergeKey(m) = ashMergeKey(r)
  PROVE  /\ m.qid = r.qid /\ m.component = r.component /\ m.event = r.event
         /\ m.object = r.object /\ m.dbid = r.dbid /\ m.ns = r.ns
         /\ ashCanonicalGroupKey(merge, m) = ashCanonicalGroupKey(merge, r)
<1> DEFINE fine == [q \in Flat(raw) \cup ById(raw) |-> ashMergeKey(q)]
<1>1. \A q \in Flat(raw) \cup ById(raw): fine[q] = ashMergeKey(q)
  OBVIOUS
<1> HIDE DEF fine
<1>2. Enriched(Flat(raw)) /\ Enriched(ById(raw))
  BY <1>1, MergedConsolidates
<1> QED BY <1>2, MergeKeyDecides DEF Enriched

(* The rows by query id and the rows of every node are rows that can be      *)
(* reported.                                                                 *)
LEMMA EnrichedReportRows ==
  ASSUME NEW raw, Raw(raw)
  PROVE  /\ Enriched(Flat(raw)) /\ RowSet(Flat(raw))
         /\ Enriched(ById(raw)) /\ ReportRows(ById(raw))
<1> DEFINE fine == [q \in Flat(raw) \cup ById(raw) |-> ashMergeKey(q)]
<1>1. \A q \in Flat(raw) \cup ById(raw): fine[q] = ashMergeKey(q)
  OBVIOUS
<1> HIDE DEF fine
<1> QED BY <1>1, MergedConsolidates DEF Enriched, ReportRows

(* The table of query ids on the page of a table consolidates the rows of    *)
(* every node.                                                               *)
LEMMA QueryIdFromFlat ==
  ASSUME IsDoc(newer), NEW merge \in BOOLEAN, NEW raw, Raw(raw), NEW bucketKey,
         \A r \in Flat(raw) \cup groupAshByQueryId(merge, ById(raw)):
           bucketKey[r] = bucketKeyAshQueryIdFlat(merge, r)
  PROVE  Consolidates(groupAshByQueryId(merge, ById(raw)), Flat(raw), bucketKey)
<1> DEFINE flat == Flat(raw)
           byId == ById(raw)
           T == groupAshByQueryId(merge, ById(raw))
           key == [r \in flat \cup byId \cup T |-> bucketKeyAshQueryIdFlat(merge, r)]
<1>1. \A r \in flat \cup byId \cup T: key[r] = bucketKeyAshQueryIdFlat(merge, r)
  OBVIOUS
<1> HIDE DEF key
<1>2. Consolidates(T, byId, key)
  BY <1>1, EnrichedReportRows, QueryIdConsolidates
<1>3. ASSUME NEW m \in byId, NEW r \in flat, ashMergeKey(m) = ashMergeKey(r)
      PROVE  key[m] = key[r]
  <2>1. key[m] = bucketKeyAshQueryIdFlat(merge, m) /\ key[r] = bucketKeyAshQueryIdFlat(merge, r)
    BY <1>1
  <2>2. /\ m.qid = r.qid /\ m.object = r.object /\ m.ns = r.ns
        /\ ashCanonicalGroupKey(merge, m) = ashCanonicalGroupKey(merge, r)
    BY <1>3, EnrichedDecides
  <2> QED BY <2>1, <2>2 DEF bucketKeyAshQueryIdFlat
<1>4. \A r \in flat \cup T: bucketKey[r] = key[r]
  BY <1>1
<1> HIDE DEF T
<1>5. Consolidates(T, flat, key)
  BY <1>2, <1>3, ReportConsolidates
<1>6. Consolidates(T, flat, bucketKey)
  BY <1>4, <1>5, ConsolidatesSameKeys
<1> QED BY <1>6 DEF T

(* The table of query ids on the page of a table accounts for every sample.  *)
LEMMA QueryIdAddsUp ==
  ASSUME IsDoc(newer), NEW merge \in BOOLEAN, NEW raw, Raw(raw)
  PROVE  AddsUp(merge, Flat(raw), groupAshByQueryId(merge, ById(raw)), bucketKeyAshQueryIdFlat)
<1> DEFINE T == groupAshByQueryId(merge, ById(raw))
           bucketKey == [r \in Flat(raw) \cup T |-> bucketKeyAshQueryIdFlat(merge, r)]
<1>1. \A r \in Flat(raw) \cup T: bucketKey[r] = bucketKeyAshQueryIdFlat(merge, r)
  OBVIOUS
<1> HIDE DEF bucketKey
<1>2. Consolidates(T, Flat(raw), bucketKey)
  BY <1>1, QueryIdFromFlat
<1> HIDE DEF T
<1>3. /\ Samples(T) = Samples(Flat(raw))
      /\ \A row \in T:
           SumFunction(attachAshNodeLoadDistribution(row, Flat(raw), bucketKey)) = row.samples
  BY <1>2, EnrichedReportRows, ConsolidatedAddsUp
<1> QED BY <1>3 DEF AddsUp, T, bucketKey

(* The table by namespace and query consolidates the rows of every node.     *)
LEMMA NamespaceQueryFromFlat ==
  ASSUME IsDoc(newer), NEW merge \in BOOLEAN, NEW raw, Raw(raw), NEW bucketKey,
         \A r \in Flat(raw) \cup groupAshByNamespaceQuery(merge, ById(raw)):
           bucketKey[r] = bucketKeyAshNamespaceQueryFlat(merge, r)
  PROVE  Consolidates(groupAshByNamespaceQuery(merge, ById(raw)), Flat(raw), bucketKey)
<1> DEFINE flat == Flat(raw)
           byId == ById(raw)
           T == groupAshByNamespaceQuery(merge, ById(raw))
           key == [r \in flat \cup byId \cup T |-> bucketKeyAshNamespaceQueryFlat(merge, r)]
<1>1. \A r \in flat \cup byId \cup T: key[r] = bucketKeyAshNamespaceQueryFlat(merge, r)
  OBVIOUS
<1> HIDE DEF key
<1>2. Consolidates(T, byId, key)
  BY <1>1, EnrichedReportRows, NamespaceQueryConsolidates
<1>3. ASSUME NEW m \in byId, NEW r \in flat, ashMergeKey(m) = ashMergeKey(r)
      PROVE  key[m] = key[r]
  <2>1. key[m] = bucketKeyAshNamespaceQueryFlat(merge, m) /\ key[r] = bucketKeyAshNamespaceQueryFlat(merge, r)
    BY <1>1
  <2>2. /\ m.qid = r.qid /\ m.object = r.object /\ m.ns = r.ns
        /\ ashCanonicalGroupKey(merge, m) = ashCanonicalGroupKey(merge, r)
    BY <1>3, EnrichedDecides
  <2> QED BY <2>1, <2>2 DEF bucketKeyAshNamespaceQueryFlat
<1>4. \A r \in flat \cup T: bucketKey[r] = key[r]
  BY <1>1
<1> HIDE DEF T
<1>5. Consolidates(T, flat, key)
  BY <1>2, <1>3, ReportConsolidates
<1>6. Consolidates(T, flat, bucketKey)
  BY <1>4, <1>5, ConsolidatesSameKeys
<1> QED BY <1>6 DEF T

(* The table by namespace and query accounts for every sample.               *)
LEMMA NamespaceQueryAddsUp ==
  ASSUME IsDoc(newer), NEW merge \in BOOLEAN, NEW raw, Raw(raw)
  PROVE  AddsUp(merge, Flat(raw), groupAshByNamespaceQuery(merge, ById(raw)), bucketKeyAshNamespaceQueryFlat)
<1> DEFINE T == groupAshByNamespaceQuery(merge, ById(raw))
           bucketKey == [r \in Flat(raw) \cup T |-> bucketKeyAshNamespaceQueryFlat(merge, r)]
<1>1. \A r \in Flat(raw) \cup T: bucketKey[r] = bucketKeyAshNamespaceQueryFlat(merge, r)
  OBVIOUS
<1> HIDE DEF bucketKey
<1>2. Consolidates(T, Flat(raw), bucketKey)
  BY <1>1, NamespaceQueryFromFlat
<1> HIDE DEF T
<1>3. /\ Samples(T) = Samples(Flat(raw))
      /\ \A row \in T:
           SumFunction(attachAshNodeLoadDistribution(row, Flat(raw), bucketKey)) = row.samples
  BY <1>2, EnrichedReportRows, ConsolidatedAddsUp
<1> QED BY <1>3 DEF AddsUp, T, bucketKey

(* The table by namespace and object consolidates the rows of every node.    *)
LEMMA NsObjBucketFromFlat ==
  ASSUME IsDoc(newer), NEW merge \in BOOLEAN, NEW raw, Raw(raw), NEW bucketKey,
         \A r \in Flat(raw) \cup ashAggregateNsObjectBuckets(ById(raw)):
           bucketKey[r] = bucketKeyAshNsObjBucketFlat(merge, r)
  PROVE  Consolidates(ashAggregateNsObjectBuckets(ById(raw)), Flat(raw), bucketKey)
<1> DEFINE flat == Flat(raw)
           byId == ById(raw)
           T == ashAggregateNsObjectBuckets(ById(raw))
           key == [r \in flat \cup byId \cup T |-> bucketKeyAshNsObjBucketFlat(merge, r)]
<1>1. \A r \in flat \cup byId \cup T: key[r] = bucketKeyAshNsObjBucketFlat(merge, r)
  OBVIOUS
<1> HIDE DEF key
<1>2. Consolidates(T, byId, key)
  BY <1>1, EnrichedReportRows, NsObjBucketConsolidates
<1>3. ASSUME NEW m \in byId, NEW r \in flat, ashMergeKey(m) = ashMergeKey(r)
      PROVE  key[m] = key[r]
  <2>1. key[m] = bucketKeyAshNsObjBucketFlat(merge, m) /\ key[r] = bucketKeyAshNsObjBucketFlat(merge, r)
    BY <1>1
  <2>2. /\ m.qid = r.qid /\ m.object = r.object /\ m.ns = r.ns
        /\ ashCanonicalGroupKey(merge, m) = ashCanonicalGroupKey(merge, r)
    BY <1>3, EnrichedDecides
  <2> QED BY <2>1, <2>2 DEF bucketKeyAshNsObjBucketFlat
<1>4. \A r \in flat \cup T: bucketKey[r] = key[r]
  BY <1>1
<1> HIDE DEF T
<1>5. Consolidates(T, flat, key)
  BY <1>2, <1>3, ReportConsolidates
<1>6. Consolidates(T, flat, bucketKey)
  BY <1>4, <1>5, ConsolidatesSameKeys
<1> QED BY <1>6 DEF T

(* The table by namespace and object accounts for every sample.              *)
LEMMA NsObjBucketAddsUp ==
  ASSUME IsDoc(newer), NEW merge \in BOOLEAN, NEW raw, Raw(raw)
  PROVE  AddsUp(merge, Flat(raw), ashAggregateNsObjectBuckets(ById(raw)), bucketKeyAshNsObjBucketFlat)
<1> DEFINE T == ashAggregateNsObjectBuckets(ById(raw))
           bucketKey == [r \in Flat(raw) \cup T |-> bucketKeyAshNsObjBucketFlat(merge, r)]
<1>1. \A r \in Flat(raw) \cup T: bucketKey[r] = bucketKeyAshNsObjBucketFlat(merge, r)
  OBVIOUS
<1> HIDE DEF bucketKey
<1>2. Consolidates(T, Flat(raw), bucketKey)
  BY <1>1, NsObjBucketFromFlat
<1> HIDE DEF T
<1>3. /\ Samples(T) = Samples(Flat(raw))
      /\ \A row \in T:
           SumFunction(attachAshNodeLoadDistribution(row, Flat(raw), bucketKey)) = row.samples
  BY <1>2, EnrichedReportRows, ConsolidatedAddsUp
<1> QED BY <1>3 DEF AddsUp, T, bucketKey

(* The table by namespace, object and query consolidates the rows of every   *)
(* node.                                                                     *)
LEMMA NsObjQueryFromFlat ==
  ASSUME IsDoc(newer), NEW merge \in BOOLEAN, NEW raw, Raw(raw), NEW bucketKey,
         \A r \in Flat(raw) \cup groupAshByNamespaceObjectQuery(merge, FALSE, ById(raw)):
           bucketKey[r] = bucketKeyAshNsObjQueryFlat(merge, r)
  PROVE  Consolidates(groupAshByNamespaceObjectQuery(merge, FALSE, ById(raw)), Flat(raw), bucketKey)
<1> DEFINE flat == Flat(raw)
           byId == ById(raw)
           T == groupAshByNamespaceObjectQuery(merge, FALSE, ById(raw))
           key == [r \in flat \cup byId \cup T |-> bucketKeyAshNsObjQueryFlat(merge, r)]
<1>1. \A r \in flat \cup byId \cup T: key[r] = bucketKeyAshNsObjQueryFlat(merge, r)
  OBVIOUS
<1> HIDE DEF key
<1>2. Consolidates(T, byId, key)
  BY <1>1, EnrichedReportRows, NsObjQueryConsolidates
<1>3. ASSUME NEW m \in byId, NEW r \in flat, ashMergeKey(m) = ashMergeKey(r)
      PROVE  key[m] = key[r]
  <2>1. key[m] = bucketKeyAshNsObjQueryFlat(merge, m) /\ key[r] = bucketKeyAshNsObjQueryFlat(merge, r)
    BY <1>1
  <2>2. /\ m.qid = r.qid /\ m.object = r.object /\ m.ns = r.ns
        /\ ashCanonicalGroupKey(merge, m) = ashCanonicalGroupKey(merge, r)
    BY <1>3, EnrichedDecides
  <2> QED BY <2>1, <2>2 DEF bucketKeyAshNsObjQueryFlat
<1>4. \A r \in flat \cup T: bucketKey[r] = key[r]
  BY <1>1
<1> HIDE DEF T
<1>5. Consolidates(T, flat, key)
  BY <1>2, <1>3, ReportConsolidates
<1>6. Consolidates(T, flat, bucketKey)
  BY <1>4, <1>5, ConsolidatesSameKeys
<1> QED BY <1>6 DEF T

(* The table by namespace, object and query accounts for every sample.       *)
LEMMA NsObjQueryAddsUp ==
  ASSUME IsDoc(newer), NEW merge \in BOOLEAN, NEW raw, Raw(raw)
  PROVE  AddsUp(merge, Flat(raw), groupAshByNamespaceObjectQuery(merge, FALSE, ById(raw)),
                bucketKeyAshNsObjQueryFlat)
<1> DEFINE T == groupAshByNamespaceObjectQuery(merge, FALSE, ById(raw))
           bucketKey == [r \in Flat(raw) \cup T |-> bucketKeyAshNsObjQueryFlat(merge, r)]
<1>1. \A r \in Flat(raw) \cup T: bucketKey[r] = bucketKeyAshNsObjQueryFlat(merge, r)
  OBVIOUS
<1> HIDE DEF bucketKey
<1>2. Consolidates(T, Flat(raw), bucketKey)
  BY <1>1, NsObjQueryFromFlat
<1> HIDE DEF T
<1>3. /\ Samples(T) = Samples(Flat(raw))
      /\ \A row \in T:
           SumFunction(attachAshNodeLoadDistribution(row, Flat(raw), bucketKey)) = row.samples
  BY <1>2, EnrichedReportRows, ConsolidatedAddsUp
<1> QED BY <1>3 DEF AddsUp, T, bucketKey

(* The table of objects on the page of a query consolidates the rows of      *)
(* every node.                                                               *)
LEMMA NsObjFromFlat ==
  ASSUME IsDoc(newer), NEW merge \in BOOLEAN, NEW raw, Raw(raw), NEW bucketKey,
         \A r \in Flat(raw) \cup groupAshByNamespaceObjectQuery(merge, TRUE, ById(raw)):
           bucketKey[r] = bucketKeyAshNsObjBucketFlat(merge, r)
  PROVE  Consolidates(groupAshByNamespaceObjectQuery(merge, TRUE, ById(raw)), Flat(raw), bucketKey)
<1> DEFINE flat == Flat(raw)
           byId == ById(raw)
           T == groupAshByNamespaceObjectQuery(merge, TRUE, ById(raw))
           key == [r \in flat \cup byId \cup T |-> bucketKeyAshNsObjBucketFlat(merge, r)]
<1>1. \A r \in flat \cup byId \cup T: key[r] = bucketKeyAshNsObjBucketFlat(merge, r)
  OBVIOUS
<1> HIDE DEF key
<1>2. Consolidates(T, byId, key)
  BY <1>1, EnrichedReportRows, NsObjConsolidates
<1>3. ASSUME NEW m \in byId, NEW r \in flat, ashMergeKey(m) = ashMergeKey(r)
      PROVE  key[m] = key[r]
  <2>1. key[m] = bucketKeyAshNsObjBucketFlat(merge, m) /\ key[r] = bucketKeyAshNsObjBucketFlat(merge, r)
    BY <1>1
  <2>2. /\ m.qid = r.qid /\ m.object = r.object /\ m.ns = r.ns
        /\ ashCanonicalGroupKey(merge, m) = ashCanonicalGroupKey(merge, r)
    BY <1>3, EnrichedDecides
  <2> QED BY <2>1, <2>2 DEF bucketKeyAshNsObjBucketFlat
<1>4. \A r \in flat \cup T: bucketKey[r] = key[r]
  BY <1>1
<1> HIDE DEF T
<1>5. Consolidates(T, flat, key)
  BY <1>2, <1>3, ReportConsolidates
<1>6. Consolidates(T, flat, bucketKey)
  BY <1>4, <1>5, ConsolidatesSameKeys
<1> QED BY <1>6 DEF T

(* The table of objects on the page of a query accounts for every sample.    *)
LEMMA NsObjAddsUp ==
  ASSUME IsDoc(newer), NEW merge \in BOOLEAN, NEW raw, Raw(raw)
  PROVE  AddsUp(merge, Flat(raw), groupAshByNamespaceObjectQuery(merge, TRUE, ById(raw)),
                bucketKeyAshNsObjBucketFlat)
<1> DEFINE T == groupAshByNamespaceObjectQuery(merge, TRUE, ById(raw))
           bucketKey == [r \in Flat(raw) \cup T |-> bucketKeyAshNsObjBucketFlat(merge, r)]
<1>1. \A r \in Flat(raw) \cup T: bucketKey[r] = bucketKeyAshNsObjBucketFlat(merge, r)
  OBVIOUS
<1> HIDE DEF bucketKey
<1>2. Consolidates(T, Flat(raw), bucketKey)
  BY <1>1, NsObjFromFlat
<1> HIDE DEF T
<1>3. /\ Samples(T) = Samples(Flat(raw))
      /\ \A row \in T:
           SumFunction(attachAshNodeLoadDistribution(row, Flat(raw), bucketKey)) = row.samples
  BY <1>2, EnrichedReportRows, ConsolidatedAddsUp
<1> QED BY <1>3 DEF AddsUp, T, bucketKey

(* The rows of the main table of a panel: those by query id, or the same     *)
(* merged by canonical text.                                                 *)
Main(merge, raw) == IF merge THEN collapseAshMergedByCanonicalQuery(ById(raw)) ELSE ById(raw)

(* A row merged by canonical text still has the namespace that its cells     *)
(* determine: component, object and database are in the key.                 *)
LEMMA CollapsedRows ==
  ASSUME IsDoc(newer), NEW S, Enriched(S)
  PROVE  \A t \in collapseAshMergedByCanonicalQuery(S): IsRow(t) /\ t.ns = NsOf(t)
<1> DEFINE by == [r \in S |-> ashMergeKeyCanonical(TRUE, r)]
           merge == TRUE
<1> SUFFICES ASSUME NEW t \in collapseAshMergedByCanonicalQuery(S)
             PROVE  IsRow(t) /\ t.ns = NsOf(t)
  OBVIOUS
<1>1. PICK part \in Partition(S, by): t = Group(merge, part)
  BY DEF collapseAshMergedByCanonicalQuery
<1>2. merge \in BOOLEAN /\ ReportRows(S)
  BY DEF Enriched, ReportRows
<1> DEFINE h == Heaviest(part)
<1> HIDE DEF by, merge
<1>3. /\ h \in S /\ IsRow(t) /\ t.ns = h.ns
      /\ t.component = h.component /\ t.object = h.object /\ t.dbid = h.dbid
  BY <1>1, <1>2, GroupRow
<1> HIDE DEF h
<1> QED BY <1>3 DEF Enriched, NsOf

(* The main table of a panel, merged by text or not, consolidates the rows   *)
(* of every node.                                                            *)
LEMMA MainConsolidates ==
  ASSUME IsDoc(newer), NEW merge \in BOOLEAN, NEW raw, Raw(raw), NEW key,
         \A r \in Flat(raw) \cup Main(merge, raw): key[r] = bucketKeyMain(merge, r)
  PROVE  Consolidates(Main(merge, raw), Flat(raw), key)
<1>1. CASE ~merge
  <2>1. Main(merge, raw) = ById(raw)
    BY <1>1 DEF Main
  <2>2. \A r \in Flat(raw) \cup ById(raw): key[r] = ashMergeKey(r)
    BY <1>1, <2>1 DEF bucketKeyMain
  <2> QED BY <2>1, <2>2, MergedConsolidates
<1>2. CASE merge
  <2> DEFINE T == collapseAshMergedByCanonicalQuery(ById(raw))
             all == [r \in Flat(raw) \cup ById(raw) \cup T |-> bucketKeyMain(TRUE, r)]
             on == TRUE
  <2>1. \A r \in Flat(raw) \cup ById(raw) \cup T: all[r] = bucketKeyMain(TRUE, r)
    OBVIOUS
  <2>2. Main(merge, raw) = T
    BY <1>2 DEF Main
  <2>3. \A r \in Flat(raw) \cup T: key[r] = all[r]
    BY <1>2, <2>2 DEF bucketKeyMain
  <2>4. on \in BOOLEAN
    OBVIOUS
  <2> HIDE DEF all
  <2>5. Consolidates(T, ById(raw), all)
    BY <2>1, EnrichedReportRows, CollapsedConsolidates
  <2>6. ASSUME NEW m \in ById(raw), NEW r \in Flat(raw), ashMergeKey(m) = ashMergeKey(r)
        PROVE  all[m] = all[r]
    <3>1. all[m] = bucketKeyMain(on, m) /\ all[r] = bucketKeyMain(on, r)
      BY <2>1
    <3> HIDE DEF on
    <3>2. /\ m.component = r.component /\ m.event = r.event
          /\ m.object = r.object /\ m.dbid = r.dbid
          /\ ashCanonicalGroupKey(on, m) = ashCanonicalGroupKey(on, r)
      BY <2>4, <2>6, EnrichedDecides
    <3> QED BY <2>6, <3>1, <3>2 DEF bucketKeyMain, ashMergeKeyCanonical
  <2> HIDE DEF T
  <2>7. Consolidates(T, Flat(raw), all)
    BY <2>5, <2>6, ReportConsolidates
  <2> QED BY <2>2, <2>3, <2>7, ConsolidatesSameKeys
<1> QED BY <1>1, <1>2

(* The main table of a panel accounts for every sample.                      *)
LEMMA MainAddsUp ==
  ASSUME IsDoc(newer), NEW merge \in BOOLEAN, NEW raw, Raw(raw)
  PROVE  AddsUp(merge, Flat(raw), Main(merge, raw), bucketKeyMain)
<1> DEFINE flat == Flat(raw)
           T == Main(merge, raw)
           bucketKey == [r \in flat \cup T |-> bucketKeyMain(merge, r)]
<1>1. \A r \in flat \cup T: bucketKey[r] = bucketKeyMain(merge, r)
  OBVIOUS
<1> HIDE DEF bucketKey
<1>2. Consolidates(T, flat, bucketKey)
  BY <1>1, MainConsolidates
<1>3. /\ Samples(T) = Samples(flat)
      /\ \A row \in T: SumFunction(attachAshNodeLoadDistribution(row, flat, bucketKey)) = row.samples
  BY <1>2, EnrichedReportRows, ConsolidatedAddsUp
<1> QED BY <1>3 DEF AddsUp, bucketKey

(* The table by database, which is made of the rows of the main table and    *)
(* not of those by query id, accounts for every sample.                      *)
LEMMA ByDbAddsUp ==
  ASSUME IsDoc(newer), NEW merge \in BOOLEAN, NEW raw, Raw(raw)
  PROVE  AddsUp(merge, Flat(raw), byDb(Main(merge, raw)), bucketKeyAshDbFlat)
<1> DEFINE flat == Flat(raw)
           main == Main(merge, raw)
           T == byDb(main)
           fine == [r \in flat \cup main |-> bucketKeyMain(merge, r)]
           key == [r \in flat \cup main \cup T |-> bucketKeyAshDbFlat(merge, r)]
           bucketKey == [r \in flat \cup T |-> bucketKeyAshDbFlat(merge, r)]
<1>1. \A r \in flat \cup main \cup T: key[r] = bucketKeyAshDbFlat(merge, r)
  OBVIOUS
<1>2. \A r \in flat \cup T: bucketKey[r] = key[r]
  OBVIOUS
<1>3. \A r \in flat \cup main: fine[r] = bucketKeyMain(merge, r)
  OBVIOUS
<1> HIDE DEF key, bucketKey, fine
<1>4. Consolidates(main, flat, fine)
  BY <1>3, MainConsolidates
<1>5. RowSet(flat) /\ \A r \in flat: r.ns = NsOf(r)
  BY EnrichedReportRows DEF Enriched
<1>6. \A m \in main: IsRow(m) /\ m.ns = NsOf(m)
  <2>1. Enriched(ById(raw))
    BY EnrichedReportRows
  <2>2. CASE merge
    BY <2>1, <2>2, CollapsedRows DEF Main
  <2>3. CASE ~merge
    BY <2>1, <2>3 DEF Main, Enriched
  <2> QED BY <2>2, <2>3
<1>7. ReportRows(main)
  BY <1>4, <1>5, <1>6, ConsolidatesSum DEF ReportRows
<1>8. Consolidates(T, main, key)
  BY <1>1, <1>7, ByDbConsolidates
<1>9. ASSUME NEW m \in main, NEW r \in flat, fine[m] = fine[r]
      PROVE  key[m] = key[r]
  <2>1. bucketKeyMain(merge, m) = bucketKeyMain(merge, r)
    BY <1>3, <1>9
  <2>2. m.component = r.component /\ m.object = r.object /\ m.dbid = r.dbid
    BY <2>1 DEF bucketKeyMain, ashMergeKey, ashMergeKeyCanonical
  <2>3. m.ns = r.ns
    BY <1>5, <1>6, <2>2 DEF NsOf
  <2> QED BY <1>1, <2>3 DEF bucketKeyAshDbFlat
<1> HIDE DEF T, main
<1>10. Consolidates(T, flat, bucketKey)
  <2>1. Consolidates(T, flat, key)
    BY <1>4, <1>5, <1>8, <1>9, ConsolidatesThrough
  <2> QED BY <1>2, <2>1, ConsolidatesSameKeys
<1>11. /\ Samples(T) = Samples(flat)
       /\ \A row \in T: SumFunction(attachAshNodeLoadDistribution(row, flat, bucketKey)) = row.samples
  BY <1>5, <1>10, ConsolidatedAddsUp
<1> QED BY <1>11 DEF AddsUp, T, main, bucketKey

(* Recurring query templates account for every sample, those without a text  *)
(* among them.                                                               *)
LEMMA TemplatesAddUp ==
  ASSUME NEW raw, Raw(raw)
  PROVE  LET templates == groupAshByTemplate(ById(raw))
         IN SumFunction([k \in DOMAIN templates |-> templates[k].samples]) = Samples(Flat(raw))
<1> DEFINE S == ById(raw)
           of == [r \in S |-> ashCanonicalGroupKey(TRUE, [r EXCEPT !.qid = Null])]
           K == {of[r]: r \in S}
           templates == groupAshByTemplate(S)
           g == [k \in DOMAIN templates |-> templates[k].samples]
           f == [r \in S |-> r.samples]
<1>1. DOMAIN templates = K
  BY DEF groupAshByTemplate
<1>2. ASSUME NEW k \in K
      PROVE  g[k] = Samples({r \in S: of[r] = k})
  <2>1. templates[k].samples =
          Samples({r \in S: ashCanonicalGroupKey(TRUE, [r EXCEPT !.qid = Null]) = k})
    BY <1>1 DEF groupAshByTemplate
  <2>2. {r \in S: of[r] = k} = {r \in S: ashCanonicalGroupKey(TRUE, [r EXCEPT !.qid = Null]) = k}
    OBVIOUS
  <2> QED BY <1>1, <2>1, <2>2
<1>3. RowSet(S)
  BY EnrichedReportRows DEF ReportRows
<1>4. \A r \in S: of[r] \in K /\ f[r] = r.samples /\ f[r] \in Int
  <2>1. \A r \in S: r.samples \in Nat
    BY <1>3 DEF RowSet
  <2> HIDE DEF of, S
  <2> QED BY <2>1
<1>5. SumFunction(g) = SumFunctionOnSet(g, K) /\ Samples(S) = SumFunctionOnSet(f, S)
  BY <1>1 DEF SumFunction, Samples
<1>6. Samples(S) = Samples(Flat(raw))
  <2> DEFINE fine == [q \in Flat(raw) \cup ById(raw) |-> ashMergeKey(q)]
  <2>1. \A q \in Flat(raw) \cup ById(raw): fine[q] = ashMergeKey(q)
    OBVIOUS
  <2> HIDE DEF fine
  <2>2. Consolidates(S, Flat(raw), fine)
    BY <2>1, MergedConsolidates
  <2> QED BY <2>2, EnrichedReportRows, ConsolidatesSum
<1> HIDE DEF f, of
<1>7. IsFiniteSet(K)
  BY <1>3, ImageFinite DEF RowSet
<1> HIDE DEF g
<1>8. ASSUME NEW k \in K
      PROVE  g[k] = SumFunctionOnSet(f, {r \in S: of[r] = k})
  <2> DEFINE here == {r \in S: of[r] = k}
             h == [r \in here |-> r.samples]
  <2>1. IsFiniteSet(here) /\ \A r \in here: f[r] \in Int /\ h[r] = f[r]
    BY <1>3, <1>4, FS_Subset DEF RowSet
  <2>2. Samples(here) = SumFunctionOnSet(h, here)
    BY DEF Samples, SumFunction
  <2> HIDE DEF h, here
  <2>3. SumFunctionOnSet(h, here) = SumFunctionOnSet(f, here)
    BY <2>1, SumEqual
  <2> QED BY <1>2, <2>2, <2>3 DEF here
<1> HIDE DEF K, S
<1>9. KeyedSums(g, f, of, S, K)
  BY <1>4, <1>8 DEF KeyedSums
<1>10. SumFunctionOnSet(g, K) = SumFunctionOnSet(f, S)
  BY <1>3, <1>7, <1>9, SumPartition DEF RowSet
<1> QED BY <1>5, <1>6, <1>10 DEF g, S

-----------------------------------------------------------------------------
(* The tablet reports                                                        *)

(* The tablet reports per table, per node and per cloud, region and zone     *)
(* (app.js:2346-2466) count the same ready replicas.                         *)
LEMMA TabletReportsAgreeInvariant ==
  ASSUME AshTypeOK
  PROVE  TabletReportsAgree
<1> DEFINE F == filterLocalTabletsDataReady
           node == [p \in F |-> p[1]]
           table == [p \in F |-> TableOf[p[2]]]
           zone == [p \in F |-> Crz[p[1]]]
           byTable == tabletsPerTableReport
           tables == {table[p]: p \in F}
           zones == {zone[p]: p \in F}
           sums == [t \in DOMAIN byTable |-> TotalOf(byTable[t])]
<1>1. IsFiniteSet(F) /\ IsFiniteSet(Node)
  <2>1. IsFiniteSet(Node \X Tablet)
    BY FS_Product, StatementsAssumption, AshAssumption
  <2>2. F \subseteq Node \X Tablet
    BY DEF filterLocalTabletsDataReady
  <2> QED BY <2>1, <2>2, FS_Subset, StatementsAssumption
<1>2. TotalOf(tabletsPerNodeReport) = Cardinality(F)
  <2> DEFINE g == tabletsPerNodeReport
  <2>1. TotalOf(g) = SumFunctionOnSet(g, Node)
    BY DEF TotalOf, SumFunction, tabletsPerNodeReport
  <2>2. \A p \in F: node[p] \in Node
    BY DEF filterLocalTabletsDataReady
  <2>3. \A n \in Node: g[n] = Cardinality({p \in F: node[p] = n})
    <3>1. \A n: {p \in F: node[p] = n} = {p \in F: p[1] = n}
      OBVIOUS
    <3> QED BY <3>1 DEF tabletsPerNodeReport
  <2> HIDE DEF g, F, node
  <2>4. SumFunctionOnSet(g, Node) = Cardinality(F)
    <3>1. KeyedCounts(g, node, F, Node)
      BY <2>2, <2>3 DEF KeyedCounts
    <3> QED BY <1>1, <3>1, CardinalityByKey
  <2> QED BY <2>1, <2>4 DEF g
<1>3. TotalOf(tabletsPerCloudRegionZoneReport) = Cardinality(F)
  <2> DEFINE g == tabletsPerCloudRegionZoneReport
  <2>1. zones = {Crz[p[1]]: p \in F}
    OBVIOUS
  <2>2. TotalOf(g) = SumFunctionOnSet(g, zones)
    BY <2>1 DEF TotalOf, SumFunction, tabletsPerCloudRegionZoneReport
  <2>3. \A p \in F: zone[p] \in zones
    OBVIOUS
  <2>4. \A z \in zones: g[z] = Cardinality({p \in F: zone[p] = z})
    <3>1. \A z: {p \in F: zone[p] = z} = {p \in F: Crz[p[1]] = z}
      OBVIOUS
    <3> QED BY <2>1, <3>1 DEF tabletsPerCloudRegionZoneReport
  <2> HIDE DEF g, F, zone
  <2>5. IsFiniteSet(zones)
    BY <1>1, ImageFinite
  <2> HIDE DEF zones
  <2>6. SumFunctionOnSet(g, zones) = Cardinality(F)
    <3>1. KeyedCounts(g, zone, F, zones)
      BY <2>3, <2>4 DEF KeyedCounts
    <3> QED BY <1>1, <2>5, <3>1, CardinalityByKey
  <2> QED BY <2>2, <2>6 DEF g
<1>4. DOMAIN byTable = tables
  <2>1. tables = {TableOf[p[2]]: p \in F}
    OBVIOUS
  <2> QED BY <2>1 DEF tabletsPerTableReport
<1>5. ASSUME NEW t \in tables
      PROVE  TotalOf(byTable[t]) = Cardinality({p \in F: table[p] = t})
  <2> DEFINE here == {p \in F: table[p] = t}
             nodes == {node[p]: p \in here}
             g == byTable[t]
  <2>1. here = {p \in F: TableOf[p[2]] = t} /\ here \subseteq F
    OBVIOUS
  <2>2. nodes = {p[1]: p \in here}
    OBVIOUS
  <2>3. tables = {TableOf[p[2]]: p \in F}
    OBVIOUS
  <2>4. g = [n \in nodes |-> Cardinality({p \in F: p[1] = n /\ TableOf[p[2]] = t})]
    <3>1. g = [n \in {p[1]: p \in {q \in F: TableOf[q[2]] = t}} |->
                 Cardinality({p \in F: p[1] = n /\ TableOf[p[2]] = t})]
      BY <2>3 DEF tabletsPerTableReport
    <3> QED BY <2>1, <2>2, <3>1
  <2>5. TotalOf(g) = SumFunctionOnSet(g, nodes)
    BY <2>4 DEF TotalOf, SumFunction
  <2>6. \A p \in here: node[p] \in nodes
    OBVIOUS
  <2>7. \A n \in nodes: g[n] = Cardinality({p \in here: node[p] = n})
    <3>1. \A n: {p \in here: node[p] = n} = {p \in F: p[1] = n /\ TableOf[p[2]] = t}
      OBVIOUS
    <3> QED BY <2>4, <3>1
  <2>8. IsFiniteSet(here)
    BY <1>1, FS_Subset
  <2> HIDE DEF g, F, node, here
  <2>9. IsFiniteSet(nodes)
    BY <2>8, ImageFinite
  <2> HIDE DEF nodes
  <2>10. SumFunctionOnSet(g, nodes) = Cardinality(here)
    <3>1. KeyedCounts(g, node, here, nodes)
      BY <2>6, <2>7 DEF KeyedCounts
    <3> QED BY <2>8, <2>9, <3>1, CardinalityByKey
  <2> QED BY <2>5, <2>10 DEF g, here
<1>6. SumFunction(sums) = Cardinality(F)
  <2>1. SumFunction(sums) = SumFunctionOnSet(sums, tables)
    BY <1>4 DEF SumFunction
  <2>2. \A t \in tables: sums[t] = Cardinality({p \in F: table[p] = t})
    BY <1>4, <1>5
  <2>3. \A p \in F: table[p] \in tables
    OBVIOUS
  <2> HIDE DEF sums, F, table
  <2>4. IsFiniteSet(tables)
    BY <1>1, ImageFinite
  <2> HIDE DEF tables
  <2>5. SumFunctionOnSet(sums, tables) = Cardinality(F)
    <3>1. KeyedCounts(sums, table, F, tables)
      BY <2>2, <2>3 DEF KeyedCounts
    <3> QED BY <1>1, <2>4, <3>1, CardinalityByKey
  <2> QED BY <2>1, <2>5
<1> QED BY <1>2, <1>3, <1>6 DEF TabletReportsAgree

-----------------------------------------------------------------------------
(* The reports of every state                                                *)

(* Every report of the panel adds up, whatever the document lists, whatever  *)
(* was sampled and wherever the tablets are.                                 *)
LEMMA ReportsAddUpInvariant == IsDoc(newer) /\ AshTypeOK => ReportsAddUp
<1> SUFFICES ASSUME IsDoc(newer), AshTypeOK
             PROVE  ReportsAddUp
  OBVIOUS
<1>1. ASSUME NEW merge \in BOOLEAN, NEW scope \in Scopes
      PROVE  LET flat == enrichAshRowsQueryFromPgStat(scope.rows)
                 byId == enrichAshRowsQueryFromPgStat(mergeAsh(scope.rows))
                 main == IF merge THEN collapseAshMergedByCanonicalQuery(byId) ELSE byId
                 templates == groupAshByTemplate(byId)
             IN /\ AddsUp(merge, flat, main, bucketKeyMain)
                /\ AddsUp(merge, flat, groupAshByQueryId(merge, byId), bucketKeyAshQueryIdFlat)
                /\ AddsUp(merge, flat, groupAshByNamespaceQuery(merge, byId),
                          bucketKeyAshNamespaceQueryFlat)
                /\ AddsUp(merge, flat, ashAggregateNsObjectBuckets(byId), bucketKeyAshNsObjBucketFlat)
                /\ AddsUp(merge, flat, groupAshByNamespaceObjectQuery(merge, FALSE, byId),
                          bucketKeyAshNsObjQueryFlat)
                /\ AddsUp(merge, flat, groupAshByNamespaceObjectQuery(merge, TRUE, byId),
                          bucketKeyAshNsObjBucketFlat)
                /\ AddsUp(merge, flat, byDb(main), bucketKeyAshDbFlat)
                /\ SumFunction([k \in DOMAIN templates |-> templates[k].samples]) = Samples(flat)
  <2> DEFINE raw == scope.rows
  <2>1. Raw(raw)
    BY ScopesRaw
  <2> HIDE DEF raw
  <2>2. AddsUp(merge, Flat(raw), Main(merge, raw), bucketKeyMain)
    BY <2>1, MainAddsUp
  <2>3. AddsUp(merge, Flat(raw), groupAshByQueryId(merge, ById(raw)), bucketKeyAshQueryIdFlat)
    BY <2>1, QueryIdAddsUp
  <2>4. AddsUp(merge, Flat(raw), groupAshByNamespaceQuery(merge, ById(raw)),
               bucketKeyAshNamespaceQueryFlat)
    BY <2>1, NamespaceQueryAddsUp
  <2>5. AddsUp(merge, Flat(raw), ashAggregateNsObjectBuckets(ById(raw)), bucketKeyAshNsObjBucketFlat)
    BY <2>1, NsObjBucketAddsUp
  <2>6. AddsUp(merge, Flat(raw), groupAshByNamespaceObjectQuery(merge, FALSE, ById(raw)),
               bucketKeyAshNsObjQueryFlat)
    BY <2>1, NsObjQueryAddsUp
  <2>7. AddsUp(merge, Flat(raw), groupAshByNamespaceObjectQuery(merge, TRUE, ById(raw)),
               bucketKeyAshNsObjBucketFlat)
    BY <2>1, NsObjAddsUp
  <2>8. AddsUp(merge, Flat(raw), byDb(Main(merge, raw)), bucketKeyAshDbFlat)
    BY <2>1, ByDbAddsUp
  <2>9. LET templates == groupAshByTemplate(ById(raw))
        IN SumFunction([k \in DOMAIN templates |-> templates[k].samples]) = Samples(Flat(raw))
    BY <2>1, TemplatesAddUp
  <2> QED BY <2>2, <2>3, <2>4, <2>5, <2>6, <2>7, <2>8, <2>9 DEF Flat, ById, Main, raw
<1> QED BY <1>1, TabletReportsAgreeInvariant DEF ReportsAddUp

AshVars == <<vars, ashVars>>

AshStep ==
  \/ Next /\ UNCHANGED ashVars
  \/ AshNext /\ UNCHANGED vars

(* Samples and placements keep their types, and documents do not touch them. *)
LEMMA AshTypeNext == AshTypeOK /\ [AshStep]_AshVars => AshTypeOK'
<1> SUFFICES ASSUME AshTypeOK, [AshStep]_AshVars
             PROVE  AshTypeOK'
  OBVIOUS
<1> USE DEF AshTypeOK
<1>1. CASE UNCHANGED ashVars
  BY <1>1 DEF ashVars
<1>2. ASSUME NEW n \in Node, NEW s \in Session, Sample(n, s)
      PROVE  AshTypeOK'
  BY <1>2 DEF Sample
<1>3. ASSUME NEW n \in Node, NEW t \in Tablet, NEW state \in TabletState \cup {Null},
             Place(n, t, state)
      PROVE  AshTypeOK'
  BY <1>3 DEF Place
<1> QED BY <1>1, <1>2, <1>3 DEF AshStep, AshVars, AshNext, ashVars

(* The invariant of the statements is not touched by samples and tablets.    *)
LEMMA AshInv == AshSpec => [](IInv /\ AshTypeOK)
<1>1. Init /\ AshInit => IInv /\ AshTypeOK
  <2>1. AshInit => AshTypeOK
    BY DEF AshInit, AshTypeOK
  <2> QED BY <2>1, IInvInit
<1>2. IInv /\ AshTypeOK /\ [AshStep]_AshVars => IInv' /\ AshTypeOK'
  <2>1. [AshStep]_AshVars => [Next]_vars
    BY DEF AshStep, AshVars
  <2> QED BY <2>1, IInvNext, AshTypeNext
<1> QED BY <1>1, <1>2, PTL DEF AshSpec, AshStep, AshVars

(* ReportsAddUp: in every state, every breakdown of the ASH panel, in every  *)
(* scope, with Merge similar SQL on and off, accounts for every sample once, *)
(* in its rows and in their Load Distribution % (app.js:1862-2290,           *)
(* :5383-5760), for any nodes, sessions, tablets and texts; and the tablet   *)
(* reports agree.                                                            *)
THEOREM ReportsAgree == AshSpec => []ReportsAddUp
<1>1. IInv /\ AshTypeOK => ReportsAddUp
  BY ReportsAddUpInvariant DEF IInv, TypeOK
<1> QED BY <1>1, AshInv, PTL

-----------------------------------------------------------------------------
(* The report of a family                                                    *)

(* The canonical text of the text of a listed statement is the statement's   *)
(* template, whichever statement of the same text is found first.            *)
LEMMA TextOfStatement ==
  ASSUME IsDoc(newer), NEW s \in MergedKeys(newer)
  PROVE  ashQueryGroupText(TRUE, TextOf(Qid[s])) = Template[s]
<1> DEFINE x == TextOf(Qid[s])
           same == {t \in MergedKeys(newer): RawText[Qid[t]] = x}
<1>1. x = RawText[Qid[s]]
  BY DEF TextOf, buildPgStatQueryTextByQueryId
<1>2. MergedKeys(newer) \subseteq Stmt
  BY MergedTable
<1>3. s \in same
  BY <1>1
<1>4. ashQueryGroupText(TRUE, x) = Template[CHOOSE t \in same: TRUE]
  BY <1>3 DEF ashQueryGroupText
<1>5. (CHOOSE t \in same: TRUE) \in same
  BY <1>3
<1>6. \A t \in same: Template[t] = Template[s]
  BY <1>1, <1>2, AshAssumption
<1> HIDE DEF same
<1> QED BY <1>4, <1>5, <1>6

(* The text of background work is its label, which no statement shares and   *)
(* canonicalisation leaves alone.                                            *)
LEMMA TextOfBackground ==
  ASSUME IsDoc(newer), NEW b \in Background
  PROVE  /\ TextOf(b) = RawText[b]
         /\ ashQueryGroupText(TRUE, TextOf(b)) = RawText[b]
<1>1. MergedKeys(newer) \subseteq Stmt
  BY MergedTable
<1>2. TextOf(b) = RawText[b]
  BY DEF TextOf
<1>3. {s \in MergedKeys(newer): RawText[Qid[s]] = RawText[b]} = {}
  BY <1>1, AshAssumption
<1> QED BY <1>2, <1>3 DEF ashQueryGroupText

(* What a row with a text stands for: the samples of some rows of the nodes  *)
(* with the same text, and the id of one with the same text.                 *)
Speaks(row) ==
  /\ TextOf(row.qid) # Null /\ ashQueryGroupText(TRUE, TextOf(row.qid)) = row.text
  /\ \E B \in SUBSET AllRows:
       /\ row.samples = Samples(B)
       /\ \A r \in B: TextOf(r.qid) # Null /\ ashQueryGroupText(TRUE, TextOf(r.qid)) = row.text

Named(T) ==
  \A t \in T: \E h \in ById(AllRows):
    t.qid = h.qid /\ t.text = ashQueryGroupText(TRUE, h.text)

(* A row with a text, of a report that consolidates the rows of every node   *)
(* under a key that determines the canonical key, speaks for rows with its   *)
(* text.                                                                     *)
LEMMA ConsolidatedSpeaks ==
  ASSUME IsDoc(newer), AshTypeOK, NEW T, Named(T), NEW key, Consolidates(T, Flat(AllRows), key),
         \A t \in T: \A r \in Flat(AllRows): key[r] = key[t] =>
           ashCanonicalGroupKey(TRUE, r) = ashCanonicalGroupKey(TRUE, t),
         NEW row \in T, row.text # Null
  PROVE  Speaks(row)
<1>1. Raw(AllRows)
  BY AllRowsRaw
<1>2. Enriched(Flat(AllRows)) /\ Enriched(ById(AllRows))
  BY <1>1, EnrichedReportRows
<1>3. PICK h \in ById(AllRows): row.qid = h.qid /\ row.text = ashQueryGroupText(TRUE, h.text)
  BY DEF Named
<1>4. h.text = TextOf(row.qid)
  BY <1>2, <1>3 DEF Enriched
<1>5. /\ ashQueryGroupText(TRUE, row.text) = row.text
      /\ h.text # Null
  <2> DEFINE on == TRUE
  <2>1. on \in BOOLEAN /\ row.text = ashQueryGroupText(on, h.text)
    BY <1>3
  <2> HIDE DEF on
  <2>2. ashQueryGroupText(on, row.text) = row.text /\ h.text # Null
    BY <2>1, GroupText
  <2> QED BY <2>2 DEF on
<1> DEFINE F == {r \in Flat(AllRows): key[r] = key[row]}
           B == {r \in AllRows: WithText(r) \in F}
<1>6. row.samples = Samples(F)
  BY DEF Consolidates
<1>7. Raw(B)
  BY <1>1, RowSubset DEF Raw
<1>8. Flat(B) = F
  <2>1. Flat(B) = {WithText(r): r \in B}
    BY <1>7, EnrichedRows DEF Flat
  <2>2. Flat(AllRows) = {WithText(r): r \in AllRows}
    BY <1>1, EnrichedRows DEF Flat
  <2> QED BY <2>1, <2>2
<1>9. Samples(F) = Samples(B)
  BY <1>7, <1>8, EnrichedRows DEF Flat
<1>10. ASSUME NEW r \in B
       PROVE  TextOf(r.qid) # Null /\ ashQueryGroupText(TRUE, TextOf(r.qid)) = row.text
  <2> DEFINE e == WithText(r)
  <2>1. e \in Flat(AllRows) /\ key[e] = key[row]
    OBVIOUS
  <2>2. e.text = TextOf(r.qid)
    BY <1>7, WithTextRow DEF Raw
  <2>3. ashCanonicalGroupKey(TRUE, e) = ashCanonicalGroupKey(TRUE, row)
    BY <2>1
  <2>4. ashCanonicalGroupKey(TRUE, row) = <<"text", row.text>>
    BY <1>5 DEF ashCanonicalGroupKey
  <2> HIDE DEF e
  <2>5. e.text # Null
    BY <2>3, <2>4 DEF ashCanonicalGroupKey
  <2>6. ashCanonicalGroupKey(TRUE, e) = <<"text", ashQueryGroupText(TRUE, e.text)>>
    BY <2>5 DEF ashCanonicalGroupKey
  <2> DEFINE x == ashQueryGroupText(TRUE, e.text)
  <2>7. <<"text", x>> = <<"text", row.text>>
    BY <2>3, <2>4, <2>6
  <2> HIDE DEF x
  <2>8. x = row.text
    BY <2>7
  <2> QED BY <2>2, <2>5, <2>8 DEF x
<1>11. B \in SUBSET AllRows
  OBVIOUS
<1> HIDE DEF F, B
<1> QED BY <1>3, <1>4, <1>5, <1>6, <1>9, <1>10, <1>11 DEF Speaks

(* A row of a report that groups by canonical text has the id and the        *)
(* canonical text of one row by query id.                                    *)
LEMMA NamedRows ==
  ASSUME IsDoc(newer), AshTypeOK
  PROVE  /\ Named(collapseAshMergedByCanonicalQuery(ById(AllRows)))
         /\ Named(groupAshByNamespaceQuery(TRUE, ById(AllRows)))
         /\ Named(groupAshByNamespaceObjectQuery(TRUE, FALSE, ById(AllRows)))
<1> DEFINE S == ById(AllRows)
           on == TRUE
<1>1. ReportRows(S) /\ on \in BOOLEAN
  BY AllRowsRaw, EnrichedReportRows
<1>2. ASSUME NEW by, NEW part \in Partition(S, by)
      PROVE  LET t == Group(on, part)
             IN IsRow(t) /\ \E h \in S: t.qid = h.qid /\ t.text = ashQueryGroupText(on, h.text)
  <2> HIDE DEF S
  <2>1. on
    OBVIOUS
  <2> HIDE DEF on
  <2> DEFINE h == Heaviest(part)
             t == Group(on, part)
  <2>2. h \in S /\ IsRow(t) /\ (on => t.qid = h.qid) /\ t.text = ashQueryGroupText(on, h.text)
    BY <1>1, GroupRow
  <2>3. t.qid = h.qid
    BY <2>1, <2>2
  <2> HIDE DEF h, t
  <2> QED BY <2>2, <2>3 DEF t
<1>3. Named(collapseAshMergedByCanonicalQuery(S))
  <2>1. ASSUME NEW t \in collapseAshMergedByCanonicalQuery(S)
        PROVE  \E by: \E part \in Partition(S, by): t = Group(on, part)
    BY DEF collapseAshMergedByCanonicalQuery
  <2> HIDE DEF S
  <2> QED BY <1>2, <2>1 DEF Named, S
<1>4. Named(groupAshByNamespaceObjectQuery(TRUE, FALSE, S))
  <2>1. ASSUME NEW t \in groupAshByNamespaceObjectQuery(TRUE, FALSE, S)
        PROVE  \E by: \E part \in Partition(S, by): t = Group(on, part)
    BY DEF groupAshByNamespaceObjectQuery
  <2> HIDE DEF S
  <2> QED BY <1>2, <2>1 DEF Named, S
<1>5. Named(groupAshByNamespaceQuery(TRUE, S))
  <2>1. ASSUME NEW t \in groupAshByNamespaceQuery(TRUE, S)
        PROVE  \E by: \E part \in Partition(S, by): t = [Group(on, part) EXCEPT !.object = Null]
    BY DEF groupAshByNamespaceQuery
  <2>2. ASSUME NEW g, IsRow(g), NEW t, t = [g EXCEPT !.object = Null]
        PROVE  t.qid = g.qid /\ t.text = g.text
    BY <2>2 DEF IsRow, RowField
  <2>3. ASSUME NEW t \in groupAshByNamespaceQuery(TRUE, S)
        PROVE  \E h \in S: t.qid = h.qid /\ t.text = ashQueryGroupText(on, h.text)
    <3>1. PICK by: \E part \in Partition(S, by): t = [Group(on, part) EXCEPT !.object = Null]
      BY <2>1
    <3>2. PICK part \in Partition(S, by): t = [Group(on, part) EXCEPT !.object = Null]
      BY <3>1
    <3> DEFINE g == Group(on, part)
    <3>3. IsRow(g) /\ \E h \in S: g.qid = h.qid /\ g.text = ashQueryGroupText(on, h.text)
      BY <1>2
    <3>4. t = [g EXCEPT !.object = Null]
      BY <3>2
    <3> HIDE DEF g, S
    <3>5. t.qid = g.qid /\ t.text = g.text
      BY <2>2, <3>3, <3>4
    <3> QED BY <3>3, <3>5
  <2> QED BY <2>3 DEF Named
<1> QED BY <1>3, <1>4, <1>5

(* So do the rows with a text of the three reports that link to a canonical  *)
(* text.                                                                     *)
LEMMA RowsSpeak ==
  ASSUME IsDoc(newer), AshTypeOK,
         NEW row \in collapseAshMergedByCanonicalQuery(ById(AllRows))
                       \cup groupAshByNamespaceQuery(TRUE, ById(AllRows))
                       \cup groupAshByNamespaceObjectQuery(TRUE, FALSE, ById(AllRows)),
         row.text # Null
  PROVE  Speaks(row)
<1> DEFINE flat == Flat(AllRows)
           byId == ById(AllRows)
           on == TRUE
<1>1. Raw(AllRows) /\ on \in BOOLEAN
  BY AllRowsRaw
<1>2. CASE row \in collapseAshMergedByCanonicalQuery(byId)
  <2> DEFINE T == collapseAshMergedByCanonicalQuery(byId)
             key == [r \in flat \cup T |-> bucketKeyMain(on, r)]
  <2>1. \A r \in flat \cup T: key[r] = bucketKeyMain(on, r)
    OBVIOUS
  <2>2. T = Main(on, AllRows) /\ Named(T)
    BY NamedRows DEF Main
  <2> HIDE DEF key, T
  <2>3. Consolidates(T, flat, key)
    <3> HIDE DEF on
    <3> QED BY <1>1, <2>1, <2>2, MainConsolidates
  <2>4. ASSUME NEW t \in T, NEW r \in flat, key[r] = key[t]
        PROVE  ashCanonicalGroupKey(TRUE, r) = ashCanonicalGroupKey(TRUE, t)
    <3>1. bucketKeyMain(on, r) = bucketKeyMain(on, t)
      BY <2>1, <2>4
    <3> QED BY <3>1 DEF bucketKeyMain, ashMergeKeyCanonical
  <2> QED BY <1>2, <2>2, <2>3, <2>4, ConsolidatedSpeaks DEF T
<1>3. CASE row \in groupAshByNamespaceQuery(TRUE, byId)
  <2> DEFINE T == groupAshByNamespaceQuery(on, byId)
             key == [r \in flat \cup T |-> bucketKeyAshNamespaceQueryFlat(on, r)]
  <2>1. \A r \in flat \cup T: key[r] = bucketKeyAshNamespaceQueryFlat(on, r)
    OBVIOUS
  <2>2. Named(T)
    BY NamedRows
  <2> HIDE DEF key
  <2>3. Consolidates(T, flat, key)
    <3> HIDE DEF on
    <3> QED BY <1>1, <2>1, NamespaceQueryFromFlat
  <2> HIDE DEF T
  <2>4. ASSUME NEW t \in T, NEW r \in flat, key[r] = key[t]
        PROVE  ashCanonicalGroupKey(TRUE, r) = ashCanonicalGroupKey(TRUE, t)
    <3>1. bucketKeyAshNamespaceQueryFlat(on, r) = bucketKeyAshNamespaceQueryFlat(on, t)
      BY <2>1, <2>4
    <3> QED BY <3>1 DEF bucketKeyAshNamespaceQueryFlat
  <2> QED BY <1>3, <2>2, <2>3, <2>4, ConsolidatedSpeaks DEF T
<1>4. CASE row \in groupAshByNamespaceObjectQuery(TRUE, FALSE, byId)
  <2> DEFINE T == groupAshByNamespaceObjectQuery(on, FALSE, byId)
             key == [r \in flat \cup T |-> bucketKeyAshNsObjQueryFlat(on, r)]
  <2>1. \A r \in flat \cup T: key[r] = bucketKeyAshNsObjQueryFlat(on, r)
    OBVIOUS
  <2>2. Named(T)
    BY NamedRows
  <2> HIDE DEF key
  <2>3. Consolidates(T, flat, key)
    <3> HIDE DEF on
    <3> QED BY <1>1, <2>1, NsObjQueryFromFlat
  <2> HIDE DEF T
  <2>4. ASSUME NEW t \in T, NEW r \in flat, key[r] = key[t]
        PROVE  ashCanonicalGroupKey(TRUE, r) = ashCanonicalGroupKey(TRUE, t)
    <3>1. bucketKeyAshNsObjQueryFlat(on, r) = bucketKeyAshNsObjQueryFlat(on, t)
      BY <2>1, <2>4
    <3> QED BY <3>1 DEF bucketKeyAshNsObjQueryFlat
  <2> QED BY <1>4, <2>2, <2>3, <2>4, ConsolidatedSpeaks DEF T
<1> QED BY <1>2, <1>3, <1>4

(* An id that is listed leads to a family that it belongs to, and to at      *)
(* least one.                                                                *)
LEMMA FamiliesOfId ==
  ASSUME IsDoc(newer), NEW qid,
         NEW families, families = resolveCanonicalStatementFamily(mergeStatements(newer), qid, NoDb)
  PROVE  /\ families = {} => \A s \in MergedKeys(newer): Qid[s] # qid
         /\ \A f \in families: \E s \in MergedKeys(newer): Qid[s] = qid /\ f = Family(s)
<1> DEFINE merged == mergeStatements(newer)
           all == {Family(s): s \in {t \in DOMAIN merged: Qid[t] = qid}}
           ms == [f \in all |-> FamilyMs(merged, f)]
<1>1. DOMAIN merged = MergedKeys(newer) /\ MergedKeys(newer) \subseteq Stmt
  BY MergedTable
<1>2. families = {f \in all: \A g \in all: FamilyMs(merged, f) >= FamilyMs(merged, g)}
  <2>1. {f \in all: NoDb # NoDb /\ f[2] = NoDb} = {}
    OBVIOUS
  <2> QED BY <2>1 DEF resolveCanonicalStatementFamily
<1>3. \A s \in DOMAIN merged: merged[s].exec \in Int
  <2>1. ASSUME NEW s \in DOMAIN merged
        PROVE  merged[s].exec \in Int
    <3>1. s \in Stmt /\ merged[s] = Before(merged, s)
      BY <1>1 DEF Before
    <3>2. merged[s].exec = Exec(newer, s)
      BY <3>1, MergedTable
    <3>3. Exec(newer, s) \in Nat
      BY <3>1, TotalType
    <3> QED BY <3>2, <3>3
  <2> QED BY <2>1
<1>4. ASSUME NEW f \in all
      PROVE  ms[f] \in Int
  <2> DEFINE M == Members(merged, f)
             g == [s \in M |-> Rounded(merged[s].exec)]
  <2>1. M \subseteq Stmt /\ M \subseteq DOMAIN merged
    BY <1>1 DEF Members
  <2>2. IsFiniteSet(M)
    BY <2>1, FS_Subset, StatementsAssumption
  <2>3. \A s \in M: g[s] \in Int
    BY <1>3, <2>1, RoundedInt
  <2>4. ms[f] = SumFunctionOnSet(g, M)
    BY DEF FamilyMs, SumFunction
  <2> HIDE DEF g, M
  <2> QED BY <2>2, <2>3, <2>4, SumIsInt
<1>5. IsFiniteSet(all)
  <2> DEFINE K == {t \in DOMAIN merged: Qid[t] = qid}
             family == [t \in K |-> Family(t)]
  <2>1. IsFiniteSet(K)
    BY <1>1, FS_Subset, StatementsAssumption
  <2>2. all = {family[t]: t \in K}
    OBVIOUS
  <2> HIDE DEF K, family
  <2> QED BY <2>1, <2>2, ImageFinite
<1>6. \A f \in all: ms[f] = FamilyMs(merged, f)
  OBVIOUS
<1>7. ASSUME families = {}
      PROVE  all = {}
  <2> HIDE DEF all, ms, merged
  <2>1. all # {} => \E f \in all: \A g \in all: ms[f] >= ms[g]
    BY <1>4, <1>5, GreatestExists
  <2> QED BY <1>2, <1>6, <1>7, <2>1
<1>8. families = {} => \A s \in MergedKeys(newer): Qid[s] # qid
  BY <1>1, <1>7
<1>9. ASSUME NEW f \in families
      PROVE  \E s \in MergedKeys(newer): Qid[s] = qid /\ f = Family(s)
  <2>1. f \in all
    BY <1>2
  <2> QED BY <1>1, <2>1
<1> QED BY <1>8, <1>9

(* More rows have no fewer samples.                                          *)
LEMMA SamplesMonotone ==
  ASSUME NEW S, RowSet(S), NEW B \in SUBSET S
  PROVE  Samples(S) >= Samples(B)
<1> DEFINE f == [r \in S |-> r.samples]
           g == [r \in B |-> r.samples]
<1>1. Samples(S) = SumFunctionOnSet(f, S) /\ Samples(B) = SumFunctionOnSet(g, B)
  BY DEF Samples, SumFunction
<1>2. IsFiniteSet(S) /\ IsFiniteSet(B) /\ IsFiniteSet(S \ B)
  BY FS_Subset DEF RowSet
<1>3. \A r \in S: f[r] \in Nat /\ f[r] \in Int
  BY DEF RowSet
<1>4. \A r \in B: f[r] \in Int /\ g[r] = f[r]
  BY <1>3
<1> HIDE DEF f, g
<1>5. SumFunctionOnSet(f, S) = SumFunctionOnSet(f, B) + SumFunctionOnSet(f, S \ B)
  BY <1>2, <1>3, SumSplit
<1>6. SumFunctionOnSet(g, B) = SumFunctionOnSet(f, B)
  BY <1>2, <1>4, SumEqual
<1>7. SumFunctionOnSet(f, S \ B) \in Nat
  BY <1>2, <1>3, SumIsNat
<1>8. SumFunctionOnSet(f, B) \in Int
  BY <1>2, <1>4, SumIsInt
<1> QED BY <1>1, <1>5, <1>6, <1>7, <1>8

(* The report that the canonical text of a row leads to has all the samples  *)
(* of the row, whatever was sampled.                                         *)
LEMMA FamilyCoversRowInvariant == IsDoc(newer) /\ AshTypeOK => FamilyCoversRow
<1> DEFINE listed == MergedKeys(newer)
           text(r) == ashQueryGroupText(TRUE, TextOf(r.qid))
           sameText(x) == {t \in listed: Template[t] = x}
           oneDb(x) == Cardinality({Db[s]: s \in sameText(x)}) <= 1
<1> SUFFICES ASSUME IsDoc(newer), AshTypeOK,
                    NEW row \in collapseAshMergedByCanonicalQuery(ById(AllRows))
                                  \cup groupAshByNamespaceQuery(TRUE, ById(AllRows))
                                  \cup groupAshByNamespaceObjectQuery(TRUE, FALSE, ById(AllRows)),
                    row.text # Null, oneDb(row.text),
                    NEW report \in FamilyScopes(row.qid, NoDb)
             PROVE  Samples(report) >= row.samples
  BY DEF FamilyCoversRow, ById
<1>1. RowSet(AllRows)
  BY AllRowsRaw DEF Raw
<1>2. Speaks(row)
  BY RowsSpeak
<1>3. TextOf(row.qid) # Null /\ text(row) = row.text
  BY <1>2 DEF Speaks
<1>4. PICK B \in SUBSET AllRows:
        row.samples = Samples(B) /\ \A r \in B: TextOf(r.qid) # Null /\ text(r) = row.text
  BY <1>2 DEF Speaks
<1>5. listed \subseteq Stmt
  BY MergedTable
<1>6. ASSUME NEW r, TextOf(r.qid) # Null
      PROVE  \/ r.qid \in Background /\ text(r) = RawText[r.qid]
             \/ \E s \in listed: r.qid = Qid[s] /\ text(r) = Template[s]
  <2>1. r.qid \in Background \/ \E s \in listed: r.qid = Qid[s]
    BY <1>6 DEF TextOf, buildPgStatQueryTextByQueryId
  <2> HIDE DEF listed
  <2>2. CASE r.qid \in Background
    BY <2>2, TextOfBackground
  <2>3. ASSUME NEW s \in listed, r.qid = Qid[s]
        PROVE  text(r) = Template[s]
    <3>1. ashQueryGroupText(TRUE, TextOf(Qid[s])) = Template[s]
      BY TextOfStatement DEF listed
    <3> QED BY <2>3, <3>1
  <2> HIDE DEF text
  <2> QED BY <2>1, <2>2, <2>3
<1> DEFINE families == resolveCanonicalStatementFamily(mergeStatements(newer), row.qid, NoDb)
<1> HIDE DEF text
<1>7. /\ families = {} => \A s \in listed: Qid[s] # row.qid
      /\ \A f \in families: \E s \in listed: Qid[s] = row.qid /\ f = Family(s)
  BY FamiliesOfId
<1>8. CASE families = {}
  <2>1. row.qid \in Background /\ row.text = RawText[row.qid]
    BY <1>3, <1>6, <1>7, <1>8
  <2>2. report = {r \in AllRows: r.qid = row.qid}
    BY <1>8 DEF FamilyScopes, filterAshPerNodeByQueryId
  <2>3. ASSUME NEW r \in B
        PROVE  r.qid = row.qid
    <3>1. TextOf(r.qid) # Null /\ text(r) = RawText[row.qid]
      BY <1>4, <2>1
    <3>2. CASE r.qid \in Background /\ text(r) = RawText[r.qid]
      BY <2>1, <3>1, <3>2, AshAssumption
    <3>3. ASSUME NEW s \in listed, text(r) = Template[s]
          PROVE  FALSE
      BY <1>5, <2>1, <3>1, <3>3, AshAssumption
    <3> QED BY <1>6, <3>1, <3>2, <3>3
  <2>4. B \in SUBSET report /\ report \in SUBSET AllRows
    BY <2>2, <2>3
  <2> QED BY <1>1, <1>4, <2>4, RowSubset, SamplesMonotone
<1>9. CASE families # {}
  <2>1. PICK f \in families:
          report = {r \in AllRows: r.qid \in {Qid[s]: s \in Members(mergeStatements(newer), f)}}
    BY <1>9 DEF FamilyScopes, filterAshPerNodeByCanonicalFamily
  <2>2. PICK s \in listed: Qid[s] = row.qid /\ f = Family(s)
    BY <1>7
  <2>3. Template[s] = row.text
    <3>1. row.qid \notin Background
      BY <1>5, <2>2, AshAssumption
    <3>2. PICK t \in listed: row.qid = Qid[t] /\ row.text = Template[t]
      BY <1>3, <1>6, <3>1
    <3> QED BY <1>5, <2>2, <3>2, StatementsAssumption
  <2>4. ASSUME NEW t \in listed, Template[t] = row.text
        PROVE  Family(t) = f
    <3> DEFINE S == sameText(row.text)
               dbs == {Db[u]: u \in S}
               db == [u \in S |-> Db[u]]
    <3>1. IsFiniteSet(S)
      BY <1>5, FS_Subset, StatementsAssumption
    <3>2. {db[u]: u \in S} = dbs
      OBVIOUS
    <3>3. Db[t] \in dbs /\ Db[s] \in dbs
      BY <2>3, <2>4
    <3>4. Cardinality(dbs) <= 1
      OBVIOUS
    <3> HIDE DEF S, db
    <3>5. IsFiniteSet({db[u]: u \in S})
      BY <3>1, ImageFinite
    <3>6. IsFiniteSet(dbs)
      BY <3>2, <3>5
    <3> HIDE DEF dbs
    <3>7. Db[t] = Db[s]
      <4>1. SUFFICES ASSUME Db[t] # Db[s]
                     PROVE  FALSE
        OBVIOUS
      <4> DEFINE rest == dbs \ {Db[t]}
      <4>2. Cardinality(rest) = Cardinality(dbs) - 1 /\ IsFiniteSet(rest)
        BY <3>3, <3>6, FS_RemoveElement
      <4>3. Cardinality(dbs) \in Nat /\ Cardinality(rest) \in Nat
        BY <3>6, <4>2, FS_CardinalityType
      <4>4. Cardinality(rest) = 0
        BY <3>4, <4>2, <4>3
      <4>5. rest = {}
        BY <4>2, <4>4, FS_EmptySet
      <4> QED BY <3>3, <4>1, <4>5
    <3> QED BY <2>2, <2>3, <2>4, <3>7 DEF Family
  <2>5. ASSUME NEW r \in B
        PROVE  r \in report
    <3>1. TextOf(r.qid) # Null /\ text(r) = Template[s]
      BY <1>4, <2>3
    <3>2. ~(r.qid \in Background /\ text(r) = RawText[r.qid])
      BY <1>5, <3>1, AshAssumption
    <3>3. PICK t \in listed: r.qid = Qid[t] /\ text(r) = Template[t]
      BY <1>6, <3>1, <3>2
    <3>4. Family(t) = f
      BY <2>3, <2>4, <3>1, <3>3
    <3>5. t \in Members(mergeStatements(newer), f)
      BY <3>4, MergedTable DEF Members
    <3> QED BY <1>4, <2>1, <3>3, <3>5
  <2>6. B \in SUBSET report /\ report \in SUBSET AllRows
    BY <2>1, <2>5
  <2> QED BY <1>1, <1>4, <2>6, RowSubset, SamplesMonotone
<1> QED BY <1>8, <1>9

(* FamilyCoversRow: in every state, the report of the family that the        *)
(* canonical text of a row leads to, found through one id and without a      *)
(* database (app.js:4179, :5266), has at least the samples of the row, as    *)
(* long as the shape is listed in one database.                              *)
THEOREM FamiliesCoverRows == AshSpec => []FamilyCoversRow
<1>1. IInv /\ AshTypeOK => FamilyCoversRow
  BY FamilyCoversRowInvariant DEF IInv, TypeOK
<1> QED BY <1>1, AshInv, PTL
=============================================================================
