--------------------------- MODULE StatementsProofs ---------------------------
(* What Statements guarantees for any finite sets of nodes and statements,   *)
(* any measured times and any limit: one inductive invariant for             *)
(* DeltaIsTruth; what the other properties say holds of any two documents.   *)
EXTENDS Statements, SumTheorems

(* Rounded times are integers.                                               *)
LEMMA RoundedInt == \A x \in Int: Rounded(x) \in Int /\ RoundedToEven(x) \in Int
BY DEF Rounded, RoundedToEven

-----------------------------------------------------------------------------
(* Rows.  What is added up is added column by column, every bucket of the    *)
(* histogram being a column of its own.                                      *)

CallsColumn == -2
ExecColumn == -1
Columns == (-2)..NB
Column(row, c) ==
  IF c = CallsColumn THEN row.calls ELSE IF c = ExecColumn THEN row.exec ELSE row.buckets[c]

(* The two columns that are no buckets, and the buckets.                     *)
LEMMA ColumnsAre ==
  /\ NB \in Nat /\ IsFiniteSet(0..NB)
  /\ CallsColumn \in Columns /\ ExecColumn \in Columns
  /\ \A b \in 0..NB: b \in Columns /\ b # CallsColumn /\ b # ExecColumn
  /\ \A c \in Columns: c = CallsColumn \/ c = ExecColumn \/ c \in 0..NB
  /\ \A row: Column(row, CallsColumn) = row.calls /\ Column(row, ExecColumn) = row.exec
  /\ \A row: \A b \in 0..NB: Column(row, b) = row.buckets[b]
<1>1. NB \in Nat
  BY StatementsAssumption
<1>2. IsFiniteSet(0..NB)
  BY <1>1, FS_Interval
<1> QED BY <1>1, <1>2 DEF CallsColumn, ExecColumn, Columns, Column

(* The columns of a row are numbers, and its buckets add up to its calls.    *)
LEMMA RowType ==
  ASSUME NEW max \in Nat, NEW row \in Row(max)
  PROVE  /\ row.calls \in 0..max /\ row.exec \in Nat
         /\ row.calls = 0 => row.exec = 0
         /\ row = [calls |-> row.calls, exec |-> row.exec, buckets |-> row.buckets]
         /\ row.buckets \in [0..NB -> Nat]
         /\ SumFunctionOnSet(row.buckets, 0..NB) = row.calls
         /\ \A c \in Columns: Column(row, c) \in Nat
<1>1. /\ row \in [calls: 0..max, exec: Nat, buckets: [0..NB -> Nat]]
      /\ CallsOf(row.buckets) = row.calls
      /\ row.calls = 0 => row.exec = 0
  BY DEF Row
<1>2. row.buckets \in [0..NB -> Nat]
  BY <1>1
<1>3. CallsOf(row.buckets) = SumFunctionOnSet(row.buckets, 0..NB)
  BY <1>2 DEF CallsOf, SumFunction
<1>4. row.calls \in Nat /\ row.exec \in Nat
  BY <1>1
<1>5. ASSUME NEW c \in Columns
      PROVE  Column(row, c) \in Nat
  <2>1. CASE c \in 0..NB
    <3>1. Column(row, c) = row.buckets[c]
      BY <2>1, ColumnsAre
    <3> QED BY <1>2, <2>1, <3>1
  <2>2. CASE c = CallsColumn \/ c = ExecColumn
    BY <1>4, <2>2, ColumnsAre
  <2> QED BY <2>1, <2>2, ColumnsAre
<1> QED BY <1>1, <1>2, <1>3, <1>5

(* The row of zeros.                                                         *)
LEMMA NoRowType ==
  /\ \A max \in Nat: NoRow \in Row(max)
  /\ \A c \in Columns: Column(NoRow, c) = 0
  /\ NoRow.calls = 0 /\ NoRow.exec = 0
<1> DEFINE zeros == [b \in 0..NB |-> 0]
<1>1. CallsOf(zeros) = SumFunctionOnSet(zeros, 0..NB)
  BY DEF CallsOf, SumFunction
<1>2. \A b \in 0..NB: zeros[b] = 0
  OBVIOUS
<1>3. zeros \in [0..NB -> Nat]
  OBVIOUS
<1>4. NoRow = [calls |-> 0, exec |-> 0, buckets |-> zeros]
  BY DEF NoRow
<1> HIDE DEF zeros
<1>5. CallsOf(zeros) = 0
  BY <1>1, <1>2, ColumnsAre, SumZero
<1>6. \A max \in Nat: NoRow \in Row(max)
  BY <1>3, <1>4, <1>5 DEF Row
<1>7. ASSUME NEW c \in Columns
      PROVE  Column(NoRow, c) = 0
  <2>1. NoRow.calls = 0 /\ NoRow.exec = 0 /\ NoRow.buckets = zeros
    BY <1>4
  <2>2. CASE c \in 0..NB
    <3>1. Column(NoRow, c) = NoRow.buckets[c]
      BY <2>2, ColumnsAre
    <3> QED BY <1>2, <2>1, <2>2, <3>1
  <2>3. CASE c = CallsColumn \/ c = ExecColumn
    BY <2>1, <2>3, ColumnsAre
  <2> QED BY <2>2, <2>3, ColumnsAre
<1> QED BY <1>4, <1>6, <1>7

(* A row without calls has nothing in any column.                            *)
LEMMA EmptyRow ==
  ASSUME NEW max \in Nat, NEW row \in Row(max), row.calls = 0, NEW c \in Columns
  PROVE  Column(row, c) = 0
<1> DEFINE h == row.buckets
<1>1. h \in [0..NB -> Nat] /\ SumFunctionOnSet(h, 0..NB) = 0 /\ row.exec = 0
  BY RowType
<1>2. \A b \in 0..NB: h[b] \in Nat
  BY <1>1
<1>3. \A b \in 0..NB: Column(row, b) = h[b]
  BY ColumnsAre
<1> HIDE DEF h
<1>4. \A b \in 0..NB: h[b] <= SumFunctionOnSet(h, 0..NB)
  BY <1>2, ColumnsAre, SumIsNat
<1>5. \A b \in 0..NB: h[b] = 0
  BY <1>1, <1>2, <1>4
<1>6. CASE c \in 0..NB
  BY <1>3, <1>5, <1>6
<1>7. CASE c = CallsColumn \/ c = ExecColumn
  BY <1>1, <1>7, ColumnsAre
<1> QED BY <1>6, <1>7, ColumnsAre

(* What a call adds to a column.                                             *)
Adds(call, c) ==
  IF c = CallsColumn THEN 1
  ELSE IF c = ExecColumn THEN call.exec
  ELSE IF c = call.bucket THEN 1 ELSE 0

(* One call more in a bucket.                                                *)
LEMMA OneMore ==
  ASSUME NEW f \in [0..NB -> Nat], NEW k \in 0..NB
  PROVE  LET g == [f EXCEPT ![k] = @ + 1]
         IN /\ g \in [0..NB -> Nat]
            /\ \A b \in 0..NB: g[b] = f[b] + IF b = k THEN 1 ELSE 0
            /\ CallsOf(g) = SumFunctionOnSet(f, 0..NB) + 1
<1> DEFINE g == [f EXCEPT ![k] = @ + 1]
<1>1. /\ g \in [0..NB -> Nat] /\ g[k] = f[k] + 1
      /\ \A b \in (0..NB) \ {k}: g[b] = f[b]
  OBVIOUS
<1>2. CallsOf(g) = SumFunctionOnSet(g, 0..NB)
  BY <1>1 DEF CallsOf, SumFunction
<1> HIDE DEF g
<1> DEFINE B == 0..NB
<1>3. \A b \in B: f[b] \in Int /\ g[b] \in Int
  BY <1>1
<1>4. k \in B /\ IsFiniteSet(B) /\ \A b \in B \ {k}: g[b] = f[b]
  BY <1>1, ColumnsAre
<1> HIDE DEF B
<1>5. SumFunctionOnSet(g, B) = SumFunctionOnSet(f, B) + (g[k] - f[k])
  BY <1>3, <1>4, SumUpdate
<1>6. SumFunctionOnSet(f, B) \in Int /\ f[k] \in Int
  BY <1>3, <1>4, SumIsInt
<1>7. SumFunctionOnSet(g, B) = SumFunctionOnSet(f, B) + 1
  BY <1>1, <1>5, <1>6
<1>8. \A b \in 0..NB: g[b] = f[b] + IF b = k THEN 1 ELSE 0
  BY <1>1
<1> QED BY <1>1, <1>2, <1>7, <1>8 DEF g, B

(* A call is added to every column, and the buckets still add up.            *)
LEMMA CountedType ==
  ASSUME NEW max \in Nat, NEW row \in Row(max), NEW s \in Stmt, NEW call \in Measured[s]
  PROVE  /\ Counted(row, call).calls = row.calls + 1
         /\ \A c \in Columns: /\ Column(Counted(row, call), c) = Column(row, c) + Adds(call, c)
                              /\ Adds(call, c) \in Nat
         /\ \A bound \in Nat: row.calls + 1 <= bound => Counted(row, call) \in Row(bound)
<1>1. call \in [exec: Nat, bucket: 0..NB]
  BY StatementsAssumption
<1>2. call.exec \in Nat /\ call.bucket \in 0..NB
  BY <1>1
<1> DEFINE f == row.buckets
           k == call.bucket
           g == [f EXCEPT ![k] = @ + 1]
           calls == row.calls
           exec == row.exec
           more == call.exec
<1>3. /\ f \in [0..NB -> Nat] /\ calls \in Nat /\ exec \in Nat
      /\ SumFunctionOnSet(f, 0..NB) = calls /\ more \in Nat /\ k \in 0..NB
  BY <1>2, RowType
<1>4. Counted(row, call) = [calls |-> calls + 1, exec |-> exec + more, buckets |-> g]
  BY DEF Counted
<1>5. /\ g \in [0..NB -> Nat] /\ \A b \in 0..NB: g[b] = f[b] + IF b = k THEN 1 ELSE 0
      /\ CallsOf(g) = calls + 1
  <2> HIDE DEF f, k, calls
  <2> QED BY <1>3, OneMore
<1>6. \A c: Adds(call, c) = IF c = CallsColumn THEN 1
                           ELSE IF c = ExecColumn THEN more ELSE IF c = k THEN 1 ELSE 0
  BY DEF Adds
<1>7. /\ Column(row, CallsColumn) = calls /\ Column(row, ExecColumn) = exec
      /\ \A b \in 0..NB: Column(row, b) = f[b]
  BY ColumnsAre
<1> HIDE DEF f, g, k, calls, exec, more
<1>8. /\ Column(Counted(row, call), CallsColumn) = calls + 1
      /\ Column(Counted(row, call), ExecColumn) = exec + more
      /\ \A b \in 0..NB: Column(Counted(row, call), b) = g[b]
      /\ Counted(row, call).calls = calls + 1
  BY <1>4, ColumnsAre
<1>9. ASSUME NEW c \in Columns
      PROVE  /\ Column(Counted(row, call), c) = Column(row, c) + Adds(call, c)
             /\ Adds(call, c) \in Nat
  <2>1. CASE c = CallsColumn
    BY <1>3, <1>6, <1>7, <1>8, <2>1
  <2>2. CASE c = ExecColumn
    BY <1>3, <1>6, <1>7, <1>8, <2>2 DEF CallsColumn, ExecColumn
  <2>3. CASE c \in 0..NB
    <3>1. Adds(call, c) = IF c = k THEN 1 ELSE 0
      BY <1>6, <2>3, ColumnsAre
    <3> QED BY <1>5, <1>7, <1>8, <2>3, <3>1
  <2> QED BY <2>1, <2>2, <2>3, ColumnsAre
<1>10. ASSUME NEW bound \in Nat, calls + 1 <= bound
       PROVE  Counted(row, call) \in Row(bound)
  <2>1. exec + more \in Nat /\ calls + 1 \in 0..bound /\ calls + 1 # 0
    BY <1>3, <1>10
  <2> QED BY <1>4, <1>5, <2>1 DEF Row
<1> QED BY <1>8, <1>9, <1>10 DEF calls

-----------------------------------------------------------------------------
(* Documents.                                                                *)

(* A column of a statement on every node of a document, and over all nodes.  *)
On(doc, s, c) == [n \in Node |-> Column(RowOn(doc, n, s), c)]
Total(doc, s, c) == SumFunction(On(doc, s, c))
Calls(doc, s) == Total(doc, s, CallsColumn)
Exec(doc, s) == Total(doc, s, ExecColumn)

(* A document has no row without calls.                                      *)
LEMMA RowOnType ==
  ASSUME NEW doc, IsDoc(doc), NEW n \in Node, NEW s \in Stmt
  PROVE  /\ MaxCount \in Nat /\ RowOn(doc, n, s) \in Row(MaxCount)
         /\ RowOn(doc, n, s).calls \in Nat
         /\ RowOn(doc, n, s).calls > 0 <=> n \in DOMAIN doc /\ s \in DOMAIN doc[n]
         /\ \A c \in Columns: Column(RowOn(doc, n, s), c) \in Nat
<1>1. MaxCount \in Nat
  BY StatementsAssumption DEF MaxCount
<1>2. CASE n \in DOMAIN doc /\ s \in DOMAIN doc[n]
  BY <1>1, <1>2, RowType DEF RowOn, IsDoc
<1>3. CASE ~(n \in DOMAIN doc /\ s \in DOMAIN doc[n])
  <2>1. RowOn(doc, n, s) = NoRow
    BY <1>3 DEF RowOn
  <2> QED BY <1>1, <1>3, <2>1, NoRowType
<1> QED BY <1>2, <1>3

(* A statement is in the merged table if and only if it has calls.           *)
LEMMA TotalType ==
  ASSUME NEW doc, IsDoc(doc), NEW s \in Stmt
  PROVE  /\ \A c \in Columns: Total(doc, s, c) \in Nat
         /\ Calls(doc, s) \in Nat /\ Exec(doc, s) \in Nat
         /\ Calls(doc, s) > 0 <=> s \in MergedKeys(doc)
         /\ s \notin MergedKeys(doc) => \A c \in Columns: Total(doc, s, c) = 0
<1>1. IsFiniteSet(Node)
  BY StatementsAssumption
<1>2. \A c \in Columns, n \in Node: On(doc, s, c)[n] \in Nat
  BY RowOnType DEF On
<1>3. \A c: Total(doc, s, c) = SumFunctionOnSet(On(doc, s, c), Node)
  BY DEF Total, On, SumFunction
<1>4. s \in MergedKeys(doc) <=> \E n \in Node: n \in DOMAIN doc /\ s \in DOMAIN doc[n]
  BY DEF IsDoc, MergedKeys
<1>5. s \in MergedKeys(doc) <=> \E n \in Node: On(doc, s, CallsColumn)[n] > 0
  BY <1>4, RowOnType, ColumnsAre DEF On
<1>6. \A c \in Columns: Total(doc, s, c) \in Nat
  BY <1>1, <1>2, <1>3, SumIsNat
<1>7. Calls(doc, s) > 0 <=> s \in MergedKeys(doc)
  BY <1>1, <1>2, <1>3, <1>5, ColumnsAre, SumPositive DEF Calls
<1>8. ASSUME s \notin MergedKeys(doc), NEW c \in Columns
      PROVE  Total(doc, s, c) = 0
  <2>1. \A n \in Node: RowOn(doc, n, s) = NoRow
    BY <1>4, <1>8 DEF RowOn
  <2>2. \A n \in Node: On(doc, s, c)[n] = 0
    BY <2>1, NoRowType DEF On
  <2> QED BY <1>1, <1>3, <2>2, SumZero
<1> QED BY <1>6, <1>7, <1>8, ColumnsAre DEF Calls, Exec

(* Nodes that a document does not have add nothing.                          *)
LEMMA DocumentSum ==
  ASSUME NEW doc, IsDoc(doc), NEW s \in Stmt, NEW c \in Columns
  PROVE  SumFunction([n \in DOMAIN doc |-> Column(RowOn(doc, n, s), c)]) = Total(doc, s, c)
<1> DEFINE f == [n \in DOMAIN doc |-> Column(RowOn(doc, n, s), c)]
           g == On(doc, s, c)
<1>1. SumFunction(f) = SumFunctionOnSet(f, DOMAIN doc)
  BY DEF SumFunction
<1>2. Total(doc, s, c) = SumFunctionOnSet(g, Node)
  BY DEF Total, On, SumFunction
<1>3. DOMAIN doc \in SUBSET Node /\ IsFiniteSet(Node) /\ IsFiniteSet(DOMAIN doc)
  BY StatementsAssumption, FS_Subset DEF IsDoc
<1>4. /\ \A n \in DOMAIN doc: g[n] \in Int /\ f[n] = g[n]
      /\ \A n \in Node \ DOMAIN doc: g[n] = 0
  <2>1. \A n \in Node: g[n] = Column(RowOn(doc, n, s), c) /\ g[n] \in Nat
    BY RowOnType DEF On
  <2>2. \A n \in Node \ DOMAIN doc: RowOn(doc, n, s) = NoRow
    BY DEF RowOn
  <2> QED BY <1>3, <2>1, <2>2, NoRowType
<1> HIDE DEF f, g
<1>5. SumFunctionOnSet(f, DOMAIN doc) = SumFunctionOnSet(g, DOMAIN doc)
  BY <1>3, <1>4, SumEqual
<1>6. SumFunctionOnSet(g, Node) = SumFunctionOnSet(g, DOMAIN doc)
  BY <1>3, <1>4, SumSupport
<1> QED BY <1>1, <1>2, <1>5, <1>6 DEF f

(* What the merged table has of any statement, listed or not: the calls of   *)
(* all nodes and their time.                                                 *)
LEMMA MergedTable ==
  ASSUME NEW doc, IsDoc(doc)
  PROVE  /\ DOMAIN mergeStatements(doc) = MergedKeys(doc)
         /\ MergedKeys(doc) \subseteq Stmt
         /\ \A s \in MergedKeys(doc):
              mergeStatements(doc)[s] = [calls |-> Calls(doc, s), exec |-> Exec(doc, s)]
         /\ \A s \in Stmt:
              Before(mergeStatements(doc), s) = [calls |-> Calls(doc, s), exec |-> Exec(doc, s)]
<1>1. DOMAIN mergeStatements(doc) = MergedKeys(doc)
  BY DEF mergeStatements
<1>2. MergedKeys(doc) \subseteq Stmt
  BY DEF MergedKeys, IsDoc
<1>3. ASSUME NEW s \in MergedKeys(doc)
      PROVE  mergeStatements(doc)[s] = [calls |-> Calls(doc, s), exec |-> Exec(doc, s)]
  <2>1. /\ SumFunction([n \in DOMAIN doc |-> Column(RowOn(doc, n, s), CallsColumn)]) = Calls(doc, s)
        /\ SumFunction([n \in DOMAIN doc |-> Column(RowOn(doc, n, s), ExecColumn)]) = Exec(doc, s)
    BY <1>2, DocumentSum, ColumnsAre DEF Calls, Exec
  <2>2. /\ [n \in DOMAIN doc |-> Column(RowOn(doc, n, s), CallsColumn)]
             = [n \in DOMAIN doc |-> RowOn(doc, n, s).calls]
        /\ [n \in DOMAIN doc |-> Column(RowOn(doc, n, s), ExecColumn)]
             = [n \in DOMAIN doc |-> RowOn(doc, n, s).exec]
    BY DEF Column, CallsColumn, ExecColumn
  <2> QED BY <2>1, <2>2 DEF mergeStatements
<1>4. ASSUME NEW s \in Stmt
      PROVE  Before(mergeStatements(doc), s) = [calls |-> Calls(doc, s), exec |-> Exec(doc, s)]
  <2>1. CASE s \in MergedKeys(doc)
    BY <1>1, <1>3, <2>1 DEF Before
  <2>2. CASE s \notin MergedKeys(doc)
    <3>1. Calls(doc, s) = 0 /\ Exec(doc, s) = 0
      BY <2>2, TotalType, ColumnsAre DEF Calls, Exec
    <3> QED BY <1>1, <2>2, <3>1 DEF Before
  <2> QED BY <2>1, <2>2
<1> QED BY <1>1, <1>2, <1>3, <1>4

-----------------------------------------------------------------------------
(* The invariant.                                                            *)

(* What the nodes themselves know of.                                        *)
Known(s, c) == SumFunction([n \in Node |-> Column(counter[n][s], c)])

(* No counter exceeds what was executed: MaxCalls before each document.      *)
Bounded ==
  /\ CallsRan <= MaxCalls
  /\ \A n \in Node, s \in Stmt: counter[n][s].calls <= MaxCalls * docs + CallsRan

(* Column by column, the counters of a statement that the latest document    *)
(* lists wherever it has a row are the document's and those of the calls     *)
(* executed since, or less if a node lost some; this survives the next       *)
(* document ...                                                              *)
RanSinceDocument ==
  \A s \in Stmt \ missed, c \in Columns:
    /\ Known(s, c) <= Total(newer, s, c) + Column(ran[s], c)
    /\ s \notin wiped => Known(s, c) = Total(newer, s, c) + Column(ran[s], c)

(* ... and becomes the truth about the two documents.                        *)
RanBetweenDocuments ==
  \A s \in Stmt \ unlisted, c \in Columns:
    /\ Total(newer, s, c) <= Total(older, s, c) + Column(window[s], c)
    /\ s \notin lossy => Total(newer, s, c) = Total(older, s, c) + Column(window[s], c)

IInv == TypeOK /\ Bounded /\ RanSinceDocument /\ RanBetweenDocuments

(* The bounds are numbers.                                                   *)
LEMMA BoundsType ==
  /\ {MaxCalls, MaxDocs, MaxResets, MaxCount} \subseteq Nat
  /\ IsFiniteSet(Stmt) /\ IsFiniteSet(Node)
BY StatementsAssumption DEF MaxCount

(* What nodes know are numbers.                                              *)
LEMMA KnownType ==
  ASSUME TypeOK, NEW s \in Stmt, NEW c \in Columns
  PROVE  /\ \A n \in Node: Column(counter[n][s], c) \in Nat
         /\ Known(s, c) \in Nat
         /\ Column(ran[s], c) \in Nat /\ Column(window[s], c) \in Nat
<1> DEFINE f == [n \in Node |-> Column(counter[n][s], c)]
<1>1. \A n \in Node: counter[n][s] \in Row(MaxCount)
  BY DEF TypeOK
<1>2. \A n \in Node: f[n] \in Nat
  BY <1>1, BoundsType, RowType
<1>3. Known(s, c) = SumFunctionOnSet(f, Node)
  BY DEF Known, SumFunction
<1>4. ran[s] \in Row(MaxCalls) /\ window[s] \in Row(MaxCalls)
  BY DEF TypeOK
<1>5. Column(ran[s], c) \in Nat /\ Column(window[s], c) \in Nat
  BY <1>4, BoundsType, RowType
<1>6. \A n \in Node: Column(counter[n][s], c) \in Nat
  BY <1>2
<1> HIDE DEF f
<1> QED BY <1>2, <1>3, <1>5, <1>6, BoundsType, SumIsNat

(* The arithmetic of the bounds.                                             *)
LEMMA BoundsFit ==
  ASSUME NEW d \in 0..MaxDocs
  PROVE  /\ MaxCalls * d \in Nat
         /\ MaxCalls * d + MaxCalls <= MaxCount
         /\ MaxCalls * (d + 1) = MaxCalls * d + MaxCalls
<1>1. MaxCalls \in Nat /\ MaxDocs \in Nat
  BY StatementsAssumption
<1>2. \A a, b \in Nat: a * b \in Nat
  OBVIOUS
<1>3. PICK k \in Nat: MaxDocs = d + k
  <2>1. MaxDocs - d \in Nat /\ MaxDocs = d + (MaxDocs - d)
    BY <1>1
  <2> QED BY <2>1
<1>4. MaxCalls * (d + k + 1) = MaxCalls * d + MaxCalls * k + MaxCalls
  BY <1>1, <1>3
<1>5. MaxCalls * k \in Nat /\ MaxCalls * d \in Nat
  BY <1>1, <1>2
<1>6. MaxCount = MaxCalls * d + MaxCalls * k + MaxCalls
  BY <1>3, <1>4 DEF MaxCount
<1>7. MaxCalls * (d + 1) = MaxCalls * d + MaxCalls
  BY <1>1
<1> QED BY <1>1, <1>5, <1>6, <1>7

(* The calls that ran are counted, and no statement ran more often than all  *)
(* of them.                                                                  *)
LEMMA RanSum ==
  ASSUME TypeOK
  PROVE  /\ CallsRan \in Nat
         /\ CallsRan = SumFunctionOnSet([s \in Stmt |-> ran[s].calls], Stmt)
         /\ \A s \in Stmt: ran[s].calls \in Nat /\ ran[s].calls <= CallsRan
<1> DEFINE f == [s \in Stmt |-> ran[s].calls]
<1>1. \A s \in Stmt: ran[s] \in Row(MaxCalls) /\ MaxCalls \in Nat
  BY BoundsType DEF TypeOK
<1>2. \A s \in Stmt: f[s] \in Nat /\ f[s] = ran[s].calls
  BY <1>1, RowType
<1>3. CallsRan = SumFunctionOnSet(f, Stmt)
  BY DEF CallsRan, SumFunction
<1> HIDE DEF f
<1>4. SumFunctionOnSet(f, Stmt) \in Nat /\ \A s \in Stmt: f[s] <= SumFunctionOnSet(f, Stmt)
  BY <1>2, BoundsType, SumIsNat
<1> QED BY <1>2, <1>3, <1>4 DEF f

(* Before the first document.                                                *)
LEMMA NothingListed ==
  /\ IsDoc(<<>>)
  /\ \A s \in Stmt, c \in Columns: Total(<<>>, s, c) = 0
<1>1. DOMAIN <<>> = {}
  OBVIOUS
<1>2. IsDoc(<<>>)
  BY <1>1 DEF IsDoc
<1>3. MergedKeys(<<>>) = {}
  BY <1>1 DEF MergedKeys
<1> QED BY <1>2, <1>3, TotalType

(* Nothing ran.                                                              *)
LEMMA NoRowsSum ==
  /\ \A max \in Nat: NoRows \in [Stmt -> Row(max)]
  /\ \A s \in Stmt, c \in Columns: Column(NoRows[s], c) = 0
  /\ SumFunction([s \in Stmt |-> NoRows[s].calls]) = 0
<1> DEFINE f == [s \in Stmt |-> NoRows[s].calls]
<1>1. SumFunction(f) = SumFunctionOnSet(f, Stmt)
  BY DEF SumFunction
<1>2. \A s \in Stmt: f[s] = 0
  BY NoRowType DEF NoRows
<1> HIDE DEF f
<1>3. SumFunction(f) = 0
  BY <1>1, <1>2, BoundsType, SumZero
<1> QED BY <1>3, NoRowType DEF NoRows, f

(* The invariant holds initially.                                            *)
LEMMA IInvInit == Init => IInv
<1> SUFFICES ASSUME Init PROVE IInv
  OBVIOUS
<1> USE DEF Init
<1>0. {MaxCalls, MaxDocs, MaxResets, MaxCount} \subseteq Nat
  BY BoundsType
<1>1. TypeOK
  BY <1>0, NothingListed, NoRowsSum DEF TypeOK
<1>2. Bounded
  <2>1. CallsRan = 0
    BY NoRowsSum DEF CallsRan
  <2>2. \A n \in Node, s \in Stmt: counter[n][s].calls = 0
    BY NoRowType DEF NoRows
  <2> QED BY <1>0, <2>1, <2>2 DEF Bounded
<1>3. ASSUME NEW s \in Stmt, NEW c \in Columns
      PROVE  Known(s, c) = 0
  <2> DEFINE f == [n \in Node |-> Column(counter[n][s], c)]
  <2>1. Known(s, c) = SumFunctionOnSet(f, Node)
    BY DEF Known, SumFunction
  <2>2. \A n \in Node: f[n] = 0
    BY NoRowsSum
  <2> HIDE DEF f
  <2> QED BY <2>1, <2>2, SumZero, BoundsType
<1>4. RanSinceDocument
  BY <1>3, NothingListed, NoRowsSum DEF RanSinceDocument
<1>5. RanBetweenDocuments
  BY NothingListed, NoRowsSum DEF RanBetweenDocuments
<1> QED BY <1>1, <1>2, <1>4, <1>5 DEF IInv

(* A call is counted on one node, and among those that ran since.            *)
LEMMA ExecuteKeepsIInv ==
  ASSUME IInv, NEW n \in Node, NEW s \in Stmt, NEW call \in Measured[s], Execute(n, s, call)
  PROVE  IInv'
<1>0. {MaxCalls, MaxDocs, MaxResets, MaxCount} \subseteq Nat /\ IsFiniteSet(Stmt) /\ IsFiniteSet(Node)
  BY BoundsType
<1>00. TypeOK
  BY DEF IInv
<1>1. /\ \A m \in Node, t \in Stmt:
           counter'[m][t] = IF m = n /\ t = s THEN Counted(counter[n][s], call) ELSE counter[m][t]
      /\ counter' = [m \in Node |-> [t \in Stmt |-> counter'[m][t]]]
      /\ \A t \in Stmt: ran'[t] = IF t = s THEN Counted(ran[s], call) ELSE ran[t]
      /\ ran' = [t \in Stmt |-> ran'[t]]
      /\ CallsRan < MaxCalls
      /\ UNCHANGED <<older, newer, docs, resets, window, wiped, missed, unlisted, lossy>>
  <2>1. /\ counter' = [counter EXCEPT ![n][s] = Counted(@, call)]
        /\ ran' = [ran EXCEPT ![s] = Counted(@, call)]
    BY DEF Execute
  <2>2. counter \in [Node -> [Stmt -> Row(MaxCount)]] /\ ran \in [Stmt -> Row(MaxCalls)]
    BY <1>00 DEF TypeOK
  <2> DEFINE more == Counted(counter[n][s], call)
             again == Counted(ran[s], call)
  <2>3. counter' = [counter EXCEPT ![n][s] = more] /\ ran' = [ran EXCEPT ![s] = again]
    BY <2>1, <2>2
  <2>4. DOMAIN counter = Node /\ \A m \in Node: DOMAIN counter[m] = Stmt
    BY <2>2
  <2> HIDE DEF more, again
  <2>5. /\ counter' = [m \in Node |-> [t \in Stmt |->
                        IF m = n /\ t = s THEN more ELSE counter[m][t]]]
        /\ ran' = [t \in Stmt |-> IF t = s THEN again ELSE ran[t]]
    BY <2>2, <2>3
  <2>6. /\ \A m \in Node, t \in Stmt: counter'[m][t] = IF m = n /\ t = s THEN more ELSE counter[m][t]
        /\ counter' = [m \in Node |-> [t \in Stmt |-> counter'[m][t]]]
        /\ \A t \in Stmt: ran'[t] = IF t = s THEN again ELSE ran[t]
        /\ ran' = [t \in Stmt |-> ran'[t]]
    BY <2>5
  <2>7. /\ CallsRan < MaxCalls
        /\ UNCHANGED <<older, newer, docs, resets, window, wiped, missed, unlisted, lossy>>
    BY DEF Execute
  <2> QED BY <2>6, <2>7 DEF more, again
<1>2. ASSUME NEW m \in Node, NEW t \in Stmt
      PROVE  /\ counter[m][t] \in Row(MaxCount) /\ counter[m][t].calls \in Nat
             /\ ran[t] \in Row(MaxCalls) /\ ran[t].calls \in Nat
  <2>1. counter[m][t] \in Row(MaxCount) /\ ran[t] \in Row(MaxCalls)
    BY <1>00 DEF TypeOK
  <2> QED BY <1>0, <2>1, RowType
<1>3. /\ CallsRan' = CallsRan + 1 /\ CallsRan \in Nat
      /\ \A t \in Stmt: ran'[t].calls \in Nat /\ ran'[t].calls <= CallsRan'
  <2> DEFINE f == [t \in Stmt |-> ran[t].calls]
             g == [t \in Stmt |-> ran'[t].calls]
  <2>1. CallsRan \in Nat /\ CallsRan = SumFunctionOnSet(f, Stmt)
    BY <1>00, RanSum
  <2>2. CallsRan' = SumFunctionOnSet(g, Stmt)
    BY DEF CallsRan, SumFunction
  <2>3. /\ \A t \in Stmt: f[t] \in Nat /\ g[t] \in Nat /\ g[t] = ran'[t].calls
        /\ \A t \in Stmt \ {s}: g[t] = f[t]
        /\ g[s] = f[s] + 1
    <3>1. Counted(ran[s], call).calls = ran[s].calls + 1
      BY <1>0, <1>2, CountedType
    <3> QED BY <1>1, <1>2, <3>1
  <2> HIDE DEF f, g
  <2>4. SumFunctionOnSet(g, Stmt) = SumFunctionOnSet(f, Stmt) + (g[s] - f[s])
    BY <1>0, <2>3, SumUpdate
  <2>5. \A t \in Stmt: g[t] <= SumFunctionOnSet(g, Stmt)
    BY <1>0, <2>3, SumIsNat
  <2>6. CallsRan' = CallsRan + 1
    BY <2>1, <2>2, <2>3, <2>4
  <2> QED BY <2>1, <2>2, <2>3, <2>5, <2>6
<1>4. MaxCalls * docs \in Nat /\ MaxCalls * docs + MaxCalls <= MaxCount
  BY <1>00, BoundsFit DEF TypeOK
<1>5. ASSUME NEW m \in Node, NEW t \in Stmt
      PROVE  /\ counter'[m][t].calls <= MaxCalls * docs + CallsRan'
             /\ counter'[m][t] \in Row(MaxCount)
  <2>1. counter[m][t].calls <= MaxCalls * docs + CallsRan
    BY DEF IInv, Bounded
  <2>2. CASE m = n /\ t = s
    <3>1. counter'[m][t] = Counted(counter[n][s], call)
      BY <1>1, <2>2
    <3>2. counter[n][s].calls + 1 <= MaxCount
      BY <1>0, <1>1, <1>2, <1>3, <1>4, <2>1, <2>2
    <3>3. /\ Counted(counter[n][s], call).calls = counter[n][s].calls + 1
          /\ Counted(counter[n][s], call) \in Row(MaxCount)
      BY <1>0, <1>2, <3>2, CountedType
    <3> QED BY <1>2, <1>3, <1>4, <2>1, <2>2, <3>1, <3>3
  <2>3. CASE ~(m = n /\ t = s)
    BY <1>1, <1>2, <1>3, <1>4, <2>1, <2>3
  <2> QED BY <2>2, <2>3
<1>6. Bounded'
  BY <1>0, <1>1, <1>3, <1>5 DEF Bounded
<1>7. TypeOK'
  <2>1. counter' \in [Node -> [Stmt -> Row(MaxCount)]]
    <3>1. \A m \in Node: [t \in Stmt |-> counter'[m][t]] \in [Stmt -> Row(MaxCount)]
      BY <1>5
    <3> QED BY <1>1, <3>1
  <2>2. ran' \in [Stmt -> Row(MaxCalls)]
    <3>1. ran[s].calls + 1 <= MaxCalls
      <4>1. ran[s].calls <= CallsRan /\ ran[s].calls \in Nat
        BY <1>00, RanSum
      <4>2. CallsRan < MaxCalls /\ CallsRan \in Nat /\ MaxCalls \in Nat
        BY <1>0, <1>1, <1>3
      <4> QED BY <4>1, <4>2
    <3>2. Counted(ran[s], call) \in Row(MaxCalls)
      BY <1>0, <1>2, <3>1, CountedType
    <3>3. \A t \in Stmt: ran'[t] \in Row(MaxCalls)
      BY <1>1, <1>2, <3>2
    <3> QED BY <1>1, <3>3
  <2> QED BY <1>00, <1>1, <2>1, <2>2 DEF TypeOK
<1>8. ASSUME NEW t \in Stmt, NEW c \in Columns
      PROVE  /\ Known(t, c)' - Known(t, c) = Column(ran'[t], c) - Column(ran[t], c)
             /\ Known(t, c)' \in Nat /\ Column(ran'[t], c) \in Nat
  <2> DEFINE f == [m \in Node |-> Column(counter[m][t], c)]
             g == [m \in Node |-> Column(counter'[m][t], c)]
  <2>1. Known(t, c) = SumFunctionOnSet(f, Node) /\ Known(t, c)' = SumFunctionOnSet(g, Node)
    BY DEF Known, SumFunction
  <2>2. \A m \in Node: f[m] \in Nat /\ g[m] \in Nat
    BY <1>0, <1>2, <1>5, RowType
  <2>3. \A m \in Node \ {n}: g[m] = f[m]
    BY <1>1
  <2>4. g[n] - f[n] = Column(ran'[t], c) - Column(ran[t], c)
    <3>1. CASE t = s
      <4>1. /\ Column(Counted(counter[n][s], call), c) = Column(counter[n][s], c) + Adds(call, c)
            /\ Column(Counted(ran[s], call), c) = Column(ran[s], c) + Adds(call, c)
            /\ Adds(call, c) \in Nat
        BY <1>0, <1>2, CountedType
      <4>2. Column(counter[n][s], c) \in Nat /\ Column(ran[s], c) \in Nat
        BY <1>0, <1>2, RowType
      <4>3. g[n] = Column(Counted(counter[n][s], call), c) /\ f[n] = Column(counter[n][s], c)
        BY <1>1, <3>1
      <4>4. ran'[t] = Counted(ran[s], call) /\ ran[t] = ran[s]
        BY <1>1, <3>1
      <4> HIDE DEF f, g
      <4> QED BY <4>1, <4>2, <4>3, <4>4
    <3>2. CASE t # s
      <4>1. g[n] = f[n] /\ ran'[t] = ran[t]
        BY <1>1, <3>2
      <4>2. Column(ran[t], c) \in Nat /\ f[n] \in Nat
        BY <1>00, <2>2, KnownType
      <4> HIDE DEF f, g
      <4> QED BY <4>1, <4>2
    <3> QED BY <3>1, <3>2
  <2> HIDE DEF f, g
  <2>5. SumFunctionOnSet(g, Node) = SumFunctionOnSet(f, Node) + (g[n] - f[n])
    BY <1>0, <2>2, <2>3, SumUpdate
  <2>6. SumFunctionOnSet(f, Node) \in Int /\ f[n] \in Int /\ g[n] \in Int
    BY <1>0, <2>2, SumIsInt
  <2>7. SumFunctionOnSet(g, Node) - SumFunctionOnSet(f, Node) = g[n] - f[n]
    BY <2>5, <2>6
  <2>8. SumFunctionOnSet(g, Node) \in Nat
    BY <1>0, <2>2, SumIsNat
  <2>9. Column(ran'[t], c) \in Nat
    <3>1. ran'[t] \in Row(MaxCalls)
      BY <1>7 DEF TypeOK
    <3> QED BY <1>0, <3>1, RowType
  <2> QED BY <2>1, <2>4, <2>7, <2>8, <2>9
<1>9. RanSinceDocument'
  <2> SUFFICES ASSUME NEW t \in Stmt \ missed, NEW c \in Columns
               PROVE  /\ Known(t, c)' <= Total(newer, t, c) + Column(ran'[t], c)
                      /\ t \notin wiped => Known(t, c)' = Total(newer, t, c) + Column(ran'[t], c)
    BY <1>1 DEF RanSinceDocument, Total, On
  <2>1. /\ Known(t, c) <= Total(newer, t, c) + Column(ran[t], c)
        /\ t \notin wiped => Known(t, c) = Total(newer, t, c) + Column(ran[t], c)
    BY DEF IInv, RanSinceDocument
  <2>2. Known(t, c) \in Nat /\ Column(ran[t], c) \in Nat /\ Total(newer, t, c) \in Nat
    BY <1>00, KnownType, TotalType DEF TypeOK
  <2>3. Known(t, c)' \in Nat /\ Column(ran'[t], c) \in Nat
    BY <1>8
  <2> QED BY <1>8, <2>1, <2>2, <2>3
<1>10. RanBetweenDocuments'
  BY <1>1 DEF IInv, RanBetweenDocuments, Total, On
<1> QED BY <1>6, <1>7, <1>9, <1>10 DEF IInv

(* A reset only takes, and only of statements that it wipes.                 *)
LEMMA ResetKeepsIInv ==
  ASSUME IInv, NEW answering \in SUBSET Node, Reset(answering)
  PROVE  IInv'
<1>0. {MaxCalls, MaxDocs, MaxResets, MaxCount} \subseteq Nat /\ IsFiniteSet(Node)
  BY BoundsType
<1>00. TypeOK
  BY DEF IInv
<1>1. /\ counter' = [m \in Node |-> IF m \in answering THEN NoRows ELSE counter[m]]
      /\ \A m \in Node, t \in Stmt:
           counter'[m][t] = IF m \in answering THEN NoRow ELSE counter[m][t]
      /\ wiped' = wiped \cup UNION {HasRow(m): m \in answering}
      /\ UNCHANGED <<older, newer, docs, ran, window, missed, unlisted, lossy>>
  <2>1. \A t \in Stmt: NoRows[t] = NoRow
    BY DEF NoRows
  <2> QED BY <2>1 DEF Reset
<1>2. ASSUME NEW m \in Node, NEW t \in Stmt
      PROVE  counter[m][t] \in Row(MaxCount) /\ counter[m][t].calls \in Nat
  <2>1. counter[m][t] \in Row(MaxCount)
    BY <1>00 DEF TypeOK
  <2> QED BY <1>0, <2>1, RowType
<1>3. TypeOK'
  <2>1. counter' \in [Node -> [Stmt -> Row(MaxCount)]]
    <3>1. NoRows \in [Stmt -> Row(MaxCount)] /\ counter \in [Node -> [Stmt -> Row(MaxCount)]]
      BY <1>0, <1>00, NoRowsSum DEF TypeOK
    <3> QED BY <1>1, <3>1
  <2>2. wiped' \subseteq Stmt
    BY <1>00 DEF Reset, HasRow, TypeOK
  <2>3. resets' \in 0..MaxResets
    BY <1>0, <1>00 DEF Reset, TypeOK
  <2> QED BY <1>1, <1>00, <2>1, <2>2, <2>3 DEF TypeOK
<1>4. Bounded'
  <2>1. MaxCalls * docs \in Nat /\ CallsRan \in Nat /\ CallsRan' = CallsRan
    BY <1>00, <1>1, BoundsFit, RanSum DEF TypeOK, CallsRan
  <2>2. ASSUME NEW m \in Node, NEW t \in Stmt
        PROVE  counter'[m][t].calls <= MaxCalls * docs + CallsRan
    <3>1. counter[m][t].calls <= MaxCalls * docs + CallsRan
      BY DEF IInv, Bounded
    <3>2. CASE m \in answering
      <4>1. counter'[m][t].calls = 0
        BY <1>1, <3>2, NoRowType
      <4> QED BY <2>1, <4>1
    <3>3. CASE m \notin answering
      BY <1>1, <3>1, <3>3
    <3> QED BY <3>2, <3>3
  <2> QED BY <1>1, <2>1, <2>2 DEF IInv, Bounded
<1>5. ASSUME NEW t \in Stmt, NEW c \in Columns
      PROVE  /\ Known(t, c)' \in Nat /\ Known(t, c)' <= Known(t, c)
             /\ t \notin wiped' => Known(t, c)' = Known(t, c)
  <2> DEFINE f == [m \in Node |-> Column(counter[m][t], c)]
             g == [m \in Node |-> Column(counter'[m][t], c)]
  <2>1. Known(t, c) = SumFunctionOnSet(f, Node) /\ Known(t, c)' = SumFunctionOnSet(g, Node)
    BY DEF Known, SumFunction
  <2>2. ASSUME NEW m \in Node
        PROVE  /\ f[m] \in Nat /\ g[m] \in Nat /\ g[m] <= f[m]
               /\ t \notin wiped' => g[m] = f[m]
    <3>1. f[m] \in Nat
      BY <1>00, KnownType
    <3>2. CASE m \in answering
      <4>1. g[m] = 0
        BY <1>1, <3>2, NoRowType
      <4>2. ASSUME t \notin wiped'
            PROVE  f[m] = 0
        <5>1. t \notin HasRow(m)
          BY <1>1, <3>2, <4>2
        <5>2. counter[m][t].calls = 0 /\ counter[m][t] \in Row(MaxCount)
          BY <1>2, <5>1 DEF HasRow
        <5> QED BY <1>0, <5>2, EmptyRow
      <4> HIDE DEF f, g
      <4> QED BY <3>1, <4>1, <4>2
    <3>3. CASE m \notin answering
      BY <1>1, <3>1, <3>3
    <3> QED BY <3>2, <3>3
  <2> HIDE DEF f, g
  <2>3. SumFunctionOnSet(g, Node) <= SumFunctionOnSet(f, Node)
    BY <1>0, <2>2, SumMonotone
  <2>4. SumFunctionOnSet(g, Node) \in Nat
    BY <1>0, <2>2, SumIsNat
  <2>5. ASSUME t \notin wiped'
        PROVE  SumFunctionOnSet(g, Node) = SumFunctionOnSet(f, Node)
    BY <1>0, <2>2, <2>5, SumEqual
  <2> QED BY <2>1, <2>3, <2>4, <2>5
<1>6. RanSinceDocument'
  <2> SUFFICES ASSUME NEW t \in Stmt \ missed, NEW c \in Columns
               PROVE  /\ Known(t, c)' <= Total(newer, t, c) + Column(ran[t], c)
                      /\ t \notin wiped' => Known(t, c)' = Total(newer, t, c) + Column(ran[t], c)
    BY <1>1 DEF RanSinceDocument, Total, On
  <2>1. /\ Known(t, c) <= Total(newer, t, c) + Column(ran[t], c)
        /\ t \notin wiped => Known(t, c) = Total(newer, t, c) + Column(ran[t], c)
    BY DEF IInv, RanSinceDocument
  <2>2. Known(t, c) \in Nat /\ Column(ran[t], c) \in Nat /\ Total(newer, t, c) \in Nat
    BY <1>00, KnownType, TotalType DEF TypeOK
  <2>3. t \notin wiped' => t \notin wiped
    BY <1>1
  <2> QED BY <1>5, <2>1, <2>2, <2>3
<1>7. RanBetweenDocuments'
  BY <1>1 DEF IInv, RanBetweenDocuments, Total, On
<1> QED BY <1>3, <1>4, <1>6, <1>7 DEF IInv

(* A list holds rows, at most Limit of them.                                 *)
LEMMA TopType ==
  ASSUME TypeOK, NEW n \in Node, NEW L \in Top(n)
  PROVE  /\ L \subseteq HasRow(n) /\ HasRow(n) \subseteq Stmt
         /\ Cardinality(L) <= Limit
<1>1. HasRow(n) \subseteq Stmt
  BY DEF HasRow
<1>2. Cardinality(HasRow(n)) \in Nat /\ Limit \in Nat
  BY <1>1, FS_Subset, FS_CardinalityType, StatementsAssumption
<1> QED BY <1>1, <1>2 DEF Top

(* What is not missed by a document is counted by it on every node.          *)
LEMMA SnapshotKeepsIInv ==
  ASSUME IInv, NEW discovered \in SUBSET Node, Snapshot(discovered)
  PROVE  IInv'
<1>0. {MaxCalls, MaxDocs, MaxResets, MaxCount} \subseteq Nat /\ IsFiniteSet(Node)
  BY BoundsType
<1>00. TypeOK
  BY DEF IInv
<1>1. PICK listed \in [discovered -> SUBSET Stmt]:
        /\ \A n \in discovered: listed[n] \in Top(n)
        /\ newer' = [n \in discovered |-> [s \in listed[n] |-> counter[n][s]]]
        /\ missed' = {s \in Stmt: \E n \in Node:
                        s \in HasRow(n) /\ ~(n \in discovered /\ s \in listed[n])}
  BY DEF Snapshot
<1>2. \A n \in discovered: /\ listed[n] \subseteq HasRow(n)
                           /\ Cardinality(listed[n]) <= Limit
  BY <1>00, <1>1, TopType
<1>3. /\ older' = newer /\ docs' = docs + 1 /\ docs' \in 0..MaxDocs /\ window' = ran
      /\ ran' = NoRows /\ unlisted' = missed \cup missed' /\ lossy' = wiped
      /\ wiped' = {} /\ counter' = counter /\ resets' = resets
  BY <1>0, <1>00 DEF Snapshot, TypeOK
<1>20. ASSUME NEW n \in Node, NEW s \in Stmt
       PROVE  counter[n][s] \in Row(MaxCount) /\ counter[n][s].calls \in Nat
  <2>1. counter[n][s] \in Row(MaxCount)
    BY <1>00 DEF TypeOK
  <2> QED BY <1>0, <2>1, RowType
<1>4. IsDoc(newer')
  <2>1. DOMAIN newer' = discovered
    BY <1>1
  <2>2. ASSUME NEW n \in discovered
        PROVE  /\ DOMAIN newer'[n] = listed[n] /\ listed[n] \subseteq Stmt
               /\ Cardinality(listed[n]) <= Limit
               /\ \A s \in listed[n]: newer'[n][s] \in Row(MaxCount) /\ newer'[n][s].calls > 0
    <3>1. newer'[n] = [s \in listed[n] |-> counter[n][s]] /\ listed[n] \subseteq Stmt
      BY <1>1
    <3>2. ASSUME NEW s \in listed[n]
          PROVE  counter[n][s] \in Row(MaxCount) /\ counter[n][s].calls > 0
      BY <1>2, <1>20 DEF HasRow
    <3> QED BY <1>2, <3>1, <3>2
  <2> QED BY <2>1, <2>2 DEF IsDoc
<1>5. TypeOK'
  <2>1. IsDoc(older')
    BY <1>00, <1>3 DEF TypeOK
  <2>2. ran' \in [Stmt -> Row(MaxCalls)]
    BY <1>0, <1>3, NoRowsSum
  <2>3. {wiped', missed', unlisted', lossy'} \subseteq SUBSET Stmt
    BY <1>00, <1>1, <1>3 DEF TypeOK
  <2> QED BY <1>00, <1>3, <1>4, <2>1, <2>2, <2>3 DEF TypeOK, IsDoc
<1>6. Bounded'
  <2>1. CallsRan' = 0
    BY <1>3, NoRowsSum DEF CallsRan
  <2>2. /\ MaxCalls * docs \in Nat /\ MaxCalls * (docs + 1) = MaxCalls * docs + MaxCalls
        /\ CallsRan \in Nat /\ CallsRan <= MaxCalls
    BY <1>00, BoundsFit, RanSum DEF TypeOK, IInv, Bounded
  <2>3. ASSUME NEW n \in Node, NEW s \in Stmt
        PROVE  counter'[n][s].calls <= MaxCalls * docs' + 0
    <3>1. counter[n][s].calls <= MaxCalls * docs + CallsRan /\ counter[n][s].calls \in Nat
      BY <1>20 DEF IInv, Bounded
    <3> QED BY <1>0, <1>3, <2>2, <3>1
  <2> QED BY <1>0, <2>1, <2>3 DEF Bounded
<1>7. ASSUME NEW s \in Stmt, s \notin missed', NEW c \in Columns
      PROVE  Known(s, c) = Total(newer', s, c)
  <2> DEFINE f == [n \in Node |-> Column(counter[n][s], c)]
             g == On(newer', s, c)
  <2>1. Known(s, c) = SumFunctionOnSet(f, Node) /\ Total(newer', s, c) = SumFunctionOnSet(g, Node)
    BY DEF Known, Total, On, SumFunction
  <2>2. ASSUME NEW n \in Node
        PROVE  f[n] \in Int /\ g[n] = f[n]
    <3>1. f[n] \in Nat
      BY <1>00, KnownType
    <3>2. g[n] = Column(RowOn(newer', n, s), c)
      BY DEF On
    <3>3. CASE n \in discovered /\ s \in listed[n]
      <4>1. n \in DOMAIN newer' /\ s \in DOMAIN newer'[n] /\ newer'[n][s] = counter[n][s]
        BY <1>1, <3>3
      <4>2. RowOn(newer', n, s) = counter[n][s]
        BY <4>1 DEF RowOn
      <4> QED BY <3>1, <3>2, <4>2
    <3>4. CASE ~(n \in discovered /\ s \in listed[n])
      <4>1. RowOn(newer', n, s) = NoRow
        BY <1>1, <3>4 DEF RowOn
      <4>2. g[n] = 0
        BY <3>2, <4>1, NoRowType
      <4>3. counter[n][s].calls = 0
        BY <1>1, <1>7, <1>20, <3>4 DEF HasRow
      <4>4. f[n] = 0
        BY <1>0, <1>20, <4>3, EmptyRow
      <4> QED BY <4>2, <4>4
    <3> QED BY <3>3, <3>4
  <2> HIDE DEF f, g
  <2> QED BY <1>0, <2>1, <2>2, SumEqual
<1>8. RanSinceDocument'
  <2> SUFFICES ASSUME NEW s \in Stmt, s \notin missed', NEW c \in Columns
               PROVE  Known(s, c)' = Total(newer', s, c) + Column(ran'[s], c)
                      /\ Known(s, c)' \in Nat
    BY DEF RanSinceDocument, Total, On
  <2>1. Known(s, c)' = Known(s, c) /\ Column(ran'[s], c) = 0
    BY <1>3, NoRowsSum DEF Known
  <2>2. Total(newer', s, c) \in Nat
    BY <1>4, TotalType
  <2> QED BY <1>7, <2>1, <2>2
<1>9. RanBetweenDocuments'
  <2> SUFFICES ASSUME NEW s \in Stmt, s \notin missed, s \notin missed', NEW c \in Columns
               PROVE  /\ Total(newer', s, c) <= Total(newer, s, c) + Column(ran[s], c)
                      /\ s \notin wiped =>
                           Total(newer', s, c) = Total(newer, s, c) + Column(ran[s], c)
    BY <1>3 DEF RanBetweenDocuments, Total, On
  <2> QED BY <1>7 DEF IInv, RanSinceDocument
<1> QED BY <1>5, <1>6, <1>8, <1>9 DEF IInv

(* The invariant is inductive.                                               *)
LEMMA IInvNext == IInv /\ [Next]_vars => IInv'
<1> SUFFICES ASSUME IInv, [Next]_vars PROVE IInv'
  OBVIOUS
<1>1. CASE UNCHANGED vars
  BY <1>1 DEF vars, IInv, TypeOK, Bounded, RanSinceDocument, RanBetweenDocuments,
              Known, Total, On, CallsRan
<1>2. ASSUME NEW n \in Node, NEW s \in Stmt, NEW call \in Measured[s], Execute(n, s, call)
      PROVE  IInv'
  BY <1>2, ExecuteKeepsIInv
<1>3. ASSUME NEW answering \in SUBSET Node, Reset(answering)
      PROVE  IInv'
  BY <1>3, ResetKeepsIInv
<1>4. ASSUME NEW discovered \in SUBSET Node, Snapshot(discovered)
      PROVE  IInv'
  BY <1>4, SnapshotKeepsIInv
<1> QED BY <1>1, <1>2, <1>3, <1>4 DEF Next

(* The invariant that DeltaIsTruth needs: what the counters, the two         *)
(* documents and the calls executed have to do with each other.              *)
THEOREM IInvHolds == Spec => []IInv
BY IInvInit, IInvNext, PTL DEF Spec
-----------------------------------------------------------------------------
(* What the invariants say of any two documents.                             *)

(* Differences of two tables, a missing row being zeros.                     *)
CallsGained(cur, prev, key) == Before(cur, key).calls - Before(prev, key).calls
ExecGained(cur, prev, key) == Before(cur, key).exec - Before(prev, key).exec

(* A delta has the rows that changed, and zeros are no change.               *)
LEMMA DeltaTable ==
  ASSUME NEW cur, NEW prev
  PROVE  LET delta == deltaPgStatMergedRows(cur, prev)
         IN /\ DOMAIN delta = {key \in DOMAIN cur: \/ CallsGained(cur, prev, key) # 0
                                                   \/ Rounded(ExecGained(cur, prev, key)) # 0}
            /\ \A key \in DOMAIN cur:
                 /\ CallsIn(delta, key) = CallsGained(cur, prev, key)
                 /\ MsIn(delta, key) = Rounded(ExecGained(cur, prev, key))
            /\ \A key \in DOMAIN delta:
                 /\ delta[key].calls = CallsGained(cur, prev, key)
                 /\ delta[key].total_ms = Rounded(ExecGained(cur, prev, key))
<1> DEFINE delta == deltaPgStatMergedRows(cur, prev)
           changed == {key \in DOMAIN cur: \/ CallsGained(cur, prev, key) # 0
                                           \/ Rounded(ExecGained(cur, prev, key)) # 0}
<1>1. \A key \in DOMAIN cur: Before(cur, key) = cur[key]
  BY DEF Before
<1>2. delta = [key \in changed |-> [calls |-> CallsGained(cur, prev, key),
                                    total_ms |-> Rounded(ExecGained(cur, prev, key))]]
  BY <1>1 DEF deltaPgStatMergedRows, CallsGained, ExecGained
<1>3. DOMAIN delta = changed
  BY <1>2
<1>4. \A key \in DOMAIN delta: /\ delta[key].calls = CallsGained(cur, prev, key)
                               /\ delta[key].total_ms = Rounded(ExecGained(cur, prev, key))
  BY <1>2, <1>3
<1> HIDE DEF delta
<1>5. \A key \in DOMAIN cur: /\ CallsIn(delta, key) = CallsGained(cur, prev, key)
                             /\ MsIn(delta, key) = Rounded(ExecGained(cur, prev, key))
  BY <1>3, <1>4 DEF CallsIn, MsIn
<1> QED BY <1>3, <1>4, <1>5 DEF delta

(* Differences of the two documents, of any statement.                       *)
Gained(s) == Calls(newer, s) - Calls(older, s)
ExecGainedBy(s) == Exec(newer, s) - Exec(older, s)

(* They are integers; after a reset, time may be gained without calls.       *)
LEMMA GainedType ==
  ASSUME TypeOK, NEW s \in Stmt
  PROVE  /\ Calls(newer, s) \in Nat /\ Calls(older, s) \in Nat
         /\ Exec(newer, s) \in Nat /\ Exec(older, s) \in Nat
         /\ Gained(s) \in Int /\ ExecGainedBy(s) \in Int
BY TotalType DEF TypeOK, Gained, ExecGainedBy

(* The table of a window: rows that gained or lost calls or time.            *)
LEMMA RowsTable ==
  ASSUME TypeOK
  PROVE  /\ DOMAIN Merged = MergedKeys(newer) /\ DOMAIN MergedBefore = MergedKeys(older)
         /\ DOMAIN Merged \subseteq Stmt /\ DOMAIN MergedBefore \subseteq Stmt
         /\ DOMAIN Rows = {s \in DOMAIN Merged: Gained(s) # 0 \/ Rounded(ExecGainedBy(s)) # 0}
         /\ \A s \in DOMAIN Merged: /\ CallsIn(Rows, s) = Gained(s)
                                    /\ MsIn(Rows, s) = Rounded(ExecGainedBy(s))
         /\ \A s \in DOMAIN Rows: /\ Rows[s].calls = Gained(s)
                                  /\ Rows[s].total_ms = Rounded(ExecGainedBy(s))
<1>1. /\ DOMAIN Merged = MergedKeys(newer) /\ DOMAIN MergedBefore = MergedKeys(older)
      /\ DOMAIN Merged \subseteq Stmt /\ DOMAIN MergedBefore \subseteq Stmt
  BY MergedTable DEF TypeOK, Merged, MergedBefore
<1>2. \A s \in Stmt: /\ CallsGained(Merged, MergedBefore, s) = Gained(s)
                     /\ ExecGained(Merged, MergedBefore, s) = ExecGainedBy(s)
  BY MergedTable DEF TypeOK, Merged, MergedBefore, CallsGained, ExecGained, Gained, ExecGainedBy
<1>3. /\ DOMAIN Rows = {s \in DOMAIN Merged: \/ CallsGained(Merged, MergedBefore, s) # 0
                                             \/ Rounded(ExecGained(Merged, MergedBefore, s)) # 0}
      /\ \A s \in DOMAIN Merged:
           /\ CallsIn(Rows, s) = CallsGained(Merged, MergedBefore, s)
           /\ MsIn(Rows, s) = Rounded(ExecGained(Merged, MergedBefore, s))
      /\ \A s \in DOMAIN Rows:
           /\ Rows[s].calls = CallsGained(Merged, MergedBefore, s)
           /\ Rows[s].total_ms = Rounded(ExecGained(Merged, MergedBefore, s))
  BY DeltaTable DEF Rows
<1> QED BY <1>1, <1>2, <1>3

(* Rounding keeps order, and zero.                                           *)
LEMMA RoundedMonotone ==
  /\ Rounded(0) = 0 /\ RoundedToEven(0) = 0
  /\ \A a, b \in Int: a <= b => Rounded(a) <= Rounded(b)
BY DEF Rounded, RoundedToEven

(* What the two documents gained, and what ran between them: the columns of  *)
(* RanBetweenDocuments that the tables show.                                 *)
LEMMA GainedIsRan ==
  ASSUME IInv, NEW s \in Stmt \ unlisted
  PROVE  /\ window[s].calls \in Nat /\ window[s].exec \in Nat
         /\ window[s].calls = 0 => window[s].exec = 0
         /\ Gained(s) <= window[s].calls /\ ExecGainedBy(s) <= window[s].exec
         /\ s \notin lossy => Gained(s) = window[s].calls /\ ExecGainedBy(s) = window[s].exec
<1>1. TypeOK
  BY DEF IInv
<1>2. window[s] \in Row(MaxCalls)
  BY <1>1 DEF TypeOK
<1>3. /\ window[s].calls \in Nat /\ window[s].exec \in Nat
      /\ window[s].calls = 0 => window[s].exec = 0
  BY <1>2, BoundsType, RowType
<1>4. /\ Calls(newer, s) <= Calls(older, s) + window[s].calls
      /\ Exec(newer, s) <= Exec(older, s) + window[s].exec
      /\ s \notin lossy => /\ Calls(newer, s) = Calls(older, s) + window[s].calls
                           /\ Exec(newer, s) = Exec(older, s) + window[s].exec
  BY ColumnsAre DEF IInv, RanBetweenDocuments, Calls, Exec
<1> QED BY <1>1, <1>3, <1>4, GainedType DEF Gained, ExecGainedBy

(* A statement without calls in the newer document gained nothing.           *)
LEMMA GoneGained ==
  ASSUME TypeOK, NEW s \in Stmt \ DOMAIN Merged
  PROVE  /\ Calls(newer, s) = 0 /\ Exec(newer, s) = 0
         /\ Gained(s) <= 0 /\ ExecGainedBy(s) <= 0
         /\ CallsIn(Rows, s) = 0 /\ MsIn(Rows, s) = 0 /\ s \notin DOMAIN Rows
<1>1. Calls(newer, s) = 0 /\ Exec(newer, s) = 0
  BY RowsTable, TotalType, ColumnsAre DEF TypeOK, Calls, Exec
<1>2. s \notin DOMAIN Rows
  BY RowsTable
<1> QED BY <1>1, <1>2, GainedType DEF Gained, ExecGainedBy, CallsIn, MsIn

(* What the rows have is what RanBetweenDocuments speaks of.                 *)
LEMMA DeltaIsTruthInvariant == IInv => DeltaIsTruth
<1> SUFFICES ASSUME IInv PROVE DeltaIsTruth
  OBVIOUS
<1>1. TypeOK
  BY DEF IInv
<1>2. ASSUME NEW s \in Stmt \ unlisted
      PROVE  CallsIn(Rows, s) <= window[s].calls /\ MsIn(Rows, s) <= Rounded(window[s].exec)
  <2>1. /\ window[s].calls \in Nat /\ window[s].exec \in Nat
        /\ Gained(s) <= window[s].calls /\ Rounded(ExecGainedBy(s)) <= Rounded(window[s].exec)
        /\ 0 <= Rounded(window[s].exec)
    BY <1>1, GainedIsRan, GainedType, RoundedMonotone
  <2>2. CASE s \in DOMAIN Merged
    BY <1>1, <2>1, <2>2, RowsTable
  <2>3. CASE s \notin DOMAIN Merged
    BY <1>1, <2>1, <2>3, GoneGained
  <2> QED BY <2>2, <2>3
<1>3. ASSUME NEW s \in Stmt \ blurred
      PROVE  /\ CallsIn(Rows, s) = window[s].calls
             /\ MsIn(Rows, s) = Rounded(window[s].exec)
             /\ s \in DOMAIN Rows <=> window[s].calls > 0
  <2>1. s \in Stmt \ unlisted /\ s \notin lossy
    BY DEF blurred
  <2>2. /\ window[s].calls \in Nat /\ window[s].exec \in Nat
        /\ window[s].calls = 0 => window[s].exec = 0
        /\ Gained(s) = window[s].calls /\ ExecGainedBy(s) = window[s].exec
    BY <2>1, GainedIsRan
  <2>3. CASE s \in DOMAIN Merged
    BY <1>1, <2>2, <2>3, RowsTable, RoundedMonotone
  <2>4. CASE s \notin DOMAIN Merged
    <3>1. window[s].calls = 0 /\ window[s].exec = 0
      BY <1>1, <2>2, <2>4, GoneGained
    <3> QED BY <1>1, <2>4, <3>1, GoneGained, RoundedMonotone
  <2> QED BY <2>3, <2>4
<1> QED BY <1>2, <1>3 DEF DeltaIsTruth

(* The difference of rounded times and the rounded difference, however ties  *)
(* are rounded: each total is off by at most half a unit, their difference   *)
(* by at most one, and the rounded difference by at most half.               *)
LEMMA RoundedDifference ==
  ASSUME NEW a \in Int, NEW b \in Int
  PROVE  Abs((RoundedToEven(a) - RoundedToEven(b)) - Rounded(a - b)) <= 1
<1>1. \A x \in Int: 10 * RoundedToEven(x) - x \in (-5)..5
  BY DEF Rounded, RoundedToEven
<1>2. 10 * Rounded(a - b) - (a - b) \in (-4)..5
  BY DEF Rounded
<1>3. RoundedToEven(a) \in Int /\ RoundedToEven(b) \in Int /\ Rounded(a - b) \in Int
  BY RoundedInt
<1>4. ASSUME NEW p \in Int, NEW q \in Int, NEW r \in Int,
             10 * p - a \in (-5)..5, 10 * q - b \in (-5)..5, 10 * r - (a - b) \in (-4)..5
      PROVE  Abs((p - q) - r) <= 1
  BY <1>4 DEF Abs
<1> QED BY <1>1, <1>2, <1>3, <1>4

(* What the terminal's table has of a statement, or zeros.                   *)
OnTerminal(doc, s) == [calls |-> Calls(doc, s), total_ms |-> RoundedToEven(Exec(doc, s))]

(* What the watcher's own merge has.                                         *)
LEMMA TerminalTable ==
  ASSUME NEW doc, IsDoc(doc)
  PROVE  /\ DOMAIN merge_pg_stat_statements(doc) = MergedKeys(doc)
         /\ \A s \in MergedKeys(doc): merge_pg_stat_statements(doc)[s] = OnTerminal(doc, s)
         /\ \A s \in Stmt \ MergedKeys(doc): OnTerminal(doc, s) = [calls |-> 0, total_ms |-> 0]
<1>1. DOMAIN merge_pg_stat_statements(doc) = MergedKeys(doc)
  BY MergedTable DEF merge_pg_stat_statements
<1>2. ASSUME NEW s \in MergedKeys(doc)
      PROVE  merge_pg_stat_statements(doc)[s] = OnTerminal(doc, s)
  <2>1. s \in DOMAIN mergeStatements(doc)
    BY MergedTable
  <2>2. mergeStatements(doc)[s] = [calls |-> Calls(doc, s), exec |-> Exec(doc, s)]
    BY MergedTable
  <2>3. merge_pg_stat_statements(doc)[s]
          = [calls |-> mergeStatements(doc)[s].calls,
             total_ms |-> RoundedToEven(mergeStatements(doc)[s].exec)]
    BY <2>1 DEF merge_pg_stat_statements
  <2> QED BY <2>2, <2>3 DEF OnTerminal
<1>3. ASSUME NEW s \in Stmt \ MergedKeys(doc)
      PROVE  OnTerminal(doc, s) = [calls |-> 0, total_ms |-> 0]
  <2>1. Calls(doc, s) = 0 /\ Exec(doc, s) = 0
    BY TotalType, ColumnsAre DEF Calls, Exec
  <2> QED BY <2>1, RoundedMonotone DEF OnTerminal
<1> QED BY <1>1, <1>2, <1>3

(* Both tables have the same calls, and times up to the rounding.  Without a *)
(* reset, a statement that gained no calls was not executed: its totals are  *)
(* the same, and both tables drop it.                                        *)
LEMMA TerminalAgreesInvariant == IInv => TerminalAgrees
<1> SUFFICES ASSUME IInv PROVE TerminalAgrees
  OBVIOUS
<1>0. TypeOK
  BY DEF IInv
<1> DEFINE cur == merge_pg_stat_statements(newer)
           prev == merge_pg_stat_statements(older)
           zero == [calls |-> 0, total_ms |-> 0]
           before(s) == IF s \in DOMAIN prev THEN prev[s] ELSE zero
           gain(s) == [calls |-> cur[s].calls - before(s).calls,
                       total_ms |-> cur[s].total_ms - before(s).total_ms]
           ms(s) == RoundedToEven(Exec(newer, s)) - RoundedToEven(Exec(older, s))
<1>1. TerminalRows = [s \in {t \in DOMAIN cur: gain(t) # zero} |-> gain(s)]
  BY DEF TerminalRows, delta_pg_stat_merged_rows
<1>2. DOMAIN cur = DOMAIN Merged /\ DOMAIN Merged \subseteq Stmt
  BY <1>0, TerminalTable, RowsTable DEF TypeOK
<1>3. ASSUME NEW s \in DOMAIN cur
      PROVE  gain(s) = [calls |-> Gained(s), total_ms |-> ms(s)]
  <2>1. cur[s] = OnTerminal(newer, s)
    BY <1>0, TerminalTable DEF TypeOK
  <2>2. before(s) = OnTerminal(older, s)
    BY <1>0, <1>2, TerminalTable DEF TypeOK
  <2> HIDE DEF cur, before
  <2> QED BY <2>1, <2>2 DEF OnTerminal, Gained
<1> HIDE DEF gain, cur
<1>4. DOMAIN TerminalRows = {s \in DOMAIN Merged: Gained(s) # 0 \/ ms(s) # 0}
  <2>1. \A s \in DOMAIN cur: gain(s) # zero <=> Gained(s) # 0 \/ ms(s) # 0
    BY <1>3
  <2> QED BY <1>1, <1>2, <2>1
<1>5. ASSUME NEW s \in DOMAIN Merged
      PROVE  CallsIn(TerminalRows, s) = Gained(s) /\ MsIn(TerminalRows, s) = ms(s)
  <2>1. CASE s \in DOMAIN TerminalRows
    <3>1. TerminalRows[s] = [calls |-> Gained(s), total_ms |-> ms(s)]
      BY <1>1, <1>2, <1>3, <2>1
    <3> QED BY <2>1, <3>1 DEF CallsIn, MsIn
  <2>2. CASE s \notin DOMAIN TerminalRows
    BY <1>4, <2>2 DEF CallsIn, MsIn
  <2> QED BY <2>1, <2>2
<1>6. ASSUME NEW s \in DOMAIN Merged
      PROVE  /\ CallsIn(TerminalRows, s) = CallsIn(Rows, s)
             /\ Abs(MsIn(TerminalRows, s) - MsIn(Rows, s)) <= 1
  <2>1. CallsIn(Rows, s) = Gained(s) /\ MsIn(Rows, s) = Rounded(ExecGainedBy(s))
    BY <1>0, RowsTable
  <2>2. Exec(newer, s) \in Int /\ Exec(older, s) \in Int
    BY <1>0, <1>2, GainedType
  <2>3. Abs(ms(s) - Rounded(ExecGainedBy(s))) <= 1
    BY <2>2, RoundedDifference DEF ExecGainedBy
  <2> QED BY <1>5, <2>1, <2>3
<1>7. ASSUME NEW s \in Stmt \ blurred
      PROVE  s \in DOMAIN TerminalRows <=> s \in DOMAIN Rows
  <2>1. s \in Stmt \ unlisted /\ s \notin lossy
    BY DEF blurred
  <2>2. Gained(s) = 0 => ExecGainedBy(s) = 0
    BY <2>1, GainedIsRan
  <2>3. Gained(s) = 0 => Exec(newer, s) = Exec(older, s)
    BY <1>0, <2>2, GainedType DEF ExecGainedBy
  <2>4. Gained(s) = 0 => Rounded(ExecGainedBy(s)) = 0 /\ ms(s) = 0
    <3>1. RoundedToEven(Exec(older, s)) \in Int
      BY <1>0, GainedType, RoundedInt
    <3> QED BY <2>2, <2>3, <3>1, RoundedMonotone
  <2> HIDE DEF ms
  <2>5. s \in DOMAIN TerminalRows <=> s \in DOMAIN Merged /\ Gained(s) # 0
    BY <1>4, <2>4
  <2> QED BY <1>0, <2>4, <2>5, RowsTable
<1> QED BY <1>2, <1>4, <1>6, <1>7 DEF TerminalAgrees

(* An id has one text, and the database of the link, if any, decides among   *)
(* the families of the id.                                                   *)
LEMMA LinkLeadsHomeInvariant == TypeOK => LinkLeadsHome
<1> SUFFICES ASSUME TypeOK,
                    NEW f \in DOMAIN collapseStatementsByTemplate(Merged),
                    NEW qid \in Primaries(Merged, f),
                    NEW found \in resolveCanonicalStatementFamily(Merged, qid, f[2])
             PROVE  found[1] = f[1] /\ (f[2] # NoDb => found = f)
  BY DEF LinkLeadsHome
<1>1. DOMAIN Merged \subseteq Stmt
  BY RowsTable
<1>2. PICK s \in DOMAIN Merged: Family(s) = f /\ Qid[s] = qid
  BY DEF Primaries, Members
<1>3. PICK t \in DOMAIN Merged: /\ found = Family(t) /\ Qid[t] = qid
                                /\ f[2] # NoDb => found[2] = f[2]
  BY <1>2 DEF resolveCanonicalStatementFamily, Family
<1>4. Template[s] = Template[t]
  BY <1>1, <1>2, <1>3, StatementsAssumption
<1> QED BY <1>2, <1>3, <1>4 DEF Family

(* The statements of a family, listed or not, and tables over all            *)
(* statements.                                                               *)
Kin(f) == {t \in Stmt: Family(t) = f}
TotalCalls(doc) == [t \in Stmt |-> Calls(doc, t)]
TotalExec(doc) == [t \in Stmt |-> Exec(doc, t)]

(* A family is a finite set of statements.                                   *)
LEMMA KinFinite == \A f: IsFiniteSet(Kin(f)) /\ Kin(f) \subseteq Stmt
BY FS_Subset, StatementsAssumption DEF Kin

(* A family has the sums over its statements, those not listed being zeros.  *)
LEMMA FamilyTable ==
  ASSUME NEW doc, IsDoc(doc)
  PROVE  LET grouped == collapseStatementsByTemplate(mergeStatements(doc))
         IN /\ DOMAIN grouped = {Family(s): s \in MergedKeys(doc)}
            /\ \A f: Before(grouped, f) = [calls |-> SumFunctionOnSet(TotalCalls(doc), Kin(f)),
                                           exec |-> SumFunctionOnSet(TotalExec(doc), Kin(f))]
<1> DEFINE merged == mergeStatements(doc)
           grouped == collapseStatementsByTemplate(merged)
<1>1. DOMAIN grouped = {Family(s): s \in MergedKeys(doc)}
  BY MergedTable DEF collapseStatementsByTemplate
<1>2. ASSUME NEW t \in Stmt
      PROVE  /\ TotalCalls(doc)[t] \in Int /\ TotalExec(doc)[t] \in Int
             /\ t \in MergedKeys(doc) => /\ merged[t].calls = TotalCalls(doc)[t]
                                         /\ merged[t].exec = TotalExec(doc)[t]
             /\ t \notin MergedKeys(doc) => TotalCalls(doc)[t] = 0 /\ TotalExec(doc)[t] = 0
  <2>1. Calls(doc, t) \in Nat /\ Exec(doc, t) \in Nat
    BY TotalType
  <2>2. TotalCalls(doc)[t] = Calls(doc, t) /\ TotalExec(doc)[t] = Exec(doc, t)
    BY DEF TotalCalls, TotalExec
  <2>3. t \notin MergedKeys(doc) => Calls(doc, t) = 0 /\ Exec(doc, t) = 0
    BY TotalType, ColumnsAre DEF Calls, Exec
  <2>4. t \in MergedKeys(doc) => merged[t] = [calls |-> Calls(doc, t), exec |-> Exec(doc, t)]
    BY MergedTable
  <2> HIDE DEF merged
  <2> QED BY <2>1, <2>2, <2>3, <2>4
<1>3. ASSUME NEW f
      PROVE  Before(grouped, f) = [calls |-> SumFunctionOnSet(TotalCalls(doc), Kin(f)),
                                   exec |-> SumFunctionOnSet(TotalExec(doc), Kin(f))]
  <2> DEFINE members == Members(merged, f)
             calls == [s \in members |-> merged[s].calls]
             exec == [s \in members |-> merged[s].exec]
  <2>1. members = Kin(f) \cap MergedKeys(doc)
    BY MergedTable DEF Members, Kin
  <2>2. members \in SUBSET Kin(f) /\ IsFiniteSet(Kin(f)) /\ IsFiniteSet(members)
    BY <2>1, KinFinite, FS_Subset
  <2>3. \A t \in Kin(f) \ members: TotalCalls(doc)[t] = 0 /\ TotalExec(doc)[t] = 0
    BY <1>2, <2>1, KinFinite
  <2>4. \A t \in Kin(f): TotalCalls(doc)[t] \in Int /\ TotalExec(doc)[t] \in Int
    BY <1>2, KinFinite
  <2>5. \A t \in members: calls[t] = TotalCalls(doc)[t] /\ exec[t] = TotalExec(doc)[t]
    BY <1>2, <2>1, KinFinite
  <2>6. SumFunction(calls) = SumFunctionOnSet(calls, members) /\ SumFunction(exec) = SumFunctionOnSet(exec, members)
    BY DEF SumFunction
  <2>7. f \in DOMAIN grouped => grouped[f] = [calls |-> SumFunction(calls), exec |-> SumFunction(exec)]
    BY DEF collapseStatementsByTemplate
  <2>8. f \notin DOMAIN grouped => members = {}
    BY <1>1, <2>1 DEF Kin
  <2> HIDE DEF calls, exec, members, grouped
  <2>9. /\ SumFunctionOnSet(TotalCalls(doc), Kin(f)) = SumFunctionOnSet(TotalCalls(doc), members)
        /\ SumFunctionOnSet(TotalExec(doc), Kin(f)) = SumFunctionOnSet(TotalExec(doc), members)
    BY <2>2, <2>3, <2>4, SumSupport
  <2>10. /\ SumFunctionOnSet(calls, members) = SumFunctionOnSet(TotalCalls(doc), members)
         /\ SumFunctionOnSet(exec, members) = SumFunctionOnSet(TotalExec(doc), members)
    BY <2>2, <2>4, <2>5, SumEqual
  <2>11. CASE f \in DOMAIN grouped
    BY <2>6, <2>7, <2>9, <2>10, <2>11 DEF Before
  <2>12. CASE f \notin DOMAIN grouped
    BY <2>8, <2>9, <2>12, SumEmpty DEF Before
  <2> QED BY <2>11, <2>12
<1> QED BY <1>1, <1>3

(* What each statement gained.                                               *)
CallsByStmt == [t \in Stmt |-> Gained(t)]
ExecByStmt == [t \in Stmt |-> ExecGainedBy(t)]

(* A family gains what its statements gain, those included that left.        *)
LEMMA FamilyRowsTable ==
  ASSUME TypeOK
  PROVE  /\ DOMAIN FamilyRows \subseteq {Family(s): s \in DOMAIN Merged}
         /\ \A s \in DOMAIN Merged:
              /\ CallsIn(FamilyRows, Family(s)) = SumFunctionOnSet(CallsByStmt, Kin(Family(s)))
              /\ MsIn(FamilyRows, Family(s)) = Rounded(SumFunctionOnSet(ExecByStmt, Kin(Family(s))))
         /\ \A f \in DOMAIN FamilyRows: FamilyRows[f].calls = SumFunctionOnSet(CallsByStmt, Kin(f))
<1> DEFINE cur == collapseStatementsByTemplate(Merged)
           prev == collapseStatementsByTemplate(MergedBefore)
<1>1. DOMAIN cur = {Family(s): s \in DOMAIN Merged}
  BY DEF collapseStatementsByTemplate
<1>2. ASSUME NEW f
      PROVE  /\ CallsGained(cur, prev, f) = SumFunctionOnSet(CallsByStmt, Kin(f))
             /\ ExecGained(cur, prev, f) = SumFunctionOnSet(ExecByStmt, Kin(f))
  <2>1. /\ Before(cur, f) = [calls |-> SumFunctionOnSet(TotalCalls(newer), Kin(f)),
                             exec |-> SumFunctionOnSet(TotalExec(newer), Kin(f))]
        /\ Before(prev, f) = [calls |-> SumFunctionOnSet(TotalCalls(older), Kin(f)),
                              exec |-> SumFunctionOnSet(TotalExec(older), Kin(f))]
    BY FamilyTable DEF TypeOK, Merged, MergedBefore
  <2>2. \A t \in Kin(f):
          /\ TotalCalls(newer)[t] \in Int /\ TotalCalls(older)[t] \in Int
          /\ CallsByStmt[t] = TotalCalls(newer)[t] - TotalCalls(older)[t]
          /\ TotalExec(newer)[t] \in Int /\ TotalExec(older)[t] \in Int
          /\ ExecByStmt[t] = TotalExec(newer)[t] - TotalExec(older)[t]
    BY GainedType, KinFinite DEF TotalCalls, TotalExec, CallsByStmt, ExecByStmt, Gained, ExecGainedBy
  <2>3. SumFunctionOnSet(CallsByStmt, Kin(f))
          = SumFunctionOnSet(TotalCalls(newer), Kin(f)) - SumFunctionOnSet(TotalCalls(older), Kin(f))
    BY <2>2, KinFinite, SumMinus
  <2>4. SumFunctionOnSet(ExecByStmt, Kin(f))
          = SumFunctionOnSet(TotalExec(newer), Kin(f)) - SumFunctionOnSet(TotalExec(older), Kin(f))
    BY <2>2, KinFinite, SumMinus
  <2> HIDE DEF cur, prev
  <2> QED BY <2>1, <2>3, <2>4 DEF CallsGained, ExecGained
<1>3. FamilyRows = deltaPgStatMergedRows(cur, prev)
  BY DEF FamilyRows
<1> HIDE DEF cur, prev
<1>4. /\ DOMAIN FamilyRows \subseteq DOMAIN cur
      /\ \A f \in DOMAIN cur: /\ CallsIn(FamilyRows, f) = CallsGained(cur, prev, f)
                              /\ MsIn(FamilyRows, f) = Rounded(ExecGained(cur, prev, f))
      /\ \A f \in DOMAIN FamilyRows: FamilyRows[f].calls = CallsGained(cur, prev, f)
  BY <1>3, DeltaTable
<1> QED BY <1>1, <1>2, <1>4

(* Rounding each term or rounding the sum: they differ by at most one for    *)
(* each term.                                                                *)
LEMMA RoundedSum ==
  ASSUME NEW e, NEW r, NEW S, IsFiniteSet(S),
         \A x \in S: e[x] \in Int /\ r[x] = Rounded(e[x])
  PROVE  S # {} => Abs(Rounded(SumFunctionOnSet(e, S)) - SumFunctionOnSet(r, S)) <= Cardinality(S)
<1> DEFINE error(s) == 10 * SumFunctionOnSet(r, s) - SumFunctionOnSet(e, s)
           Good == {s \in SUBSET S: /\ error(s) <= 5 * Cardinality(s)
                                    /\ -4 * Cardinality(s) <= error(s)}
<1>1. \A x \in S: r[x] \in Int
  BY RoundedInt
<1>2. {} \in Good
  BY SumEmpty, FS_EmptySet
<1>3. ASSUME NEW s \in SUBSET S, NEW x \in s, s \ {x} \in Good
      PROVE  s \in Good
  <2>1. IsFiniteSet(s) /\ IsFiniteSet(s \ {x})
    BY FS_Subset
  <2>2. /\ SumFunctionOnSet(e, s) = e[x] + SumFunctionOnSet(e, s \ {x})
        /\ SumFunctionOnSet(r, s) = r[x] + SumFunctionOnSet(r, s \ {x})
    BY <1>1, <2>1, SumRemove
  <2>3. SumFunctionOnSet(e, s \ {x}) \in Int /\ SumFunctionOnSet(r, s \ {x}) \in Int
    BY <1>1, <2>1, SumIsInt
  <2>4. Cardinality(s \ {x}) = Cardinality(s) - 1 /\ Cardinality(s) \in Nat
    BY <2>1, FS_RemoveElement, FS_CardinalityType
  <2>5. e[x] \in Int /\ r[x] \in Int /\ 10 * r[x] - e[x] <= 5 /\ -4 <= 10 * r[x] - e[x]
    BY <1>1 DEF Rounded
  <2> QED BY <1>3, <2>2, <2>3, <2>4, <2>5
<1>4. S \in Good
  <2> HIDE DEF Good
  <2> QED BY <1>2, <1>3, SubsetInduction
<1>5. SumFunctionOnSet(e, S) \in Int /\ SumFunctionOnSet(r, S) \in Int
  BY <1>1, SumIsInt
<1>6. ASSUME S # {}
      PROVE  Cardinality(S) \in Nat /\ Cardinality(S) >= 1
  BY <1>6, FS_EmptySet, FS_CardinalityType
<1>7. ASSUME NEW a \in Int, NEW b \in Int, NEW n \in Nat, n >= 1,
             10 * b - a <= 5 * n, -4 * n <= 10 * b - a
      PROVE  Abs(Rounded(a) - b) <= n
  BY <1>7 DEF Rounded, Abs
<1> QED BY <1>4, <1>5, <1>6, <1>7

MsByStmt == [t \in Stmt |-> Rounded(ExecGainedBy(t))]

(* A statement that its table drops.                                         *)
Unchanged(t) == Gained(t) = 0 /\ Rounded(ExecGainedBy(t)) = 0

(* As long as no statement is gone, the rows with a change have all that a   *)
(* family gained; of the time that others gained, none is shown.             *)
LEMMA FamilyOfRows ==
  ASSUME TypeOK, NothingGone, NEW f, NEW S \in SUBSET Members(Merged, f),
         \A t \in Members(Merged, f) \ S: Unchanged(t)
  PROVE  /\ SumFunctionOnSet(CallsByStmt, S) = SumFunctionOnSet(CallsByStmt, Kin(f))
         /\ SumFunctionOnSet(MsByStmt, S) = SumFunctionOnSet(MsByStmt, Kin(f))
         /\ S = Members(Merged, f) =>
              SumFunctionOnSet(ExecByStmt, S) = SumFunctionOnSet(ExecByStmt, Kin(f))
<1>1. /\ DOMAIN Merged = MergedKeys(newer) /\ DOMAIN MergedBefore = MergedKeys(older)
      /\ DOMAIN Merged \subseteq Stmt
  BY RowsTable
<1>2. Members(Merged, f) \subseteq Kin(f)
  BY <1>1 DEF Members, Kin
<1>3. ASSUME NEW t \in Stmt
      PROVE  /\ CallsByStmt[t] \in Int /\ ExecByStmt[t] \in Int /\ MsByStmt[t] \in Int
             /\ Unchanged(t) => CallsByStmt[t] = 0 /\ MsByStmt[t] = 0
             /\ ExecGainedBy(t) = 0 => ExecByStmt[t] = 0
  BY GainedType, RoundedInt DEF CallsByStmt, ExecByStmt, MsByStmt, Unchanged
<1>4. ASSUME NEW t \in Kin(f) \ S
      PROVE  Unchanged(t) /\ (S = Members(Merged, f) => ExecGainedBy(t) = 0)
  <2>1. t \in Stmt
    BY KinFinite
  <2>2. CASE t \in DOMAIN Merged
    BY <2>2 DEF Members, Kin
  <2>3. CASE t \notin DOMAIN Merged
    <3>1. /\ Calls(newer, t) = 0 /\ Calls(older, t) = 0
          /\ Exec(newer, t) = 0 /\ Exec(older, t) = 0
      BY <1>1, <2>1, <2>3, TotalType, ColumnsAre DEF NothingGone, TypeOK, Calls, Exec
    <3> QED BY <3>1, RoundedMonotone DEF Gained, ExecGainedBy, Unchanged
  <2> QED BY <2>2, <2>3
<1>5. /\ \A t \in S: CallsByStmt[t] \in Int /\ ExecByStmt[t] \in Int /\ MsByStmt[t] \in Int
      /\ \A t \in Kin(f) \ S: CallsByStmt[t] = 0 /\ MsByStmt[t] = 0
      /\ S = Members(Merged, f) => \A t \in Kin(f) \ S: ExecByStmt[t] = 0
  BY <1>2, <1>3, <1>4, KinFinite
<1>6. S \in SUBSET Kin(f) /\ IsFiniteSet(Kin(f))
  BY <1>2, KinFinite
<1>7. /\ SumFunctionOnSet(CallsByStmt, S) = SumFunctionOnSet(CallsByStmt, Kin(f))
      /\ SumFunctionOnSet(MsByStmt, S) = SumFunctionOnSet(MsByStmt, Kin(f))
  BY <1>5, <1>6, SumSupport
<1>8. ASSUME S = Members(Merged, f)
      PROVE  SumFunctionOnSet(ExecByStmt, S) = SumFunctionOnSet(ExecByStmt, Kin(f))
  <2>1. \A t \in Kin(f) \ S: ExecByStmt[t] = 0
    BY <1>5, <1>8
  <2> QED BY <1>5, <1>6, <2>1, SumSupport
<1> QED BY <1>7, <1>8

(* The sums over a family's rows, of either table, are those over its        *)
(* statements.                                                               *)
LEMMA GroupedAsUngroupedInvariant == TypeOK => GroupedAsUngrouped
<1> SUFFICES ASSUME TypeOK, NothingGone PROVE GroupedAsUngrouped
  BY DEF GroupedAsUngrouped
<1> DEFINE recurring == statementTemplateSummaryRows(Rows)
<1>1. ASSUME NEW f, NEW S \in SUBSET Members(Merged, f), NEW calls, NEW ms,
             \A t \in Members(Merged, f) \ S: Unchanged(t),
             \A t \in S: calls[t] = Gained(t) /\ ms[t] = Rounded(ExecGainedBy(t)),
             f \in {Family(s): s \in DOMAIN Merged}
      PROVE  /\ CallsIn(FamilyRows, f) = SumFunctionOnSet(calls, S)
             /\ Abs(MsIn(FamilyRows, f) - SumFunctionOnSet(ms, S)) <= Cardinality(Members(Merged, f))
  <2> DEFINE M == Members(Merged, f)
  <2>1. M \subseteq Stmt /\ IsFiniteSet(M) /\ IsFiniteSet(S) /\ M # {} /\ S \subseteq Stmt
    BY <1>1, RowsTable, StatementsAssumption, FS_Subset DEF Members
  <2>2. /\ CallsIn(FamilyRows, f) = SumFunctionOnSet(CallsByStmt, Kin(f))
        /\ MsIn(FamilyRows, f) = Rounded(SumFunctionOnSet(ExecByStmt, Kin(f)))
    BY <1>1, FamilyRowsTable
  <2>3. /\ SumFunctionOnSet(CallsByStmt, S) = SumFunctionOnSet(CallsByStmt, Kin(f))
        /\ SumFunctionOnSet(MsByStmt, S) = SumFunctionOnSet(MsByStmt, Kin(f))
    BY <1>1, FamilyOfRows
  <2>4. /\ SumFunctionOnSet(ExecByStmt, M) = SumFunctionOnSet(ExecByStmt, Kin(f))
        /\ SumFunctionOnSet(MsByStmt, M) = SumFunctionOnSet(MsByStmt, Kin(f))
    BY FamilyOfRows
  <2>5. \A t \in Stmt: /\ CallsByStmt[t] = Gained(t) /\ Gained(t) \in Int
                       /\ ExecByStmt[t] \in Int /\ MsByStmt[t] = Rounded(ExecByStmt[t])
                       /\ ExecByStmt[t] = ExecGainedBy(t)
    BY GainedType DEF CallsByStmt, ExecByStmt, MsByStmt
  <2>6. /\ \A t \in S: CallsByStmt[t] \in Int /\ calls[t] = CallsByStmt[t]
        /\ \A t \in S: MsByStmt[t] \in Int /\ ms[t] = MsByStmt[t]
        /\ \A t \in M: ExecByStmt[t] \in Int /\ MsByStmt[t] = Rounded(ExecByStmt[t])
    BY <1>1, <2>1, <2>5, RoundedInt
  <2> HIDE DEF M
  <2>7. SumFunctionOnSet(calls, S) = SumFunctionOnSet(CallsByStmt, S)
    BY <2>1, <2>6, SumEqual
  <2>8. SumFunctionOnSet(ms, S) = SumFunctionOnSet(MsByStmt, S)
    BY <2>1, <2>6, SumEqual
  <2>9. Abs(Rounded(SumFunctionOnSet(ExecByStmt, M)) - SumFunctionOnSet(MsByStmt, M)) <= Cardinality(M)
    BY <2>1, <2>6, RoundedSum
  <2> QED BY <2>2, <2>3, <2>4, <2>7, <2>8, <2>9 DEF M
<1>2. ASSUME NEW s \in DOMAIN Merged
      PROVE  LET f == Family(s)
             IN /\ CallsIn(FamilyRows, f) = SumFunction([t \in Members(Merged, f) |-> CallsIn(Rows, t)])
                /\ Abs(MsIn(FamilyRows, f) - SumFunction([t \in Members(Merged, f) |-> MsIn(Rows, t)]))
                     <= Cardinality(Members(Merged, f))
  <2> DEFINE f == Family(s)
             S == Members(Merged, f)
             calls == [t \in S |-> CallsIn(Rows, t)]
             ms == [t \in S |-> MsIn(Rows, t)]
  <2>1. \A t \in S: calls[t] = Gained(t) /\ ms[t] = Rounded(ExecGainedBy(t))
    BY RowsTable DEF Members
  <2>2. SumFunction(calls) = SumFunctionOnSet(calls, S) /\ SumFunction(ms) = SumFunctionOnSet(ms, S)
    BY DEF SumFunction
  <2>3. f \in {Family(t): t \in DOMAIN Merged}
    OBVIOUS
  <2> HIDE DEF calls, ms, f
  <2>4. /\ CallsIn(FamilyRows, f) = SumFunctionOnSet(calls, S)
        /\ Abs(MsIn(FamilyRows, f) - SumFunctionOnSet(ms, S)) <= Cardinality(Members(Merged, f))
    BY <1>1, <2>1, <2>3
  <2> QED BY <2>2, <2>4 DEF calls, ms, f
<1>3. ASSUME NEW f \in DOMAIN recurring
      PROVE  /\ CallsIn(FamilyRows, f) = recurring[f].calls
             /\ Abs(MsIn(FamilyRows, f) - recurring[f].total_ms) <= Cardinality(Members(Merged, f))
  <2> DEFINE S == Members(Rows, f)
             calls == [t \in S |-> Rows[t].calls]
             ms == [t \in S |-> Rows[t].total_ms]
  <2>1. f \in {Family(t): t \in DOMAIN Rows} /\ recurring[f] = [calls |-> SumFunction(calls), total_ms |-> SumFunction(ms)]
    BY DEF statementTemplateSummaryRows
  <2>2. DOMAIN Rows = {t \in DOMAIN Merged: ~Unchanged(t)}
    BY RowsTable DEF Unchanged
  <2>3. f \in {Family(t): t \in DOMAIN Merged}
    BY <2>1, <2>2
  <2>4. S \in SUBSET Members(Merged, f) /\ \A t \in Members(Merged, f) \ S: Unchanged(t)
    BY <2>2 DEF Members
  <2>5. \A t \in S: calls[t] = Gained(t) /\ ms[t] = Rounded(ExecGainedBy(t))
    BY RowsTable DEF Members
  <2>6. SumFunction(calls) = SumFunctionOnSet(calls, S) /\ SumFunction(ms) = SumFunctionOnSet(ms, S)
    BY DEF SumFunction
  <2> HIDE DEF calls, ms, S, recurring
  <2>7. /\ CallsIn(FamilyRows, f) = SumFunctionOnSet(calls, S)
        /\ Abs(MsIn(FamilyRows, f) - SumFunctionOnSet(ms, S)) <= Cardinality(Members(Merged, f))
    BY <1>1, <2>3, <2>4, <2>5
  <2> QED BY <2>1, <2>6, <2>7
<1> QED BY <1>2, <1>3 DEF GroupedAsUngrouped

(* The manifest's total, added up by statement.                              *)
LEMMA CallTotalsByStatement ==
  ASSUME NEW doc, IsDoc(doc)
  PROVE  CallTotals(doc) = SumFunctionOnSet(TotalCalls(doc), Stmt)
<1> DEFINE f == [n \in Node |-> [s \in Stmt |-> RowOn(doc, n, s).calls]]
           t == [s \in Stmt |-> On(doc, s, CallsColumn)]
           r == [n \in Node |-> SumFunctionOnSet(f[n], Stmt)]
           perNode == [n \in DOMAIN doc |-> SumFunction([s \in DOMAIN doc[n] |-> doc[n][s].calls])]
<1>0. IsFiniteSet(Node) /\ IsFiniteSet(Stmt)
  BY StatementsAssumption
<1>1. DOMAIN doc \in SUBSET Node /\ IsFiniteSet(DOMAIN doc)
  BY <1>0, FS_Subset DEF IsDoc
<1>2. \A n \in Node: \A s \in Stmt: f[n][s] \in Nat /\ t[s][n] = f[n][s]
  BY RowOnType, ColumnsAre DEF On
<1>3. \A n \in Node: r[n] = SumFunctionOnSet(f[n], Stmt)
  OBVIOUS
<1>4. \A s \in Stmt: TotalCalls(doc)[s] = SumFunctionOnSet(t[s], Node)
  BY DEF TotalCalls, Calls, Total, On, SumFunction
<1>5. ASSUME NEW n \in DOMAIN doc
      PROVE  perNode[n] = r[n]
  <2> DEFINE g == [s \in DOMAIN doc[n] |-> doc[n][s].calls]
             h == f[n]
             L == DOMAIN doc[n]
  <2>1. L \in SUBSET Stmt /\ IsFiniteSet(L)
    BY <1>0, FS_Subset DEF IsDoc
  <2>2. /\ \A s \in L: h[s] \in Int /\ g[s] = h[s]
        /\ \A s \in Stmt \ L: h[s] = 0
    BY <1>1, <1>2, <2>1, NoRowType DEF RowOn
  <2>3. perNode[n] = SumFunctionOnSet(g, L)
    BY DEF SumFunction
  <2>4. r[n] = SumFunctionOnSet(h, Stmt)
    BY <1>1
  <2> HIDE DEF g, h, L, perNode, r, f
  <2>5. SumFunctionOnSet(g, L) = SumFunctionOnSet(h, L)
    BY <2>1, <2>2, SumEqual
  <2>6. SumFunctionOnSet(h, Stmt) = SumFunctionOnSet(h, L)
    BY <1>0, <2>1, <2>2, SumSupport
  <2> QED BY <2>3, <2>4, <2>5, <2>6
<1>6. ASSUME NEW n \in Node
      PROVE  r[n] \in Int /\ (n \notin DOMAIN doc => r[n] = 0)
  <2> DEFINE h == f[n]
  <2>1. \A s \in Stmt: h[s] \in Int /\ (n \notin DOMAIN doc => h[s] = 0)
    BY <1>2, NoRowType DEF RowOn
  <2>2. r[n] = SumFunctionOnSet(h, Stmt)
    OBVIOUS
  <2> HIDE DEF h, r, f
  <2> QED BY <1>0, <2>1, <2>2, SumIsInt, SumZero
<1>7. CallTotals(doc) = SumFunctionOnSet(perNode, DOMAIN doc)
  BY DEF CallTotals, SumFunction
<1> HIDE DEF f, t, r, perNode
<1>8. SumFunctionOnSet(perNode, DOMAIN doc) = SumFunctionOnSet(r, DOMAIN doc)
  BY <1>1, <1>5, <1>6, SumEqual
<1>9. SumFunctionOnSet(r, Node) = SumFunctionOnSet(r, DOMAIN doc)
  BY <1>0, <1>1, <1>6, SumSupport
<1>10. SumFunctionOnSet(r, Node) = SumFunctionOnSet(TotalCalls(doc), Stmt)
  <2>1. Transposed(t, f, Node, Stmt)
    BY <1>2 DEF Transposed
  <2>2. RowSums(r, f, Node, Stmt) /\ RowSums(TotalCalls(doc), t, Stmt, Node)
    BY <1>3, <1>4 DEF RowSums
  <2> QED BY <1>0, <2>1, <2>2, SumSwap
<1> QED BY <1>7, <1>8, <1>9, <1>10

(* The difference of the totals is what all statements gained.               *)
LEMMA ChartAgreesInvariant == TypeOK => ChartAgrees
<1> SUFFICES ASSUME TypeOK, NothingGone PROVE ChartAgrees
  BY DEF ChartAgrees
<1> DEFINE calls == [s \in DOMAIN Rows |-> Rows[s].calls]
<1>1. CallTotals(newer) - CallTotals(older) = SumFunctionOnSet(CallsByStmt, Stmt)
  <2>1. \A s \in Stmt: /\ TotalCalls(newer)[s] \in Int /\ TotalCalls(older)[s] \in Int
                       /\ CallsByStmt[s] = TotalCalls(newer)[s] - TotalCalls(older)[s]
    BY GainedType DEF TotalCalls, CallsByStmt, Gained
  <2>2. SumFunctionOnSet(CallsByStmt, Stmt)
          = SumFunctionOnSet(TotalCalls(newer), Stmt) - SumFunctionOnSet(TotalCalls(older), Stmt)
    BY <2>1, StatementsAssumption, SumMinus
  <2> QED BY <2>2, CallTotalsByStatement DEF TypeOK
<1>2. DOMAIN Rows \in SUBSET Stmt /\ IsFiniteSet(DOMAIN Rows)
  BY RowsTable, StatementsAssumption, FS_Subset
<1>3. ASSUME NEW s \in Stmt \ DOMAIN Rows
      PROVE  Gained(s) = 0
  <2>1. CASE s \in DOMAIN Merged
    BY <2>1, RowsTable
  <2>2. CASE s \notin DOMAIN Merged
    <3>1. Calls(newer, s) = 0 /\ Calls(older, s) = 0
      BY <2>2, RowsTable, TotalType, ColumnsAre DEF NothingGone, TypeOK, Calls
    <3> QED BY <3>1 DEF Gained
  <2> QED BY <2>1, <2>2
<1>4. /\ \A s \in DOMAIN Rows: CallsByStmt[s] \in Int /\ calls[s] = CallsByStmt[s]
      /\ \A s \in Stmt \ DOMAIN Rows: CallsByStmt[s] = 0
  BY <1>2, <1>3, RowsTable, GainedType DEF CallsByStmt
<1>5. SumFunction(calls) = SumFunctionOnSet(calls, DOMAIN Rows)
  BY DEF SumFunction
<1>6. ChartAgrees <=> deltaCalls(newer, older) = IF SumFunction(calls) > 0 THEN SumFunction(calls) ELSE 0
  BY DEF ChartAgrees
<1> HIDE DEF calls
<1>7. SumFunctionOnSet(calls, DOMAIN Rows) = SumFunctionOnSet(CallsByStmt, DOMAIN Rows)
  BY <1>2, <1>4, SumEqual
<1>8. SumFunctionOnSet(CallsByStmt, Stmt) = SumFunctionOnSet(CallsByStmt, DOMAIN Rows)
  BY <1>2, <1>4, StatementsAssumption, SumSupport
<1>9. CallTotals(newer) - CallTotals(older) = SumFunction(calls)
  BY <1>1, <1>5, <1>7, <1>8
<1> QED BY <1>6, <1>9 DEF deltaCalls

(* A family's gain is its gains on every node, and only those that are not   *)
(* positive are left out.                                                    *)
LEMMA DistributionAddsUpInvariant == TypeOK => DistributionAddsUp
<1> SUFFICES ASSUME TypeOK, NEW f \in DOMAIN FamilyRows
             PROVE  LET parts == Contributions(newer, older, f)
                        total == SumFunction(parts)
                    IN /\ total >= FamilyRows[f].calls
                       /\ (\A n \in Node: \A s \in {t \in Stmt: Family(t) = f}:
                             RowOn(newer, n, s).calls >= RowOn(older, n, s).calls) =>
                            total = FamilyRows[f].calls
  BY DEF DistributionAddsUp
<1> DEFINE parts == Contributions(newer, older, f)
           gain == [n \in Node |-> [s \in Kin(f) |-> RowOn(newer, n, s).calls - RowOn(older, n, s).calls]]
           G == [n \in Node |-> SumFunctionOnSet(gain[n], Kin(f))]
           back == [s \in Kin(f) |-> [n \in Node |-> RowOn(newer, n, s).calls - RowOn(older, n, s).calls]]
           P == DOMAIN parts
<1>0. IsFiniteSet(Node) /\ IsFiniteSet(Kin(f)) /\ Kin(f) \subseteq Stmt
  BY StatementsAssumption, KinFinite
<1>1. ASSUME NEW n \in Node, NEW s \in Kin(f)
      PROVE  RowOn(newer, n, s).calls \in Nat /\ RowOn(older, n, s).calls \in Nat
  BY <1>0, RowOnType DEF TypeOK
<1>2. ASSUME NEW n \in Node
      PROVE  /\ G[n] \in Int
             /\ G[n] = SumFunction([s \in Kin(f) |-> RowOn(newer, n, s).calls])
                         - SumFunction([s \in Kin(f) |-> RowOn(older, n, s).calls])
             /\ n \notin DOMAIN newer \cup DOMAIN older => G[n] = 0
             /\ (\A s \in Kin(f): RowOn(newer, n, s).calls >= RowOn(older, n, s).calls) => G[n] >= 0
  <2> DEFINE a == [s \in Kin(f) |-> RowOn(newer, n, s).calls]
             b == [s \in Kin(f) |-> RowOn(older, n, s).calls]
             h == gain[n]
  <2>1. \A s \in Kin(f): a[s] \in Int /\ b[s] \in Int /\ h[s] = a[s] - b[s] /\ h[s] \in Int
    BY <1>1
  <2>2. SumFunction(a) = SumFunctionOnSet(a, Kin(f)) /\ SumFunction(b) = SumFunctionOnSet(b, Kin(f))
    BY DEF SumFunction
  <2>3. n \notin DOMAIN newer \cup DOMAIN older => \A s \in Kin(f): h[s] = 0
    BY NoRowType DEF RowOn
  <2>4. ASSUME \A s \in Kin(f): RowOn(newer, n, s).calls >= RowOn(older, n, s).calls
        PROVE  \A s \in Kin(f): h[s] \in Nat
    BY <1>1, <2>4
  <2>5. G[n] = SumFunctionOnSet(h, Kin(f))
    OBVIOUS
  <2> HIDE DEF a, b, h, gain, G
  <2>6. SumFunctionOnSet(h, Kin(f)) = SumFunctionOnSet(a, Kin(f)) - SumFunctionOnSet(b, Kin(f))
    BY <1>0, <2>1, SumMinus
  <2>7. SumFunctionOnSet(h, Kin(f)) \in Int
    BY <1>0, <2>1, SumIsInt
  <2>8. (\A s \in Kin(f): h[s] = 0) => SumFunctionOnSet(h, Kin(f)) = 0
    BY <1>0, SumZero
  <2>9. (\A s \in Kin(f): h[s] \in Nat) => SumFunctionOnSet(h, Kin(f)) >= 0
    BY <1>0, SumIsNat
  <2> QED BY <2>2, <2>3, <2>4, <2>5, <2>6, <2>7, <2>8, <2>9 DEF a, b
<1>3. SumFunctionOnSet(G, Node) = FamilyRows[f].calls
  <2>1. \A n \in Node: \A s \in Kin(f): gain[n][s] \in Int /\ back[s][n] = gain[n][s]
    BY <1>1
  <2>2. \A n \in Node: G[n] = SumFunctionOnSet(gain[n], Kin(f))
    OBVIOUS
  <2>3. ASSUME NEW s \in Kin(f)
        PROVE  CallsByStmt[s] = SumFunctionOnSet(back[s], Node)
    <3> DEFINE g == back[s]
               a == On(newer, s, CallsColumn)
               b == On(older, s, CallsColumn)
    <3>1. \A n \in Node: a[n] \in Int /\ b[n] \in Int /\ g[n] = a[n] - b[n]
      BY <1>1, ColumnsAre DEF On
    <3>2. CallsByStmt[s] = SumFunctionOnSet(a, Node) - SumFunctionOnSet(b, Node)
      BY <1>0 DEF CallsByStmt, Gained, Calls, Total, On, SumFunction
    <3> HIDE DEF g, a, b, back
    <3>3. SumFunctionOnSet(g, Node) = SumFunctionOnSet(a, Node) - SumFunctionOnSet(b, Node)
      BY <1>0, <3>1, SumMinus
    <3> QED BY <3>2, <3>3 DEF g
  <2> HIDE DEF gain, back, G
  <2>4. Transposed(back, gain, Node, Kin(f))
    BY <2>1 DEF Transposed
  <2>5. RowSums(G, gain, Node, Kin(f)) /\ RowSums(CallsByStmt, back, Kin(f), Node)
    BY <2>2, <2>3 DEF RowSums
  <2>6. SumFunctionOnSet(G, Node) = SumFunctionOnSet(CallsByStmt, Kin(f))
    BY <1>0, <2>4, <2>5, SumSwap
  <2> QED BY <2>6, FamilyRowsTable
<1>4. /\ P = {n \in DOMAIN newer \cup DOMAIN older: G[n] > 0}
      /\ \A n \in P: parts[n] = G[n]
      /\ P \in SUBSET Node
  <2>1. DOMAIN newer \cup DOMAIN older \subseteq Node
    BY DEF TypeOK, IsDoc
  <2> HIDE DEF G
  <2> QED BY <1>2, <2>1 DEF Contributions, Kin
<1>10. /\ \A n \in Node: G[n] \in Int
       /\ \A n \in Node \ P: G[n] <= 0
       /\ \A n \in P: G[n] \in Int /\ parts[n] = G[n]
       /\ P \in SUBSET Node
  <2>1. \A n \in Node: G[n] \in Int /\ (n \notin DOMAIN newer \cup DOMAIN older => G[n] = 0)
    BY <1>2
  <2> HIDE DEF G, parts
  <2> QED BY <1>4, <2>1
<1> HIDE DEF G, parts, P
<1>5. IsFiniteSet(P) /\ IsFiniteSet(Node \ P)
  BY <1>0, <1>10, FS_Subset
<1>6. SumFunction(parts) = SumFunctionOnSet(G, P)
  <2>1. SumFunction(parts) = SumFunctionOnSet(parts, P)
    BY DEF SumFunction, P
  <2> QED BY <1>5, <1>10, <2>1, SumEqual
<1>7. /\ SumFunctionOnSet(G, Node) = SumFunctionOnSet(G, P) + SumFunctionOnSet(G, Node \ P)
      /\ SumFunctionOnSet(G, P) \in Int /\ SumFunctionOnSet(G, Node \ P) \in Int
  <2>1. SumFunctionOnSet(G, Node) = SumFunctionOnSet(G, P) + SumFunctionOnSet(G, Node \ P)
    BY <1>0, <1>10, SumSplit
  <2>2. \A n \in Node \ P: G[n] \in Int
    BY <1>10
  <2>3. SumFunctionOnSet(G, P) \in Int
    BY <1>5, <1>10, SumIsInt
  <2>4. SumFunctionOnSet(G, Node \ P) \in Int
    BY <1>5, <2>2, SumIsInt
  <2> QED BY <2>1, <2>3, <2>4
<1>8. SumFunctionOnSet(G, Node \ P) <= 0
  <2> DEFINE zero == [n \in Node \ P |-> 0]
  <2>1. \A n \in Node \ P: G[n] \in Int /\ zero[n] \in Int /\ G[n] <= zero[n] /\ zero[n] = 0
    BY <1>10
  <2> HIDE DEF zero
  <2>2. SumFunctionOnSet(G, Node \ P) <= SumFunctionOnSet(zero, Node \ P)
    BY <1>5, <2>1, SumMonotone
  <2>3. SumFunctionOnSet(zero, Node \ P) = 0
    BY <1>5, <2>1, SumZero
  <2> QED BY <2>2, <2>3
<1>9. ASSUME \A n \in Node: \A s \in {t \in Stmt: Family(t) = f}:
               RowOn(newer, n, s).calls >= RowOn(older, n, s).calls
      PROVE  SumFunctionOnSet(G, Node \ P) = 0
  <2>1. \A n \in Node: G[n] >= 0
    BY <1>2, <1>9 DEF Kin
  <2>2. \A n \in Node \ P: G[n] = 0
    BY <1>10, <2>1
  <2> QED BY <1>5, <2>2, SumZero
<1> QED BY <1>3, <1>6, <1>7, <1>8, <1>9 DEF parts

-----------------------------------------------------------------------------
(* TypeOK: documents hold listed statements only, a row's histogram adds up  *)
(* to its calls, and counters stay within what can have been executed.       *)
THEOREM TypeCorrect == Spec => []TypeOK
BY IInvHolds, PTL DEF IInv

(* DeltaIsTruth: for any nodes, statements, measured times, top-N limit,     *)
(* resets and documents, the delta of a statement that both documents list   *)
(* completely is what clients executed in between, calls and time, and never *)
(* more, whatever was reset.                                                 *)
THEOREM DeltasAreTruth == Spec => []DeltaIsTruth
BY IInvHolds, DeltaIsTruthInvariant, PTL

(* GroupedAsUngrouped: subtracting sums and summing differences agree, and   *)
(* their rounded times up to one hundredth per member, of any two documents. *)
THEOREM FamiliesAgree == Spec => []GroupedAsUngrouped
BY TypeCorrect, GroupedAsUngroupedInvariant, PTL

(* ChartAgrees: adding up node by node and statement by statement agree, of  *)
(* any two documents.                                                        *)
THEOREM ChartsAgree == Spec => []ChartAgrees
BY TypeCorrect, ChartAgreesInvariant, PTL

(* TerminalAgrees: of any two documents, whatever was reset, the same calls, *)
(* and times at most one hundredth of a millisecond apart, a missing row     *)
(* being zeros; and the same rows of statements that no document misses and  *)
(* no reset touched.                                                         *)
THEOREM TerminalsAgree == Spec => []TerminalAgrees
BY IInvHolds, TerminalAgreesInvariant, PTL

(* LinkLeadsHome: whichever member stands for a family.                      *)
THEOREM LinksLeadHome == Spec => []LinkLeadsHome
BY TypeCorrect, LinkLeadsHomeInvariant, PTL

(* DistributionAddsUp: of any two documents, whichever nodes they have.      *)
THEOREM DistributionsAddUp == Spec => []DistributionAddsUp
BY TypeCorrect, DistributionAddsUpInvariant, PTL
=============================================================================
