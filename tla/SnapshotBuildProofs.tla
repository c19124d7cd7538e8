------------------------ MODULE SnapshotBuildProofs ------------------------
(* What SnapshotBuild guarantees for any set of nodes and any parallelism.   *)
EXTENDS SnapshotBuild, FiniteSetTheorems, TLAPS

(* Where the tick is, decides what has been collected: nothing is pending    *)
(* outside the fan-out, and after it everything is done.                     *)
Outside == pc \in {"idle", "discover", "caps", "extension"}

Collection ==
  /\ pc \in {"idle", "discover"} => nodes = {}
  /\ Outside => task = NoTasks /\ results = {} /\ ~raised
  /\ ~Outside => \A n \in Node: n \notin nodes <=> task[n] = "none"
  /\ pc \notin {"idle", "discover"} => nodes # {}
  /\ results \subseteq In({"done"})
  /\ pc \in {"tables", "write", "gc"} => results = nodes

(* A snapshot is announced only after it has been written.                   *)
Announced ==
  /\ pc = "gc" => wrote
  /\ pc = "idle" /\ shown = "tables" => wrote

Inv == TypeOK /\ Collection /\ Announced

-----------------------------------------------------------------------------
LEMMA InvInit == Init => Inv
BY BuildAssumption
   DEF Init, Inv, TypeOK, Collection, Announced, Outside, NoTasks, In, Stage

(* The end of an iteration, however it comes about.                          *)
LEMMA EndTickInv ==
  ASSUME TypeOK, NEW panel \in {"tables", "unavailable"}, EndTick(panel),
         UNCHANGED <<world, caps, wrote, snapshots>>,
         panel = "tables" => wrote
  PROVE  Inv'
BY DEF EndTick, Inv, TypeOK, Collection, Announced, Outside, NoTasks, In, Stage, world

LEMMA InvStep == Inv /\ [Next]_vars => Inv'
<1> SUFFICES ASSUME Inv, [Next]_vars PROVE Inv'
  OBVIOUS
<1>0. TypeOK /\ Collection /\ Announced
  BY DEF Inv
<1> USE <1>0 DEF TypeOK, Collection, Announced, Outside, In, Stage, world
<1>1. CASE Flap
  <2>1. up' \subseteq Node /\ disk' \in BOOLEAN
    BY <1>1 DEF Flap, Toggle
  <2>2. UNCHANGED <<parallelism, extension, pc, first, caps, nodes, task,
                    results, raised, wrote, shown, snapshots>>
    BY <1>1 DEF Flap
  <2> QED
    BY <2>1, <2>2 DEF Inv
<1>2. CASE StartTick \/ Discover \/ DetectCapabilities
  <2>1. CASE StartTick
    BY <2>1 DEF Inv, StartTick
  <2>2. CASE Discover
    <3>1. nodes' \subseteq Node /\ nodes' # {}
      BY <2>2 DEF Discover
    <3>2. pc = "discover" /\ pc' = "caps"
      BY <2>2 DEF Discover
    <3>3. UNCHANGED <<parallelism, up, extension, disk, first, caps, task, results,
                      raised, wrote, shown, snapshots>>
      BY <2>2 DEF Discover
    <3> QED
      BY <3>1, <3>2, <3>3 DEF Inv, NoTasks
  <2>3. CASE DetectCapabilities
    BY <2>3 DEF Inv, DetectCapabilities
  <2> QED
    BY <1>2, <2>1, <2>2, <2>3
<1>3. CASE SeedFails \/ NoServers \/ ExitPool \/ DiskFails
  <2>1. TickError
    BY <1>3 DEF SeedFails, NoServers, ExitPool, DiskFails
  <2> QED
    BY <2>1, EndTickInv DEF TickError
<1>4. CASE GC
  BY <1>4, EndTickInv DEF GC
<1>5. CASE EnsureExtension
  BY <1>5 DEF Inv, EnsureExtension, NoTasks
<1>6. ASSUME NEW n \in Node, PoolThread(n)
      PROVE  Inv'
  <2>1. CASE StartNode(n)
    BY <2>1 DEF Inv, StartNode
  <2>2. CASE NodeStep(n) \/ NodeFails(n)
    BY <2>2 DEF Inv, NodeStep, NodeFails, NextStage, Running, NoTasks
  <2> QED
    BY <1>6, <2>1, <2>2 DEF PoolThread
<1>7. ASSUME NEW n \in Node, ConsumeResult(n)
      PROVE  Inv'
  BY <1>7 DEF Inv, ConsumeResult
<1>8. CASE ConsumeError \/ Collected \/ TopTables \/ WriteSnapshot
  BY <1>8 DEF Inv, ConsumeError, Collected, TopTables, WriteSnapshot
<1>9. CASE UNCHANGED vars
  BY <1>9 DEF Inv, vars
<1> QED
  BY <1>1, <1>2, <1>3, <1>4, <1>5, <1>6, <1>7, <1>8, <1>9 DEF Next, MainThread

LEMMA Invariant == Spec => []Inv
<1> QED
  BY InvInit, InvStep, PTL DEF Spec

-----------------------------------------------------------------------------
(* Whatever the cluster does, every variable of the loop stays in its type;  *)
(* in particular a worker goes through the calls of _collect_one_node in     *)
(* their order and through nothing else.                                     *)
THEOREM TypeCorrect == Spec => []TypeOK
<1>1. Inv => TypeOK
  BY DEF Inv
<1> QED
  BY <1>1, Invariant, PTL

(* Any number of nodes, any parallelism: when _collect_nodes_parallel has    *)
(* returned, the document has the rows of every node of its tick, and every  *)
(* one of them has been through all its queries.                             *)
THEOREM AllOrNothing == Spec => []CompleteDocument
<1>1. Inv => CompleteDocument
  BY DEF Inv, Collection, CompleteDocument
<1> QED
  BY <1>1, Invariant, PTL

(* Any number of nodes: outside _collect_nodes_parallel no thread is at work *)
(* nor a node waiting for one, so the next tick starts with an empty pool    *)
(* and the checkpoint log is read by the only thread that is left.           *)
LEMMA NoneLeftBehind == Spec => []NoStragglers
<1>1. Inv => NoStragglers
  <2> SUFFICES ASSUME Inv, pc # "collect", NEW n \in Node
               PROVE  task[n] \in {"none", "done"}
    BY DEF NoStragglers, In, Stage
  <2> USE DEF Inv, TypeOK, Collection
  <2>1. CASE Outside
    BY <2>1 DEF NoTasks
  <2>2. CASE ~Outside
    BY <2>2 DEF Outside, In
  <2> QED
    BY <2>1, <2>2
<1> QED
  BY <1>1, Invariant, PTL

(* The terminal never shows the tables of a tick that published nothing.     *)
THEOREM TerminalHonest == Spec => []TablesMeanWritten
<1>1. Inv => TablesMeanWritten
  BY DEF Inv, Announced, TablesMeanWritten
<1> QED
  BY <1>1, Invariant, PTL

-----------------------------------------------------------------------------
(* The pool                                                                  *)

LEMMA RunningFinite ==
  /\ IsFiniteSet(Running) /\ Cardinality(Running) \in Nat
  /\ IsFiniteSet(Running') /\ Cardinality(Running') \in Nat
<1>1. Running \subseteq Node /\ Running' \subseteq Node
  BY DEF Running, In
<1> QED
  BY <1>1, BuildAssumption, FS_Subset, FS_CardinalityType

(* A step that starts no query leaves the bound alone.                       *)
LEMMA FewerRunning ==
  ASSUME Inv, PoolBounded, Running' \subseteq Running, UNCHANGED parallelism
  PROVE  PoolBounded'
<1>1. Cardinality(Running') <= Cardinality(Running)
  BY RunningFinite, FS_Subset
<1>2. AtLeastOne(parallelism) \in Int /\ AtLeastOne(parallelism') = AtLeastOne(parallelism)
  BY BuildAssumption DEF Inv, TypeOK, AtLeastOne
<1> QED
  BY <1>1, <1>2, RunningFinite DEF PoolBounded

LEMMA StartNodeBounded ==
  ASSUME Inv, NEW n \in Node, StartNode(n)
  PROVE  PoolBounded'
<1>1. Running' = Running \cup {n}
  BY DEF StartNode, Running, In, Stage, Inv, TypeOK
<1>2. Cardinality(Running') <= Cardinality(Running) + 1
  BY <1>1, RunningFinite, FS_AddElement
<1>3. nodes \subseteq Node /\ parallelism \in Int /\ UNCHANGED parallelism
  BY BuildAssumption DEF StartNode, Inv, TypeOK, world
<1>4. Cardinality(nodes) \in Nat
  BY <1>3, BuildAssumption, FS_Subset, FS_CardinalityType
<1>5. Cardinality(Running) < Workers
  BY DEF StartNode
<1>6. Workers <= AtLeastOne(parallelism) /\ Workers \in Int
  BY <1>3, <1>4 DEF Workers, AtLeastOne
<1>7. AtLeastOne(parallelism) \in Int
  BY <1>3 DEF AtLeastOne
<1>8. Cardinality(Running') <= AtLeastOne(parallelism)
  BY <1>2, <1>5, <1>6, <1>7, RunningFinite
<1> QED
  BY <1>3, <1>8 DEF PoolBounded, AtLeastOne

LEMMA PoolBoundedStep == Inv /\ PoolBounded /\ [Next]_vars => PoolBounded'
<1> SUFFICES ASSUME Inv, PoolBounded, [Next]_vars PROVE PoolBounded'
  OBVIOUS
<1>1. ASSUME NEW n \in Node, StartNode(n) PROVE PoolBounded'
  BY <1>1, StartNodeBounded
<1>2. ASSUME ~\E n \in Node: StartNode(n)
      PROVE  Running' \subseteq Running /\ UNCHANGED parallelism
  <2>1. CASE UNCHANGED task /\ UNCHANGED parallelism
    BY <2>1 DEF Running, In
  <2>2. CASE task' = NoTasks /\ UNCHANGED parallelism
    BY <2>2 DEF Running, In, NoTasks, Stage
  <2>3. CASE EnsureExtension
    BY <2>3 DEF EnsureExtension, Running, In, Stage
  <2>4. ASSUME NEW n \in Node, NodeStep(n) \/ NodeFails(n)
        PROVE  Running' \subseteq Running /\ UNCHANGED parallelism
    BY <2>4 DEF Inv, TypeOK, NodeStep, NodeFails, Running, In, Stage, world
  <2>5. [Next]_vars /\ ~EnsureExtension /\ ~(\E n \in Node: NodeStep(n) \/ NodeFails(n))
          => UNCHANGED parallelism /\ (UNCHANGED task \/ task' = NoTasks)
    BY <1>2 DEF Next, MainThread, PoolThread, Flap, StartTick, SeedFails, Discover,
                NoServers, DetectCapabilities, ConsumeResult, ConsumeError, ExitPool,
                Collected, TopTables, WriteSnapshot, DiskFails, GC, TickError, EndTick,
                world, vars
  <2> QED
    BY <2>1, <2>2, <2>3, <2>4, <2>5
<1> QED
  BY <1>1, <1>2, FewerRunning

(* For every cluster and every --node-parallelism, zero and negative ones    *)
(* included: the queries at work never outnumber it (or one).                *)
LEMMA ParallelismKept == Spec => []PoolBounded
<1>1. Init => PoolBounded
  <2> SUFFICES ASSUME Init PROVE Cardinality(Running) <= AtLeastOne(parallelism)
    BY DEF PoolBounded
  <2>1. Running = {}
    BY DEF Init, Running, In, NoTasks, Stage
  <2>2. parallelism \in Int
    BY BuildAssumption DEF Init
  <2> QED
    BY <2>1, <2>2, FS_EmptySet DEF AtLeastOne
<1> QED
  BY <1>1, Invariant, PoolBoundedStep, PTL DEF Spec

(* Both together: connections are opened by the threads of the pool only,    *)
(* never more than asked for, and none is open when the tick goes on.        *)
THEOREM PoolStaysConfined == Spec => []PoolConfined
<1>1. NoStragglers /\ PoolBounded => PoolConfined
  BY DEF PoolConfined
<1> QED
  BY <1>1, NoneLeftBehind, ParallelismKept, PTL
=============================================================================
