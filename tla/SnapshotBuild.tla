--------------------------- MODULE SnapshotBuild ---------------------------
(* The loop of `ybtop watch` and the collection of one snapshot: discover    *)
(* the nodes, probe the capabilities, create the YCQL extension, query every *)
(* node from a pool of threads, look the top tables up, write, collect       *)
(* garbage.  The cluster is external: which nodes answer, and whether the    *)
(* extension is there, changes under the program's feet.                     *)
EXTENDS Integers, FiniteSets

CONSTANTS
  Node,          \* the YSQL nodes of the universe
  Seed,          \* the node of the seed DSN
  Parallelisms   \* values of --node-parallelism

ASSUME BuildAssumption ==
  /\ IsFiniteSet(Node)
  /\ Seed \in Node
  /\ Parallelisms \subseteq Int

VARIABLES
  parallelism,   \* --node-parallelism of this process
  up,            \* external: the nodes that answer
  extension,     \* external: yb_ycql_utils exists
  disk,          \* external: the output directory can be written
  pc,            \* where the main thread is
  first,         \* this is iteration 1
  caps,          \* the capabilities of the seed are cached
  nodes,         \* result of discover_ysql_nodes
  task,          \* per node: not submitted, queued, at a stage, done or failed
  results,       \* nodes whose future the main thread has consumed
  raised,        \* a future's exception is propagating
  wrote,         \* this tick has published a snapshot
  shown,         \* what the terminal shows of the last tick
  snapshots      \* some tick has published a snapshot

world == <<parallelism, up, extension, disk>>
vars == <<parallelism, up, extension, disk, pc, first, caps, nodes, task,
          results, raised, wrote, shown, snapshots>>

Stage == {"connect", "ysql", "ycql", "ash", "tablets"}

NextStage_Renamed == [connect |-> "ysql", ysql |-> "ycql", ycql |-> "ash",
                      ash |-> "tablets", tablets |-> "closed"]

(* What a worker does with its node; NextStage is the order of the calls.    *)
NextStage == [connect |-> "ysql", ysql |-> "ycql", ycql |-> "ash",
              ash |-> "tablets", tablets |-> "done"]

TypeOK ==
  /\ parallelism \in Parallelisms
  /\ up \subseteq Node
  /\ extension \in BOOLEAN
  /\ disk \in BOOLEAN
  /\ pc \in {"idle", "discover", "caps", "extension", "collect", "tables", "write", "gc"}
  /\ first \in BOOLEAN
  /\ caps \in BOOLEAN
  /\ nodes \subseteq Node
  /\ task \in [Node -> Stage \cup {"none", "queued", "done", "failed"}]
  /\ results \subseteq Node
  /\ raised \in BOOLEAN
  /\ wrote \in BOOLEAN
  /\ shown \in {"collecting", "tables", "unavailable"}
  /\ snapshots \in BOOLEAN

In(states) == {n \in Node: task[n] \in states}
Running == In(Stage)

AtLeastOne(k) == IF k < 1 THEN 1 ELSE k
Workers ==
  LET asked == AtLeastOne(parallelism)
  IN IF asked < Cardinality(nodes) THEN asked ELSE Cardinality(nodes)

NoTasks == [n \in Node |-> "none"]

-----------------------------------------------------------------------------
Init ==
  /\ parallelism \in Parallelisms
  /\ up \in SUBSET Node
  /\ extension \in BOOLEAN
  /\ disk \in BOOLEAN
  /\ pc = "idle"
  /\ first = TRUE
  /\ caps = FALSE
  /\ nodes = {}
  /\ task = NoTasks
  /\ results = {}
  /\ raised = FALSE
  /\ wrote = FALSE
  /\ shown = "collecting"
  /\ snapshots = FALSE

Toggle(set, n) == IF n \in set THEN set \ {n} ELSE set \cup {n}

(* External: nodes stop and start answering; the disk fills up and is cleaned. *)
Flap ==
  /\ \/ \E n \in Node: up' = Toggle(up, n) /\ UNCHANGED disk
     \/ disk' = ~disk /\ UNCHANGED up
  /\ UNCHANGED <<parallelism, extension, pc, first, caps, nodes, task, results,
                 raised, wrote, shown, snapshots>>

-----------------------------------------------------------------------------
(* run_watch                                                                 *)

StartTick ==
  /\ pc = "idle"
  /\ pc' = "discover"
  /\ wrote' = FALSE
  /\ UNCHANGED <<world, first, caps, nodes, task, results, raised, shown, snapshots>>

EndTick_KeepResults(panel) ==
  /\ pc' = "idle"
  /\ first' = FALSE
  /\ nodes' = {}
  /\ task' = NoTasks
  /\ UNCHANGED results
  /\ raised' = FALSE
  /\ shown' = panel

(* The end of an iteration: what was collected is dropped, the panel updated. *)
EndTick(panel) ==
  /\ pc' = "idle"
  /\ first' = FALSE
  /\ nodes' = {}
  /\ task' = NoTasks
  /\ results' = {}
  /\ raised' = FALSE
  /\ shown' = panel

TickError_KeepDoc ==
  /\ EndTick("tables")
  /\ UNCHANGED <<world, caps, wrote, snapshots>>

(* `except Exception`: the tick is over, the loop goes on.                   *)
TickError ==
  /\ EndTick("unavailable")
  /\ UNCHANGED <<world, caps, wrote, snapshots>>

-----------------------------------------------------------------------------
(* build_snapshot_document up to the fan-out, on the seed's connection       *)

SeedFails ==
  /\ pc \in {"discover", "caps", "extension", "tables"}
  /\ Seed \notin up
  /\ pc = "caps" => ~caps
  /\ pc = "extension" => first
  /\ TickError

(* yb_servers() lists nodes that may or may not answer, others each time;    *)
(* no row is an error.                                                       *)
Discover ==
  /\ pc = "discover"
  /\ Seed \in up
  /\ nodes' \in (SUBSET Node) \ {{}}
  /\ pc' = "caps"
  /\ UNCHANGED <<world, first, caps, task, results, raised, wrote, shown, snapshots>>

NoServers ==
  /\ pc = "discover"
  /\ Seed \in up
  /\ TickError

DetectCapabilities ==
  /\ pc = "caps"
  /\ caps \/ Seed \in up
  /\ caps' = TRUE
  /\ pc' = "extension"
  /\ UNCHANGED <<world, first, nodes, task, results, raised, wrote, shown, snapshots>>

(* Only iteration 1 asks for the extension.                                  *)
EnsureExtension ==
  /\ pc = "extension"
  /\ first => Seed \in up
  /\ extension' = (extension \/ first)
  /\ pc' = "collect"
  /\ task' = [n \in Node |-> IF n \in nodes THEN "queued" ELSE "none"]
  /\ UNCHANGED <<parallelism, up, disk, first, caps, nodes, results, raised,
                 wrote, shown, snapshots>>

-----------------------------------------------------------------------------
(* _collect_nodes_parallel: the pool's threads                               *)

(* With one worker the nodes are queried in the main thread, and a failure   *)
(* leaves the rest alone; with more, the pool empties its queue regardless.  *)
StartNode(n) ==
  /\ pc = "collect"
  /\ task[n] = "queued"
  /\ Cardinality(Running) < Workers
  /\ Workers = 1 => ~raised /\ In({"failed"}) = {}
  /\ task' = [task EXCEPT ![n] = "connect"]
  /\ UNCHANGED <<world, pc, first, caps, nodes, results, raised, wrote, shown, snapshots>>

(* A query needs the node, and ycql_stat_statements needs the extension.     *)
Answers(n) == n \in up /\ (task[n] = "ycql" => extension)

NodeStep(n) ==
  /\ n \in Running
  /\ Answers(n)
  /\ task' = [task EXCEPT ![n] = NextStage[task[n]]]
  /\ UNCHANGED <<world, pc, first, caps, nodes, results, raised, wrote, shown, snapshots>>

(* The worker closes its connection and its future holds the exception.      *)
NodeFails(n) ==
  /\ n \in Running
  /\ ~Answers(n)
  /\ task' = [task EXCEPT ![n] = "failed"]
  /\ UNCHANGED <<world, pc, first, caps, nodes, results, raised, wrote, shown, snapshots>>

ConsumeResult_AnyFuture(n) ==
  /\ pc = "collect"
  /\ ~raised
  /\ task[n] \in {"done", "failed"}
  /\ n \notin results
  /\ results' = results \cup {n}
  /\ UNCHANGED <<world, pc, first, caps, nodes, task, raised, wrote, shown, snapshots>>

(* The main thread: as_completed, fut.result(), and the pool's __exit__.     *)

ConsumeResult(n) ==
  /\ pc = "collect"
  /\ ~raised
  /\ task[n] = "done"
  /\ n \notin results
  /\ results' = results \cup {n}
  /\ UNCHANGED <<world, pc, first, caps, nodes, task, raised, wrote, shown, snapshots>>

ConsumeError ==
  /\ pc = "collect"
  /\ ~raised
  /\ In({"failed"}) # {}
  /\ raised' = TRUE
  /\ UNCHANGED <<world, pc, first, caps, nodes, task, results, wrote, shown, snapshots>>

PoolIdle_AllDone == nodes \subseteq In({"done"})

PoolIdle == Running = {} /\ (Workers = 1 \/ In({"queued"}) = {})

ExitPool_NoWait ==
  /\ pc = "collect"
  /\ raised
  /\ pc' = "idle"
  /\ first' = FALSE
  /\ nodes' = {}
  /\ results' = {}
  /\ raised' = FALSE
  /\ shown' = "unavailable"
  /\ UNCHANGED <<world, caps, task, wrote, snapshots>>

(* Leaving the `with` waits for the workers before the exception goes on.    *)
ExitPool ==
  /\ pc = "collect"
  /\ raised
  /\ PoolIdle
  /\ TickError

Collected ==
  /\ pc = "collect"
  /\ ~raised
  /\ results = nodes
  /\ pc' = "tables"
  /\ UNCHANGED <<world, first, caps, nodes, task, results, raised, wrote, shown, snapshots>>

-----------------------------------------------------------------------------
(* The rest of the tick                                                      *)

(* top_ash_table_ids and, with --snapshot-table-ddl, the seed's catalog.     *)
TopTables ==
  /\ pc = "tables"
  /\ pc' = "write"
  /\ UNCHANGED <<world, first, caps, nodes, task, results, raised, wrote, shown, snapshots>>

WriteSnapshot ==
  /\ pc = "write"
  /\ disk
  /\ pc' = "gc"
  /\ wrote' = TRUE
  /\ snapshots' = TRUE
  /\ UNCHANGED <<world, first, caps, nodes, task, results, raised, shown>>

DiskFails ==
  /\ ~disk
  /\ pc \in {"write", "gc"}
  /\ TickError

GC ==
  /\ pc = "gc"
  /\ disk
  /\ EndTick("tables")
  /\ UNCHANGED <<world, caps, wrote, snapshots>>

MainThread ==
  \/ StartTick \/ SeedFails \/ Discover \/ NoServers \/ DetectCapabilities
  \/ EnsureExtension
  \/ \E n \in Node: ConsumeResult(n)
  \/ ConsumeError \/ ExitPool \/ Collected \/ TopTables \/ WriteSnapshot
  \/ DiskFails \/ GC

PoolThread(n) == StartNode(n) \/ NodeStep(n) \/ NodeFails(n)

Next == Flap \/ MainThread \/ \E n \in Node: PoolThread(n)

Spec == Init /\ [][Next]_vars

(* Every call returns or raises: the threads keep running.                   *)
Fairness == WF_vars(MainThread) /\ \A n \in Node: WF_vars(PoolThread(n))

FairSpec == Spec /\ Fairness

-----------------------------------------------------------------------------
(* Properties                                                                *)

(* A snapshot document is all or nothing: from the moment the collection is  *)
(* over, it has the rows of every node discovered in this tick, each of      *)
(* which went through all its queries, however the pool's threads and the    *)
(* nodes' failures interleaved.                                              *)
CompleteDocument ==
  pc \in {"tables", "write", "gc"} =>
    /\ nodes # {}
    /\ results = nodes
    /\ nodes \subseteq In({"done"})

(* No more connections than --node-parallelism (at least one), at any time.  *)
PoolBounded == Cardinality(Running) <= AtLeastOne(parallelism)

(* The tick does not outrun its workers: when the main thread has left the   *)
(* fan-out, by success or by an exception, no thread still queries a node or *)
(* records a duration into the checkpoint log, which summary_fields then     *)
(* reads without its lock.                                                   *)
NoStragglers == pc # "collect" => In(Stage \cup {"queued"}) = {}

(* The nodes are queried by as many threads as asked for and during the      *)
(* fan-out only, whatever fails in the pool or in the main thread meanwhile. *)
PoolConfined == PoolBounded /\ NoStragglers

(* When the terminal shows the tables of a tick, that tick has published its *)
(* snapshot.  (The converse does not hold: a GC that fails afterwards makes  *)
(* it show that no snapshot was written.)                                    *)
TablesMeanWritten == pc = "idle" /\ shown = "tables" => wrote

(* The loop never stops: a tick that has begun ends, whatever fails.         *)
TickEnds == (pc # "idle") ~> (pc = "idle")

(* Nothing a failing tick leaves behind keeps later ones from succeeding:    *)
(* with the extension in place and all the nodes back and listed for good,   *)
(* snapshots are published again and again.                                  *)
Recovers ==
  <>[](up = Node /\ extension /\ disk) /\ <>[][~NoServers]_vars => []<>(pc = "gc")

(* What the documentation says and the code does not do.                     *)

(* README.md:45, "Extension is created once on the first watch snapshot": as *)
(* long as no snapshot is published, a collection finds the extension.       *)
FirstSnapshotHasExtension == pc = "collect" /\ ~snapshots => extension
=============================================================================
