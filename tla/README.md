# A verification of ybtop

ybtop watches a YugabyteDB cluster.  `ybtop watch` builds one JSON snapshot per
tick, writes it to an output directory, indexes it in `ybtop.manifest.json`,
prunes by age, and serves a browser viewer over the directory.  This project
models the parts in which something can go wrong *between* steps, checks them
with TLC, and proves the most important results with TLAPS for every value of
the constants.

Paths below are relative to `src/ybtop/` of the repository.

## 1. The system

| Component | Code | State | Operations |
|---|---|---|---|
| Watch loop | `cli.py` `run_watch` | iteration number, last document, error | tick: build, write, analyse, collect garbage, show; an exception ends the tick, never the loop |
| Node collection | `snapshot_write.py` (`_collect_nodes_parallel`, `_collect_one_node`), `topology.py`, `capabilities.py`, `queries.py`, `db.py` | cached capabilities, thread pool, futures, one connection per worker | discover, probe, create the YCQL extension, query each node in stages, consume results, leave the pool |
| Snapshot store | `snapshot_write.py` (`_atomic_write_json`, `write_*`, `gc_snapshots_and_manifest`, `read_manifest_entries`) | snapshot files, sidecars, manifest, temporary files | write and rename, append, annotate, prune |
| HTTP server | `serve.py` | none | static files, data directory |
| Viewer navigation | `web/app.js` | manifest, current index, screen, last documents, URL and session history, poll flag | boot, navigate, load, poll, deep link, Back/Forward, reload |
| Page state | `web/app.js` | section, filters, "Merge similar SQL" and what a canonical-family report holds of it, the other controls, what the panels were drawn from, session history | choose a section, follow a link or open it in a new tab, use a control, choose a window, Back, Forward, reload |
| Tooltips | `web/app.js` | two tooltips, two timers each, animation frames that wait, listeners | enter, leave, move, scroll, draw the tables again |
| Merge and delta of statements | `queries.py`, `merge.py`, `pg_stat_display.py`, twins in `web/app.js` | none of their own; the nodes' counters and two documents | list the top N, merge nodes, subtract documents, fold families, resolve links |
| ASH and tablet reports | `queries.py`, `web/app.js` | none of their own; the nodes' samples and tablets, the texts of the document | name, scope, merge, group, split over the nodes, count replicas |
| Latency modes tab | `web/app.js`, `histogram*.py` | analysed results with the rank last written into them, filters, sort order | merge and subtract histograms, search for modes, rank, filter, group, sort |
| Statistics reset | `collect.py` | none (the cluster's) | reset node by node |
| Table schemas, logging, rendering, arguments | `table_schema.py`, `log.py`, `render.py`, `config.py` | log file and its rotation | straight-line code |

How they interact: the watch loop calls the collection, then the store, then the
terminal, all in its main thread; the pool's worker threads exist only inside
the collection.  The store and the viewer share nothing but the files: the
server hands them out while the loop replaces and removes them.  In the browser
everything is one thread, but each `await` lets a poll, a click, a popstate or
another load run in between.

What is hard here, and where:

- the watcher can be killed, and each file operation can fail, between any two
  operations on the directory, while readers look at it;
- three functions read the manifest, change a copy and write it back;
- three clocks decide about a file: the second in its name, its modification
  time, and the GC's cutoff, fixed before the first unlink;
- workers finish in any order while the main thread consumes results and may
  already be raising;
- what a failing tick leaves behind (cached capabilities, first iteration,
  futures) must not keep later ticks from succeeding;
- every index of the viewer shifts when a poll brings a pruned manifest, while
  a load that captured one is waiting for its files;
- loads overlap and their answers come in any order;
- counters are cumulative, each document lists only the top N of the nodes that
  answered, and nodes are reset one by one: two documents need not be about the
  same rows, and everything shown as a delta is made of two documents;
- a report on a canonical family pins "Merge similar SQL" and holds the user's
  choice; section tabs, links, windows without the family, Back, Forward, reload
  and new tabs all leave it, and each must give the choice back once;
- a grouped ASH row is looked up again, by the text and the one id it was given,
  to be split over the nodes and to be linked, among rows that every node names
  from its own tablets;
- two rankings write into the same result objects, one before and one after the
  filters, at every change of a filter;
- a tooltip is shown by a timer and a frame that cannot be taken back and hidden
  by another timer, while the pointer is elsewhere already.

What makes each part correct is the list of properties in section 3; PROJECT.json
lists each hazard at its line with the properties that watch it.

## 2. The modules

| Module | Models | Kind |
|---|---|---|
| `SnapshotArchive` | what the output directory promises to a reader | abstract specification |
| `SnapshotStore` | the directory, one file operation per step | detailed, implements `SnapshotArchive` |
| `SnapshotStoreProofs` | safety theorems of `SnapshotStore`, and that it implements `SnapshotArchive` | proofs |
| `SnapshotBuild` | the watch loop, the collection and its thread pool | detailed |
| `SnapshotBuildProofs` | theorems about it | proofs |
| `Viewer` | navigation of the browser viewer | detailed |
| `ViewerProofs` | theorems about it | proofs |
| `Page` | the state of the page that a URL carries | detailed |
| `PageProofs` | theorems about it and about `Tooltips` | proofs |
| `Tooltips` | the timers and frames of the two tooltips | detailed |
| `Statements` | statement counters from the nodes to the tables | detailed, with Python and JavaScript twins |
| `SumTheorems` | arithmetic of sums over finite sets | lemmas |
| `StatementsProofs` | theorems about `Statements` | proofs |
| `Ash` | session samples and tablets from the nodes to the reports; extends `Statements` for the texts | detailed |
| `AshProofs` | theorems about it | proofs |
| `Latency` | histograms, search for modes, ranks and filters; extends `Statements` for the calls | detailed |
| `LatencyProofs` | theorems about it | proofs |
| `MC*` | values of the constants for TLC | model checking |

### SnapshotStore

State: the two families of files as functions from the second in their name to
`[doc, mtime]` (`Absent` for no file), the manifest as a set of entries, the
number of temporary files, the wall clock, and the watcher: the operation it is
about to perform (`pc`), and its locals (`buf`, the manifest copy; `cutoff`;
`todo`, the files to unlink; `mtime`, when the temporary file was written).  A
document is its number.  The list order of the manifest is the order of the
documents, because entries are only appended, so a set loses nothing.

One tick is `Build`, `WriteSnapshot`, `ReplaceSnapshot`, `AppendEntry`,
`WriteManifest`, `Publish`; then `SkipAnalysis`, or `Analyse`, `WriteSidecar`,
`ReplaceSidecar`, `AnnotateEntries`, `WriteManifest`, `PublishSidecar`; then
`StartGC`, `UnlinkOld`..., `UnlinkDone`, `FilterEntries`, `WriteManifest`,
`PublishKept`.  `TmpWrite` is `mkstemp` and the write, `TmpRenamed` is
`os.replace`.  `WriteFails` is an exception out of `_atomic_write_json`: the
temporary file is removed if that works; the sidecar's failure is swallowed by
`_maybe_write_latency_analysis` and the GC still runs, any other one ends the
tick.  `Crash` may happen anywhere in a tick; a new watcher starts with the
directory as it is.  `Faults` chooses which operations may fail.  A manifest that
cannot be read is taken for an empty one by the writers and left alone by the GC.

Abstractions: the content of a snapshot; compression; that the directory is
listed in one step after the cutoff is fixed (nobody else writes to it); the age
of the files found, not their names, decides in which order they go only as far
as snapshots come before sidecars, as in the code.

`SnapshotArchive` is the promise: documents become readable, then listed, then
annotated, and only expired ones leave, in any order.  The mapping is
`Listed`, `Readable`, `Analysed` in `SnapshotStore`.

### SnapshotBuild

State: the main thread's place (`pc`), `first` (iteration 1), the cached
capabilities, the discovered nodes, each node's task (queued, one of five
stages, done, failed), which results have been consumed, whether an exception is
propagating, and what the terminal shows.  The cluster is external: nodes stop
and start answering (`Flap`), `yb_servers()` may list other nodes each time, and
the disk may fill up and be cleaned.

`StartNode`, `NodeStep` and `NodeFails` are the workers; `ConsumeResult`,
`ConsumeError`, `ExitPool` and `Collected` are `as_completed`, `fut.result()` and
the pool's `__exit__`, which waits for all workers before the exception leaves.
With one worker the code uses no pool: nodes are queried in the main thread one
by one and a failure leaves the rest alone (the guards about `Workers = 1`).

### Viewer

A snapshot file is a number, and the manifest the interval `lo..hi` of files it
lists: the watcher appends at the end and the GC prunes at the front, so index
`i` is file `lo + i` and pruning shifts all indices.  `StartLoad` is
`showSnapshotAt` up to its `await`; a call that waits is a record in `loads`
with the index and the files it captured; `LoadDone` and `LoadFails` are its
continuation, in any order.  `StartPoll`, `PollDone`, `PollFails` are
`refreshManifest`.  `history` is the session history, reduced to the `t`
parameter of each URL.  A file the GC removed before the request cannot arrive;
one removed afterwards may or may not.

Abstractions: sections, filters and controls (they are `Page`'s) and all
rendering; deep links differ only in their history entry.  The server is the manifest it would
send; a response is what the server had at the time the answer is processed.

### Statements

State: the counters on the nodes (external), the two latest documents (what each
discovered node listed), and ghosts that say what really ran between them, which
statements one of them misses somewhere (`unlisted`) and which lost calls between
them (`lossy`).  `Execute` is a client, whose call takes any of the times that
`Measured` allows, `Reset`
is `reset-pg-stat` with any set of nodes that answered, or the restart of one,
`Snapshot` collects the top rows of any set of discovered nodes.  What the
screens show is a set of operators on the two documents, named after the
functions: `mergeStatements`, `deltaPgStatMergedRows`,
`collapseStatementsByTemplate`, `resolveCanonicalStatementFamily`, the chart's
`deltaCalls`, and the watcher's `merge_pg_stat_statements` and
`delta_pg_stat_merged_rows`.

Abstractions: a row is its queryid and dbname with a count of calls, the time that
was measured for them, in thousandths of a millisecond so that rounding matters,
and its histogram, which has each call in one bucket.  Equal calls need not mean
equal time: after a reset a statement may come back to its old count with another
time and other buckets.  The other additive columns (rows, DocDB metrics) are summed
and subtracted as the time is, and left out; a row that has only gained in those is kept by the
code (`app.js:1111`, `pg_stat_display.py:124`).  A time is a whole number: Python
rounds its ties to even (`RoundedToEven`), JavaScript up (`Rounded`).  A query's text
is its normalized template.  Before the first delta the older document is the empty one: cumulative
values.  Percentages and rates are left out.

### Page

`view` is the record of the page's variables: section, filters, `merge` and
`held` (`mergeSimilarSqlSavedForFamily`, the empty set for null), the other
controls, `resolved` (`canonicalFamilyResolved`).  `drawn` is the `view` that the
panels on the screen were made from.  A URL is a record; `entries` is the session
history and `at` the position in it.  `Rendered` is what `renderDoc` makes of a
state: resolve the family in the document, pin or release Merge
(`syncMergeSimilarSqlForFamilyScope`), leave the Latency tab if the document has
no histograms, choose the section; every handler that draws goes through it and
then writes the URL.  `SetViewerSection` draws again only where the code does:
when leaving the ASH section cleared filters.  `Navigate` pushes an entry,
`OpenInNewTab` and `Reload` start from `Fresh`, `PopState` reads an entry into the
page as it is.  `LoadDone` and `LoadFails` are the end of a load.

Abstractions: the manifest does not change (`Viewer` models that it does), and
all loads of one window are one; the `dbname` parameter of a family link is left
out; the documents differ in the ids they know and in having histograms.

### Tooltips

`over` is what the pointer is on, `tip` what each tooltip shows, `showTimer` and
`hideTimer` the timers, `frames` the animation frames that wait, `followers` the
`mousemove` listeners that node names have left on the document.  `Rerender`
replaces the tables: what the pointer was on is gone and no `mouseleave` comes;
`Observe` is the resize observer, which wires new query cells and finds that
removed ones are not truncated.  Delays are not modelled: timers that run at the
same time go off in any order.  `MCPage` runs it beside `Page` on a page that
nobody has clicked on: what a click does to the tooltips is `Rerender`.

### Ash

State (all external): `sampled`, samples per node and kind of session, and
`hosted`, which replicas a node has and in which state.  Everything else is
operators named after the functions.  `AshRow` is the query on the node, which
names a table only from a tablet the node itself hosts, so one kind of session
has a name on one node and none on another.  A row of a report is `Group`, with
the id of its heaviest member (`Representative`), and the split over the nodes is
found by applying the report's key to the grouped row again, as in
`attachAshNodeLoadDistribution`.

Abstractions: `table_id` and table name are one value, as are `wait_event` and its
type; the canonical form of a canonical text is that text; every split is shown,
not those of five nodes; rates, percentages and the Top 50 slices are left out.

### Latency

`histogram` is one free histogram, for the search alone; `results`, `ranks` (the
rank last written into each result), the filters, `table`, `recurring` and `sort` are
the tab.  A statement's histogram is part of its row in `Statements`, summed and
subtracted bucket by bucket; after a reset one bucket may shrink while another grows.
`gaussianFilter1d`, `peakProminence`, `findPeaks`, `ValidPairs` and
`detectModesJS` are the browser's detector on whole numbers: midpoints are whole
units of a logarithmic scale, the weights of the kernel are in thousandths.
`rankByConfidence` writes ranks into the results and is called twice by
`Rerender`, as in the code: among all for the groups, then among the visible rows.
What the code sorts is `InOrder` of a set and a relation.  The sidecar that the
watcher may have written is any one from a set, whose members have a row per
statement, with a known tier (`SidecarsAssumption`).  `LatencySpec` lets all
this happen in any order beside the steps of `Statements`; `MCReports` explores a part.

Abstractions: the bimodality coefficient, a float, is a parameter; the dip test
and the false discovery rate are in the sidecar only, as given.

`MCReports` composes the three: it fixes which documents are looked at with
samples and which in the Latency tab, so that the product stays small (each looks
at the counters, none changes them).

## 3. What is checked

Passing runs:

| Run | Question | Bounds |
|---|---|---|
| `store_safety` | Is every unexpired entry readable (`ListedReadable`), is nothing unexpired lost by a read-modify-write (`LosesOnlyExpired`), does the directory implement the archive (`ArchiveSpec`)? | 3 documents, one per second, seconds 0..3, retention 1, one crash, failing writes and unlinks |
| `store_faults` | Are entries left without files (`NoFreshLoss`), is the GC exact (`GcExact`), do temporary files pile up (`TmpsAccounted`)? | 2 documents that may share a second, seconds 0..4, retention 1, one crash, failing writes and reads |
| `build` | Is a document complete (`CompleteDocument`), the pool bounded and no worker left behind (`PoolConfined`), the terminal honest (`TablesMeanWritten`); does every tick end (`TickEnds`) and the loop recover (`Recovers`)? | 3 nodes, `--node-parallelism` 0 and 2 |
| `viewer_overlap` | Overlapping loads, deep links, Back and Forward: is a delta between neighbours (`DeltaIsConsecutive`), does the URL pin the current window (`UrlPinsCurrent`), does a poll keep it (`PollKeepsWindow`)? | 3 files, history of 2, pruning |
| `viewer_patient` | A user who waits and does not go back, while windows are added and pruned and fetches fail: is the shown window the current one (`ShownIsCurrent`), does loading end (`LoadingEnds`), does polling catch up (`CatchesUp`)? | 4 files, none or 2 at first |
| `statements` | Where the documents suffice, is a delta what was executed (`DeltaIsTruth`)? Do families (`GroupedAsUngrouped`), the chart (`ChartAgrees`), the terminal (`TerminalAgrees`), links (`LinkLeadsHome`) and the distribution over nodes (`DistributionAddsUp`) agree with the table? | 2 nodes, 3 statements of one shape, two measured times for one of them, top 2, 2 documents, 2 calls before each, one reset |
| (same run, `MCReports`) | Does every breakdown of the ASH panel count every sample once, in its rows and in their split, and do the tablet reports agree (`ReportsAddUp`)? Does a link to a row's family find all its samples (`FamilyCoversRow`)? | 6 kinds of session, 2 samples, 2 tablet moves, on documents of at most 2 calls |
| (same run) | Is the tab's histogram what was executed, and after a reset no more than that in any bucket (`DeltaHistogramIsTruth`), are its modes modes (`ModesAreModes`)? Do filters only choose among templates (`FiltersKeepTemplates`)? | 6 finite buckets of at most 2 calls and an open one; 4 statements of 2 shapes with every combination of 4 verdicts; all filters |
| `page` | Is Merge pinned exactly by a family (`MergePinnedOnlyByFamily`), are the controls changed by nothing else (`ControlsKept`), kept by reload (`ReloadKeeps`), true on the screen (`ScreenShowsControls`); does a new tab show what a click shows (`LinkAsClick`)? Is the tooltip of what is pointed at the last of its kind to be drawn, with no timer left to hide it (`PointedIsDrawnLast`), and does it come and stay (`PointedIsShown`)? | 2 windows, 2 ids, 4 opening links, 3 history entries, 5 clicks; 2 node names, 2 queries, 6 events, 2 waiting frames |

Why the bounds are enough.  Store: with retention 1, a document made in second 0
expires while a later one is being written and a third does not, so all relations
of two files to a cutoff occur; one crash and one more tick are what it takes to
leave something behind and meet it again (and the theorems below hold without
bounds).  Build: three nodes and two workers are the least with a queue, a
running worker and a finished one at once; parallelism 0 is the boundary that
`max(1, ...)` is for and takes the sequential path.  Viewer: three files are the
least with a previous and a next window and one that a poll can add or prune; a
history of two has an entry to go back from and to go forward to; with four files
the indices can shift twice under one load.  Longer histories, and Back and Forward of a
user who waits, are left to the theorems, which have no bounds.  Statements: a
delta is made of two documents, each of which may follow any history of up to
two calls, so that the lists of two overflow in the second, nodes disagree about what
they list, and a statement can enter, leave or be reset between them.  Calls of 4 and
of 8 thousandths of a millisecond are the least with which a reset can bring a
statement back to its count with a time that rounds to another hundredth although
the difference rounds to none, and with another bucket; 15 and 5 are ties.  The nodes are
interchangeable, and are declared symmetric (no temporal property is checked).
ASH: two samples make a group of two kinds or a row of two nodes, which is what
keys and representatives are about; two moves give both nodes a name, or one of
them a replica that is not ready.  Latency: with six buckets of 0 to 2 there are
two peaks with room for a valley, equal and adjacent peaks, gaps, and both ends;
four statements of two shapes are the least for which a filter can hide a
template's best member and keep another.  Page: two windows, one of which does
not resolve one of the two ids and has no histograms, are all relations of a
family to a document; the longest way that matters is Merge, family link, leave,
Back, Forward, which is five clicks; the theorems hold without bounds.  Tooltips:
six events are enough to leave one anchor, enter the other kind, come back, and
draw the tables again in between.

Runs that find what a document says and the code does not do:

| Run | Statement | What the run shows |
|---|---|---|
| `build_first_extension` | "Extension is created once on the first watch snapshot" (README.md:45) | a first tick that fails early leaves every later one without the extension |
| `viewer_out_of_order` | "the bar for the current window is highlighted" (CHANGELOG.md:36) | of two overlapping loads the last answer wins the screen |
| `viewer_yank` | "a new arrival does not yank them to the newest" (CHANGELOG.md:38) | after the current snapshot is pruned, a second poll makes the newest current without loading it |
| `viewer_first` | "re-fetches ybtop.manifest.json every 30 s" (CHANGELOG.md:38) | a page opened before the first snapshot never polls |
| `statements_grouped` | "delta arithmetic behave as they do ungrouped" (README.md:84) | a member that leaves the document is taken off its family, but has no row of its own |

Noticed while modelling, without a run of their own: two documents generated
within one second share a file name and the second replaces the first
(`snapshot_write.py:492`); a manifest that cannot be read is taken for empty and
written back with the new entry only (`snapshot_write.py:530`); a GC that fails
makes the terminal say that no snapshot was written although it was
(`cli.py:178`); after a load has failed, Back may render the previous document
under the failed window (`app.js:6242`); First and Prev do nothing on the page of
a snapshot that was not found (`app.js:6131`); a poll that shifts indices during
a load leaves a stale number in the window box (`app.js:6086`).  "GC prunes the
two together" (`snapshot_write.py:568`, also README.md:64), but each file is judged
by its own modification time (`snapshot_write.py:631`): a cutoff between the two
leaves the sidecar for another tick.

Page: Back and Forward while a preference is held bring back that preference,
not the one of the entry (`app.js:321`), so Merge on, a family link, a table link,
Merge off, Back, Forward leaves Merge on, although CHANGELOG.md:9 says that
leaving a family report never does; `ControlsKept` says so of the other
ways, and of Back and Forward where nothing is held.  Tooltips: the other
direction of `PointedIsShown` does not hold: leaving an anchor between its timer
and its frame and entering one of the other kind leaves a tooltip that nothing
hides until it is entered or scrolled away; a node name that is drawn
again under the pointer leaves its tooltip and its `mousemove` listener behind.

Reports: a row of the ASH panel whose shape occurs in several databases is linked
to the family in one of them (hence the condition of `FamilyCoversRow`); the groups of
`groupByTemplate` span databases where the families of the statements do not; the
representative id, "the heaviest member for that bucket" (README.md:86), is that of
the heaviest row of one id *and one wait event* (`app.js:2216`), so an id whose
samples are spread over several events may lose to a lighter one.
`findPeaks` of the browser removes small peaks before close ones, and takes a
plateau's left end, where `scipy` (`histogram_detect.py:203`) removes close ones
first and takes the middle: the "browser port" (`app.js:3727`) may find other
peaks than the watcher.  The terminal's delta, "same as web/app.js
deltaPgStatMergedRows" (`pg_stat_display.py:74`), subtracts what `merge.py:131` has
rounded.  If as many calls of a statement were lost in a reset as were executed
since, and took a little longer, it shows a row (10.01 - 10.00 = 0.01) that the
viewer, which rounds the difference, drops (10.008 - 10.004 is 0.00).  Hence
`TerminalAgrees` allows a hundredth of a millisecond, counts a missing row as zeros,
and promises the same rows only where the documents suffice; TLC refutes the equality of
all rows within the bounds of the run.  The sums are exact in the model: a
float sum that lies within its error of a tie may round the other way.

A statement that enters the list shows all its history as one window
(`app.js:1076`): cumulative counters of the top N cannot tell otherwise, and
`DeltaIsTruth` says where they can.  The link of a family without a database may
lead to the same shape in another one (`app.js:4183`).

Fairness.  `SnapshotBuild`: the main thread and each worker keep running (weak
fairness of `MainThread` and of each `PoolThread(n)`), which is what the operating
system gives them, provided that every database call returns or raises: ybtop
sets no timeouts (`db.py:28`), so a node that accepts and never answers would
hold a tick for ever, and that is outside the model.  No fairness on the cluster.
`Recovers` assumes a cluster that is up for good.  `Viewer`: the browser answers
or fails each fetch, and the poll timer goes off again and again (weak fairness);
`SF_vars(PollDone)` says that a poll that is tried again and again is not lost
every time.  Nothing is assumed of users and of the watcher.  `Tooltips`: timers
that are due, frames and observers run (weak fairness of each), which is what a
browser does with a visible page; nothing is assumed of the pointer.

Deadlock is checked for `SnapshotBuild`.  The others stop where their bounds
(`MaxClock`, `MaxDocs`, `MaxFile`, `MaxHistory`, `MaxClicks`, `MaxEvents`,
`MaxSamples`, `MaxMoves`, `MaxPerBucket`) end, so it is off.

## 4. What is proved

`SnapshotStoreProofs` (for all `MaxClock`, `MaxDocs`, `MaxCrashes`, `Retention`,
`SameSecond` and `Faults` that satisfy `StoreAssumption`):

| Theorem | Property | Further assumption |
|---|---|---|
| `TypeCorrect` | `TypeOK` | |
| `NothingFreshLost` | `NoFreshLoss` | |
| `TmpsBounded` | `TmpsAccounted` | |
| `EntriesKept` | `LosesOnlyExpired` | the manifest can be read |
| `ManifestReadable` | `ListedReadable` | no two documents share a second |
| `GcIsExact` | `GcExact` | |
| `ImplementsArchive` | `ArchiveSpec` | both of the above |

The argument.  None of these invariants is inductive alone.  The core is `Inv`,
four parts with one lemma each for a step:

- `TypeInv`: types, and that a tick under way has a document and, when it is
  about to rename, a temporary file;
- `Aged`: a file is not older than the second it is named after.  The GC judges
  by modification time and the reader by name; this is what relates the two;
- `DoomedExpired`: the cutoff plus the retention is not in the future, and all
  that is still to be unlinked lies before the cutoff.  With `Aged` it follows
  that whatever the GC removes has expired, however late it comes to it;
- `FilesFirst`: the files of every entry, of the manifest *and of the copy the
  watcher holds*, are there or expired.  Without the copy it would not survive
  `Publish`.

To these `EntriesKept` adds `CopyKeeps` (the copy that is about to replace the
manifest covers it), `ManifestReadable` adds `OneDocPerSecond` (what is named
after the tick's second belongs to the tick's document), `GcIsExact` adds
`Sweeping` (what is too old is still on the list), and `ImplementsArchive` adds
`OlderFirst` and `CopyIs` (what exactly the copy is).  The refinement is one lemma
per operation that a reader can see: `StoreSimulated`, `PublishSimulated`,
`AnnotateSimulated`, `RemoveSimulated`, `PruneSimulated`; the rest stutters.

`SnapshotBuildProofs` (for all `Node`, `Seed` and `Parallelisms` that satisfy
`BuildAssumption`: any finite number of nodes, any `--node-parallelism`):

| Theorem | Property |
|---|---|
| `TypeCorrect` | `TypeOK` |
| `AllOrNothing` | `CompleteDocument` |
| `TerminalHonest` | `TablesMeanWritten` |
| `PoolStaysConfined` | `PoolConfined` |

The inductive part is `Collection`: nothing is pending before the fan-out and
after the end of the tick; during and after it exactly the discovered nodes have
a task; what the main thread has consumed is done; and from `tables` on it has
consumed all of them.  `CompleteDocument` and `NoStragglers` are two readings of
it.  `PoolConfined` is `NoStragglers` and `PoolBounded`; the latter needs the
cardinality of the running nodes: one step adds one node (`StartNodeBounded`),
every other step only removes some (`FewerRunning`).

`PageProofs` (for all constants that satisfy `PageAssumption`: any windows, ids,
documents, opening links and length of the history; `Spec` of `Page`, which is
without the tooltips; and `TooltipsSpec`, for all constants that satisfy
`TooltipsAssumption`):

| Theorem | Property |
|---|---|
| `TypeCorrect` | `TypeOK` |
| `PinnedByFamily` | `MergePinnedOnlyByFamily` |
| `ControlsStay` | `ControlsKept` |
| `AddressLeadsBack` | `ReloadKeeps` |
| `ScreenTrue` | `ScreenShowsControls` |
| `LinkLeadsWhereClickDoes` | `LinkAsClick` |
| `PointedDrawnLast` | `PointedIsDrawnLast` |

Two facts carry the argument.  The preference as it would be written into a URL
(`mergeSimilarSqlForUrl`: the held one if there is one) does not change when Merge is
pinned or released (`SyncKeepsPreference`), and so not by `Rendered` at all
(`RenderedKeeps`).  And two states that agree on filters and preferences look the
same once rendered, whatever they held before (`RenderedSame`).  From the first
follow `ControlsStay` and that every entry of the history was written with the
preferences of the page (`UrlOfType`); from the second that a URL, which carries
nothing else, leads back to the page (`AddressLeadsBack`) and a link to what a
click shows (`LinkLeadsWhereClickDoes`).  The inductive invariant `Inv` is
`HistoryOK` (entries were written by the page), `StateOK` (a filter only in
the ASH section, Merge pinned exactly by the family), `ScreenOK` (what is drawn
looks like the state, and what is shown was resolved in the shown document) and
`LoadsOK`; one lemma per action preserves it.

For the tooltips the property is not inductive by itself: a timer that goes off
appends a frame, which must be for what the pointer is on.  `TimersOfPointed` says
that while the pointer is on something, the only timer that will show anything
shows that (other things lost theirs when they were left, scrolled or entered
from), that the newest `mousemove` listener is that of the node name pointed at, so
that `Move` writes no other text, and that the query cell pointed at is wired, so
that `Observe`, which hides the tooltip of cells it wires, does not run then.
`FrameKeeps` is the step with work in it: the first frame is drawn, and either a
later frame of the kind remains last or the one drawn was the last
itself.  `PointedIsShown` adds that timers and frames run, for TLC.

`ViewerProofs` (for all `MaxFile`, `InitialFiles` and `MaxHistory` that satisfy
`ViewerAssumption`, with or without overlap, failing fetches and pruning):

| Theorem | Property | Further assumption |
|---|---|---|
| `TypeCorrect` | `TypeOK` | |
| `DeltasAreConsecutive` | `DeltaIsConsecutive` | |
| `UrlIsCurrent` | `UrlPinsCurrent` | |
| `WindowKept` | `PollKeepsWindow` | |
| `ShownIfPatient` | `ShownIsCurrent` | `Patient`: no overlap, and either nothing fails and nothing is pruned, or the history has one entry |

The first four share one inductive invariant `Inv`.  `Bounds` says that the page's
manifest is one that the server had, so that a window missing from a newer one has
been pruned and is before its first.  `Pins` says more than `UrlPinsCurrent`: a pinned
window that is not the current one is *before* the manifest's first, so no later
poll lists it again.  To keep it over Back and Forward, which may land on any URL of
the session, `HistoryKnown` says that no URL names a window newer than the page
knows (a page opened with a URL it does not know has one entry only).  `Consecutive` is
`DeltaIsConsecutive` of the screen and of every answer still awaited.  `WindowKept`
follows from what a poll does under `Inv` (`PollDoneFacts`).  `ShownIfPatient` needs a
second invariant, `Waits`: there is at most one load, and the current window is the one
that is awaited or was rendered last, or that one is before the manifest's first
(`Follows`).

`SumTheorems` has no state.  Calls, times and samples are added over nodes,
statements and rows in every table, so nearly every property of the reports says
that two sums are equal.  The module proves, for `SumFunction` of the community
modules, that its recursive definition defines a function (`UnrollingExists`,
`UnrollingsAgree`), that a sum does not depend on the order of its terms
(`SumRemove`), and from it the arithmetic that reports live on: `SumPlus`,
`SumMinus`, `SumSplit`, `SumSwap` (by rows or by columns), `SumPartition` (by
group), `SumRename`, `SumMonotone`.  An induction scheme takes an operator and is out of
the provers' reach, so induction is by a minimal counterexample: the subsets for
which the claim fails are a set, and `MinimalSubset` finds a minimal one.

`StatementsProofs` (for any finite sets of nodes and statements, any measured
times, limit and bounds that satisfy `StatementsAssumption`: id and database identify a
statement, and one id has one text):

| Theorem | Property |
|---|---|
| `TypeCorrect` | `TypeOK` |
| `DeltasAreTruth` | `DeltaIsTruth` |
| `FamiliesAgree` | `GroupedAsUngrouped` |
| `ChartsAgree` | `ChartAgrees` |
| `TerminalsAgree` | `TerminalAgrees` |
| `LinksLeadHome` | `LinkLeadsHome` |
| `DistributionsAddUp` | `DistributionAddsUp` |

`DeltaIsTruth` is about history and needs an inductive invariant, `IInv`
(`IInvHolds`), which speaks of every additive column of a row, that is of its calls,
its time and each bucket of its histogram: `Bounded`, that no node has counted more
than was executed, which is what keeps the ghosts finite; `RanSinceDocument`, that for
a statement that the latest document has in full the counters of the nodes are at
most the document plus what ran since, and exactly that if no node forgot it since;
and `RanBetweenDocuments`, which is the same of two documents and becomes true of the
next ones when `Snapshot` makes a new document.  What a reset takes away can only
make a delta less (`GainedIsRan`), in time as in calls.
The others say how screens agree with each other, and hold of any two
documents of the right type, reachable or not: each is a chain of sums that are
regrouped (by family, by node) and of differences that are clamped or rounded.  Only
the last part of `TerminalAgrees`, that both show the same rows where the documents
suffice, needs history: there a statement without calls has taken no time
(`EmptyRow`), so that neither screen has a row for it.  The rest of it holds
of any times: rounding before and after a subtraction differs by at most one
hundredth, whichever way a tie goes (`RoundedDifference`).
A family is rounded once and its members one by one, hence the tolerance of
`GroupedAsUngrouped`, which `RoundedSum` proves by induction.

`AshProofs` (for any finite sets of sessions and tablets and any texts that
satisfy `AshAssumption`; `AshSpec` is all that can happen to nodes, samples and
documents in any order, of which `MCReports` explores a part):

| Theorem | Property |
|---|---|
| `ReportsAgree` | `ReportsAddUp` |
| `FamiliesCoverRows` | `FamilyCoversRow` |

The notion behind it is `Consolidates`: a report's rows stand for groups of the
rows that it was made of, every row in exactly one group, with the group's samples.
Consolidating again by a key that the first one decides is consolidating once
(`ConsolidatesThrough`), and a consolidation adds up and is split over nodes without
loss (`ConsolidatedAddsUp`).  Then each function of the panel is shown to consolidate by
its key, and the delicate part is one fact per report: that a row which stands
for a group, with the id of its heaviest member and the group's canonical text, has
the same key as the members have (`GroupRow`), since it is that row, and not the
members, that the code looks up again.  This is where the assumptions on texts are
used: the canonical form of a canonical text is that text, and labels of
background work are no SQL.  A comment that is worded like a label or like a
canonical text could break it and is excluded by `AshAssumption`.

`LatencyProofs` (for any buckets, midpoints, kernel, thresholds and sidecars that
satisfy `LatencyAssumption` and `SidecarsAssumption`; the last two theorems are
about `LatencySpec`):

| Theorem | Property | Further assumption |
|---|---|---|
| `HistogramsAreTruth` | `DeltaHistogramIsTruth` | |
| `FlaggedHasModes` | `ModesAreModes` | |
| `FiltersChooseTemplates` | `FiltersKeepTemplates` | `BcIsNumber`: the bimodality coefficient of a histogram is a number |

`HistogramsAreTruth` rests on `IInv` alone, of which every bucket is a column: where no
node forgot the statement a bucket of the later document less that of the earlier is
what was executed in it, so that the clamp does nothing; where one did it is at most
that, and the clamp makes of what is below zero a zero.  Clamping bucket by
bucket can only raise a sum, so that the histogram has no fewer calls than the row of the
table, whatever was reset (its third part, for which no history is needed).

`FlaggedHasModes` needs no more of the state than that the histogram is one
(`HistogramInv`); the rest is about the detector.  Smoothing: what is
reflected at both ends repeats itself after twice its length and reads the same from
either side (`ReflectedOf`), so that what a weight of the kernel meets to the left
and what it meets to the right are one period, which has every value twice
(`PeriodIsTwice`), however far the kernel reaches; exchanging the sums over buckets
and over weights gives `SmoothingKeeps`.  Peaks: `SpacedIsSpaced` is an induction over
the candidates, tallest first, which says that what is not kept is close to one that
came before it, hence at least as high (`PeaksSpaced`).  Valleys: a pair's lowest row
lies strictly between its two modes, because it is a quarter lower
(`PairHasValley`), and a hill has no such place (`HillHasNoValley`).  A finer claim,
that every two modes are detected, is not made: the detector has thresholds.

`FiltersChooseTemplates` rests on `InOrderSorts`: whatever a strict total order sorts,
each element comes in the place that the number of those before it says.  So a rank is
a place (`RankIsPlace`), the ranks that an earlier filter left behind are all
overwritten before the groups are made (`RanksOfAll`), and groups are in a total
order since their best members have different ranks (`GroupsSorted`).  The
inductive invariant `TemplatesInv` says that the results have one row per id and
that what is shown is *some* set of visible results and the groups of those;
`ContainsVisible` turns ids on the screen into texts of results.  For the browser's
own analysis it must be shown that it gives such results at all
(`AnalysesAreResults`), from the types of the documents in `IInv`.  TLC cannot
enumerate what `BcIsNumber` quantifies over; it holds in the code, where what has no
coefficient counts as zero.

Only model-checked: the liveness properties (`TickEnds`, `Recovers`, `LoadingEnds`,
`CatchesUp`, `PointedIsShown`), which TLAPS cannot prove, and the runs that expect a
violation.

## 5. What is not modelled

- In the browser: sorting and paging of tables, collapsing sections, the chart's
  drawing, banners, sums by node and by cloud, region and zone, the YCQL table
  (a second instance of the statement table), rates and percentages: what they
  keep is gone with the next `renderDoc`.
- SQL texts and their canonicalization, log lines and their rotation, terminal
  rendering, argument parsing: straight-line code.
- Floating point: bimodality coefficient, dip test, false discovery rate
  (`histogram_detect.py`), and with them the Python side of the histograms, whose
  result is any sidecar in `Latency`.
- The HTTP server: it keeps no state, reads each file whole between two steps of
  the store (`is_file`, then `read_bytes`) and forbids caching, so what a client
  gets is what `SnapshotStore`'s readers see, or an error, which is `Viewer`'s
  failing fetch.
- Two watchers on one directory: the documentation supports one.
- A cluster upgrade under cached capabilities (`capabilities.py:40`), and a node
  that never answers (`db.py:28`).

## 6. Plan

Done, most important first: the store with its abstraction and proofs, the
collection and its proofs, the viewer's navigation and its proofs, the statement
counters, the page state and its proofs, the reports on sessions, tablets and latencies, the
tooltips.  What is left would be:

1. The Python twins of the ASH merge (`merge.py`) and of the histogram merge and
   delta (`histogram.py`) beside the browser's.
2. Sorted and paged tables: page and sort order across changes of the rows.
3. `Page` on a manifest that grows and is pruned, that is `Viewer` and `Page` in
   one.
