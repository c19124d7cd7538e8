--------------------------- MODULE SnapshotStore ---------------------------
(* The output directory of `ybtop watch`: snapshot files, analysis sidecars  *)
(* and ybtop.manifest.json, written by one watcher process.  Each action is  *)
(* one operation on the file system (or one tick of the clock), so that a    *)
(* crash, a failed write or a reader can fall between any two of them.       *)
(*                                                                           *)
(* Time is in whole seconds, the resolution of a snapshot's file name.  A    *)
(* file is [doc, mtime]: which document it holds and when it was written;    *)
(* Absent stands for no file.  The manifest is a set of entries whose list   *)
(* order is the order of their documents, since entries are only appended.   *)
EXTENDS Integers, FiniteSets

CONSTANTS
  MaxClock,      \* bound: last second of a run
  MaxDocs,       \* bound: number of documents built
  MaxCrashes,    \* bound: number of times the watcher is killed and restarted
  Retention,     \* --snapshot-retention-hours, in seconds; 0 disables GC
  SameSecond,    \* may two documents be generated within one second?
  Faults         \* which operations may fail: "write", "read", "unlink"

ASSUME StoreAssumption ==
  /\ MaxClock \in Nat
  /\ MaxDocs \in Nat \ {0}
  /\ MaxCrashes \in Nat
  /\ Retention \in Nat
  /\ SameSecond \in BOOLEAN
  /\ Faults \subseteq {"write", "read", "unlink"}

VARIABLES
  clock,         \* wall clock
  snap,          \* ybtop.out.<second>.json
  side,          \* ybtop.latency.<second>.json
  manifest,      \* the entries of ybtop.manifest.json
  tmps,          \* number of <name>.*.tmp files in the directory
  docs,          \* number of documents built so far: the newest one's number
  gen,           \* second in which the newest document was generated
  pc,            \* next operation of the watcher; "idle" between two ticks
  mtime,         \* modification time of the temporary file being renamed
  buf,           \* manifest entries the watcher holds in memory
  cutoff,        \* the GC's cutoff
  todo,          \* files the GC has still to unlink: [kind, file]
  crashes        \* number of crashes so far

disk == <<snap, side, manifest, tmps>>
proc == <<pc, mtime, buf, cutoff, todo>>
vars == <<clock, disk, docs, gen, proc, crashes>>

Second == 0..MaxClock
Doc    == 1..MaxDocs
File   == [doc: 0..MaxDocs, mtime: -1..MaxClock]
Absent == [doc |-> 0, mtime |-> -1]
Entry  == [doc: Doc, file: Second, side: BOOLEAN]

Labels == {"idle",
           "snapWrite", "snapReplace", "append", "appendWrite", "appendReplace",
           "analyse", "sideWrite", "sideReplace",
           "annotate", "annotateWrite", "annotateReplace",
           "gcStart", "gcUnlink", "gcRead", "gcWrite", "gcReplace"}

TypeOK ==
  /\ clock \in Second
  /\ snap \in [Second -> File]
  /\ side \in [Second -> File]
  /\ manifest \subseteq Entry
  /\ tmps \in Nat
  /\ docs \in 0..MaxDocs
  /\ gen \in Second
  /\ pc \in Labels
  /\ mtime \in Second
  /\ buf \subseteq Entry
  /\ cutoff \in Int
  /\ todo \subseteq [kind: {"snap", "side"}, file: Second]
  /\ crashes \in 0..MaxCrashes

Exists(dir, second) == dir[second].doc # 0

Expired(second) == Retention > 0 /\ second + Retention < clock

(* Entries of the manifest as a reader gets them: a manifest that cannot be  *)
(* read or parsed is taken for an empty one.                                 *)
ReadEntries == {manifest} \cup (IF "read" \in Faults THEN {{}} ELSE {})

-----------------------------------------------------------------------------
Init ==
  /\ clock = 0
  /\ snap = [s \in Second |-> Absent]
  /\ side = [s \in Second |-> Absent]
  /\ manifest = {}
  /\ tmps = 0
  /\ docs = 0
  /\ gen = 0
  /\ pc = "idle"
  /\ mtime = 0
  /\ buf = {}
  /\ cutoff = 0
  /\ todo = {}
  /\ crashes = 0

Tick ==
  /\ clock < MaxClock
  /\ clock' = clock + 1
  /\ UNCHANGED <<disk, docs, gen, proc, crashes>>

(* The tick, or the process, is over: the locals of its functions are gone.  *)
Forget ==
  /\ pc' = "idle"
  /\ mtime' = 0
  /\ buf' = {}
  /\ cutoff' = 0
  /\ todo' = {}

-----------------------------------------------------------------------------
(* Atomic replacement of a file: mkstemp and write, then os.replace.  A       *)
(* failure removes the temporary file and raises.                            *)

TmpWrite(from, to) ==
  /\ pc = from
  /\ pc' = to
  /\ tmps' = tmps + 1
  /\ mtime' = clock
  /\ UNCHANGED <<clock, snap, side, manifest, docs, gen, buf, cutoff, todo, crashes>>

TmpRenamed(from, to) ==
  /\ pc = from
  /\ pc' = to
  /\ tmps' = tmps - 1
  /\ mtime' = 0
  /\ UNCHANGED <<clock, docs, gen, crashes>>

RemoveTmp_Leak == tmps' = tmps

(* An OSError of that removal is ignored.                                    *)
RemoveTmp == tmps' = tmps - 1 \/ ("unlink" \in Faults /\ tmps' = tmps)

(* Writing or renaming fails.  The sidecar is best effort: run_watch goes on *)
(* with the GC.  Everything else ends the tick, the GC included.             *)
WriteFails ==
  /\ "write" \in Faults
  /\ RemoveTmp
  /\ UNCHANGED <<clock, snap, side, manifest, docs, gen, crashes>>
  /\ \/ /\ pc \in {"snapReplace", "appendReplace", "gcReplace"}
        /\ Forget
     \/ /\ pc \in {"sideReplace", "annotateReplace"}
        /\ pc' = "gcStart"
        /\ mtime' = 0
        /\ buf' = {}
        /\ UNCHANGED <<cutoff, todo>>

-----------------------------------------------------------------------------
(* A tick begins to write once the document is built; its file is named      *)
(* after the second in generated_at_utc.  (A failed build changes nothing.)  *)
Build_ManifestFirst ==
  /\ pc = "idle"
  /\ docs < MaxDocs
  /\ SameSecond \/ docs = 0 \/ clock > gen
  /\ docs' = docs + 1
  /\ gen' = clock
  /\ pc' = "append"
  /\ UNCHANGED <<clock, disk, mtime, buf, cutoff, todo, crashes>>

Build ==
  /\ pc = "idle"
  /\ docs < MaxDocs
  /\ SameSecond \/ docs = 0 \/ clock > gen
  /\ docs' = docs + 1
  /\ gen' = clock
  /\ pc' = "snapWrite"
  /\ UNCHANGED <<clock, disk, mtime, buf, cutoff, todo, crashes>>

WriteSnapshot == TmpWrite("snapWrite", "snapReplace")

ReplaceSnapshot ==
  /\ TmpRenamed("snapReplace", "append")
  /\ snap' = [snap EXCEPT ![gen] = [doc |-> docs, mtime |-> mtime]]
  /\ UNCHANGED <<side, manifest, buf, cutoff, todo>>

NewEntry_NextDoc == [doc |-> docs + 1, file |-> gen, side |-> FALSE]

NewEntry == [doc |-> docs, file |-> gen, side |-> FALSE]

AppendEntry ==
  /\ pc = "append"
  /\ pc' = "appendWrite"
  /\ \E entries \in ReadEntries: buf' = entries \cup {NewEntry}
  /\ UNCHANGED <<clock, disk, docs, gen, mtime, cutoff, todo, crashes>>

WriteManifest ==
  \/ TmpWrite("appendWrite", "appendReplace")
  \/ TmpWrite("annotateWrite", "annotateReplace")
  \/ TmpWrite("gcWrite", "gcReplace")

ReplaceManifest(from, to) ==
  /\ TmpRenamed(from, to)
  /\ manifest' = buf
  /\ buf' = {}
  /\ UNCHANGED <<snap, side>>

Publish ==
  /\ ReplaceManifest("appendReplace", "analyse")
  /\ UNCHANGED <<cutoff, todo>>

-----------------------------------------------------------------------------
(* --snapshot-latency-analysis.  Skipped when it is off, when the document   *)
(* carries no histograms, and when the analysis fails.                       *)
SkipAnalysis ==
  /\ pc = "analyse"
  /\ pc' = "gcStart"
  /\ UNCHANGED <<clock, disk, docs, gen, mtime, buf, cutoff, todo, crashes>>

Analyse ==
  /\ pc = "analyse"
  /\ pc' = "sideWrite"
  /\ UNCHANGED <<clock, disk, docs, gen, mtime, buf, cutoff, todo, crashes>>

WriteSidecar == TmpWrite("sideWrite", "sideReplace")

ReplaceSidecar ==
  /\ TmpRenamed("sideReplace", "annotate")
  /\ side' = [side EXCEPT ![gen] = [doc |-> docs, mtime |-> mtime]]
  /\ UNCHANGED <<snap, manifest, buf, cutoff, todo>>

(* Every entry of the snapshot's file name gains the pointer.                *)
AnnotateEntries_OnlyOwn ==
  /\ pc = "annotate"
  /\ pc' = "annotateWrite"
  /\ \E entries \in ReadEntries:
       buf' = {[e EXCEPT !.side = TRUE]: e \in {f \in entries: f.file = gen}}
  /\ UNCHANGED <<clock, disk, docs, gen, mtime, cutoff, todo, crashes>>

AnnotateEntries ==
  /\ pc = "annotate"
  /\ pc' = "annotateWrite"
  /\ \E entries \in ReadEntries:
       buf' = {[e EXCEPT !.side = @ \/ e.file = gen]: e \in entries}
  /\ UNCHANGED <<clock, disk, docs, gen, mtime, cutoff, todo, crashes>>

PublishSidecar ==
  /\ ReplaceManifest("annotateReplace", "gcStart")
  /\ UNCHANGED <<cutoff, todo>>

-----------------------------------------------------------------------------
(* gc_snapshots_and_manifest                                                 *)

OldFiles_AtCutoff(limit) ==
  LET Old(kind, dir) ==
        {[kind |-> kind, file |-> s]:
           s \in {t \in Second: Exists(dir, t) /\ dir[t].mtime <= limit}}
  IN Old("snap", snap) \cup Old("side", side)

OldFiles_SnapsOnly(limit) ==
  {[kind |-> "snap", file |-> s]:
     s \in {t \in Second: Exists(snap, t) /\ snap[t].mtime < limit}}

OldFiles(limit) ==
  LET Old(kind, dir) ==
        {[kind |-> kind, file |-> s]:
           s \in {t \in Second: Exists(dir, t) /\ dir[t].mtime < limit}}
  IN Old("snap", snap) \cup Old("side", side)

(* The cutoff is fixed, then the directory is listed.  No one else writes to *)
(* it, so the files found too old now are those found too old one by one.    *)
(* Without retention there is nothing to do.                                 *)
StartGC ==
  /\ pc = "gcStart"
  /\ IF Retention = 0
     THEN Forget
     ELSE /\ pc' = "gcUnlink"
          /\ cutoff' = clock - Retention
          /\ todo' = OldFiles(cutoff')
          /\ UNCHANGED <<mtime, buf>>
  /\ UNCHANGED <<clock, disk, docs, gen, crashes>>

(* Snapshots come before sidecars in the list.                               *)
NextOld == {f \in todo: f.kind = "snap" \/ \A g \in todo: g.kind = "side"}

UnlinkOld ==
  /\ pc = "gcUnlink"
  /\ \E f \in NextOld:
       /\ todo' = todo \ {f}
       /\ IF f.kind = "snap"
          THEN snap' = [snap EXCEPT ![f.file] = Absent] /\ UNCHANGED side
          ELSE side' = [side EXCEPT ![f.file] = Absent] /\ UNCHANGED snap
  /\ UNCHANGED <<clock, manifest, tmps, docs, gen, pc, mtime, buf, cutoff, crashes>>

(* An OSError of unlink is ignored and the file stays.                       *)
UnlinkFails ==
  /\ pc = "gcUnlink"
  /\ "unlink" \in Faults
  /\ \E f \in NextOld: todo' = todo \ {f}
  /\ UNCHANGED <<clock, disk, docs, gen, pc, mtime, buf, cutoff, crashes>>

UnlinkDone ==
  /\ pc = "gcUnlink"
  /\ todo = {}
  /\ pc' = "gcRead"
  /\ UNCHANGED <<clock, disk, docs, gen, mtime, buf, cutoff, todo, crashes>>

Kept(e) == Exists(snap, e.file) /\ snap[e.file].mtime >= cutoff

FilterEntries ==
  /\ pc = "gcRead"
  /\ pc' = "gcWrite"
  /\ buf' = {e \in manifest: Kept(e)}
  /\ UNCHANGED <<clock, disk, docs, gen, mtime, cutoff, todo, crashes>>

(* A manifest that cannot be read is left alone by the GC.                   *)
FilterFails ==
  /\ pc = "gcRead"
  /\ "read" \in Faults
  /\ Forget
  /\ UNCHANGED <<clock, disk, docs, gen, crashes>>

PublishKept ==
  /\ ReplaceManifest("gcReplace", "idle")
  /\ cutoff' = 0
  /\ todo' = {}

-----------------------------------------------------------------------------
(* The watcher is killed in the middle of a tick and started again.          *)
Crash ==
  /\ pc # "idle"
  /\ crashes < MaxCrashes
  /\ crashes' = crashes + 1
  /\ Forget
  /\ UNCHANGED <<clock, disk, docs, gen>>

Watcher ==
  \/ Build \/ WriteSnapshot \/ ReplaceSnapshot
  \/ AppendEntry \/ WriteManifest \/ Publish
  \/ SkipAnalysis \/ Analyse \/ WriteSidecar \/ ReplaceSidecar
  \/ AnnotateEntries \/ PublishSidecar
  \/ StartGC \/ UnlinkOld \/ UnlinkFails \/ UnlinkDone
  \/ FilterEntries \/ FilterFails \/ PublishKept
  \/ WriteFails

Next == Tick \/ Watcher \/ Crash

Spec == Init /\ [][Next]_vars

-----------------------------------------------------------------------------
(* Properties                                                                *)

(* The entry opens: its file still holds the document it was written for,    *)
(* and so does the sidecar it names.                                         *)
Opens(e) ==
  /\ snap[e.file].doc = e.doc
  /\ e.side => side[e.file].doc = e.doc

(* Whatever the watcher is in the middle of, and wherever it was killed, a   *)
(* reader of the manifest can open every entry within retention, with its    *)
(* own document and its own sidecar.  Files are replaced before the manifest *)
(* names them, and the GC unlinks before it rewrites the manifest, so only   *)
(* expired entries may dangle.  Needs ~SameSecond.                           *)
ListedReadable == \A e \in manifest: Opens(e) \/ Expired(e.file)

(* The same without ~SameSecond: no unexpired entry is left without files.   *)
NoFreshLoss ==
  \A e \in manifest:
    \/ Exists(snap, e.file) /\ (e.side => Exists(side, e.file))
    \/ Expired(e.file)

Covers(entries, e) ==
  \E f \in entries: f.doc = e.doc /\ f.file = e.file /\ (e.side => f.side)

DropsOnlyExpired == \A e \in manifest: Covers(manifest', e) \/ Expired(e.file)

(* Rewriting the manifest (three functions read it, change their copy and    *)
(* write it back) loses an entry, or an entry's sidecar, only by age, as     *)
(* long as the manifest can be read.                                         *)
LosesOnlyExpired == [][DropsOnlyExpired]_vars

(* When the GC is about to rewrite the manifest, what it keeps exists, and   *)
(* no file of either kind older than the cutoff is left, those included that *)
(* a crash had left out of the manifest.                                     *)
GcExact ==
  pc = "gcReplace" =>
    /\ \A e \in buf: Exists(snap, e.file) /\ snap[e.file].mtime >= cutoff
    /\ "unlink" \notin Faults =>
         \A dir \in {snap, side}, s \in Second:
           Exists(dir, s) => dir[s].mtime >= cutoff

(* Temporary files do not pile up: one at most while a file is being         *)
(* written, and one more for each crash (nothing ever removes those: no      *)
(* pattern of the GC matches them).  Failed writes leave none, unless they   *)
(* cannot be removed.                                                        *)
TmpsAccounted ==
  "unlink" \notin Faults =>
  tmps <= crashes
          + (IF pc \in {"snapReplace", "appendReplace", "sideReplace",
                        "annotateReplace", "gcReplace"} THEN 1 ELSE 0)

(* The directory implements the archive, as long as no two documents share   *)
(* a second and the manifest can be read.                                    *)
Listed   == {[doc |-> e.doc, file |-> e.file]: e \in manifest}
Readable ==
  {[doc |-> snap[s].doc, file |-> s]: s \in {t \in Second: Exists(snap, t)}}
Analysed == {e.doc: e \in {f \in manifest: f.side}}

Archive == INSTANCE SnapshotArchive WITH
  listed <- Listed, readable <- Readable, analysed <- Analysed

ArchiveSpec == Archive!Spec
=============================================================================
