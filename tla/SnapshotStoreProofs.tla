------------------------ MODULE SnapshotStoreProofs ------------------------
(* What SnapshotStore guarantees for every value of its constants, and that  *)
(* it implements SnapshotArchive.                                            *)
EXTENDS SnapshotStore, TLAPS

Replacing == {"snapReplace", "appendReplace", "sideReplace",
              "annotateReplace", "gcReplace"}

(* A tick that is under way has a document, and a temporary file while it    *)
(* is about to rename one: without them the types are not inductive.         *)
Numbered ==
  /\ pc # "idle" => docs >= 1
  /\ pc \in Replacing => tmps >= 1

TypeInv == TypeOK /\ Numbered

(* Modification times: a file is never older than the second it is named     *)
(* after, which is what lets the GC judge by modification time and a reader  *)
(* by name.                                                                  *)
DirAged(dir) == \A s \in Second: Exists(dir, s) => s <= dir[s].mtime

Aged ==
  /\ gen <= clock
  /\ pc \in {"snapReplace", "sideReplace"} => gen <= mtime
  /\ DirAged(snap)
  /\ DirAged(side)

Collecting == pc \in {"gcUnlink", "gcRead", "gcWrite", "gcReplace"}

(* What the GC is still to unlink is expired, whatever the clock says by then. *)
DoomedExpired ==
  /\ Collecting => Retention > 0 /\ cutoff + Retention <= clock
  /\ \A f \in todo: pc = "gcUnlink" /\ f.file < cutoff

(* Files are in place before an entry, or a copy of one, refers to them.     *)
Whole(e) ==
  \/ Exists(snap, e.file) /\ (e.side => Exists(side, e.file))
  \/ Expired(e.file)

FilesFirst ==
  /\ \A e \in manifest \cup buf: Whole(e)
  /\ pc = "append" => Exists(snap, gen)
  /\ pc = "annotate" => Exists(side, gen)

Inv == TypeInv /\ Aged /\ DoomedExpired /\ FilesFirst

(* The copy that is about to replace the manifest has lost nothing fresh.    *)
Holding == pc \in {"appendWrite", "appendReplace", "annotateWrite",
                  "annotateReplace", "gcWrite", "gcReplace"}

CopyKeeps == Holding => \A e \in manifest: Covers(buf, e) \/ Expired(e.file)

(* One document per second: what is named after gen belongs to docs.         *)
Newest(e) ==
  /\ e.doc <= docs
  /\ e.file <= gen
  /\ e.file = gen => e.doc = docs

OneDocPerSecond ==
  /\ \A e \in manifest \cup buf: Newest(e) /\ (Opens(e) \/ Expired(e.file))
  /\ pc = "append" => snap[gen].doc = docs
  /\ pc = "annotate" => side[gen].doc = docs

(* What the GC has found, and not yet unlinked, is all there is to unlink.   *)
Sweeping ==
  /\ pc \in {"gcWrite", "gcReplace"} =>
       \A e \in buf: Exists(snap, e.file) /\ snap[e.file].mtime >= cutoff
  /\ Collecting /\ "unlink" \notin Faults =>
       \A s \in Second:
         /\ Exists(snap, s) /\ snap[s].mtime < cutoff
              => [kind |-> "snap", file |-> s] \in todo
         /\ Exists(side, s) /\ side[s].mtime < cutoff
              => [kind |-> "side", file |-> s] \in todo

-----------------------------------------------------------------------------
LEMMA TypeInvInit == Init => TypeInv
BY StoreAssumption
   DEF Init, TypeInv, TypeOK, Numbered, Second, File, Absent, Entry, Labels, Replacing

LEMMA TypeInvStep == TypeInv /\ [Next]_vars => TypeInv'
<1> SUFFICES ASSUME TypeInv, [Next]_vars PROVE TypeInv'
  OBVIOUS
<1> USE StoreAssumption
        DEF TypeInv, TypeOK, Numbered, Replacing, Labels, disk, proc, Forget,
            Second, Doc
<1>1. CASE Tick
  BY <1>1 DEF Tick
<1>2. CASE Build
  BY <1>2 DEF Build
<1>3. CASE WriteSnapshot
  BY <1>3 DEF WriteSnapshot, TmpWrite
<1>4. CASE ReplaceSnapshot
  <2>1. [doc |-> docs, mtime |-> mtime] \in File
    BY DEF File
  <2>2. snap' \in [Second -> File]
    BY <1>4, <2>1 DEF ReplaceSnapshot
  <2> QED
    BY <1>4, <2>2 DEF ReplaceSnapshot, TmpRenamed
<1>5. CASE AppendEntry
  <2>1. NewEntry \in Entry
    BY <1>5 DEF AppendEntry, NewEntry, Entry
  <2>2. buf' \subseteq Entry
    BY <1>5, <2>1 DEF AppendEntry, ReadEntries
  <2> QED
    BY <1>5, <2>2 DEF AppendEntry
<1>6. CASE WriteManifest
  BY <1>6 DEF WriteManifest, TmpWrite
<1>7. CASE Publish
  BY <1>7 DEF Publish, ReplaceManifest, TmpRenamed
<1>8. CASE SkipAnalysis \/ Analyse
  BY <1>8 DEF SkipAnalysis, Analyse
<1>9. CASE WriteSidecar
  BY <1>9 DEF WriteSidecar, TmpWrite
<1>10. CASE ReplaceSidecar
  <2>1. [doc |-> docs, mtime |-> mtime] \in File
    BY DEF File
  <2>2. side' \in [Second -> File]
    BY <1>10, <2>1 DEF ReplaceSidecar
  <2> QED
    BY <1>10, <2>2 DEF ReplaceSidecar, TmpRenamed
<1>11. CASE AnnotateEntries
  <2>1. ASSUME NEW e \in manifest
        PROVE  [e EXCEPT !.side = @ \/ e.file = gen] \in Entry
    BY <2>1 DEF Entry
  <2>2. buf' \subseteq Entry
    BY <1>11, <2>1 DEF AnnotateEntries, ReadEntries
  <2> QED
    BY <1>11, <2>2 DEF AnnotateEntries
<1>12. CASE PublishSidecar
  BY <1>12 DEF PublishSidecar, ReplaceManifest, TmpRenamed
<1>13. CASE StartGC
  BY <1>13 DEF StartGC, OldFiles
<1>14. CASE UnlinkOld
  <2>1. Absent \in File
    BY DEF Absent, File
  <2>2. snap' \in [Second -> File] /\ side' \in [Second -> File]
    BY <1>14, <2>1 DEF UnlinkOld
  <2> QED
    BY <1>14, <2>2 DEF UnlinkOld
<1>15. CASE UnlinkFails \/ UnlinkDone
  BY <1>15 DEF UnlinkFails, UnlinkDone, NextOld
<1>16. CASE FilterEntries \/ FilterFails
  BY <1>16 DEF FilterEntries, FilterFails
<1>17. CASE PublishKept
  BY <1>17 DEF PublishKept, ReplaceManifest, TmpRenamed
<1>18. CASE WriteFails
  BY <1>18 DEF WriteFails, RemoveTmp
<1>19. CASE Crash
  BY <1>19 DEF Crash
<1>20. CASE UNCHANGED vars
  BY <1>20 DEF vars
<1> QED
  BY <1>1, <1>2, <1>3, <1>4, <1>5, <1>6, <1>7, <1>8, <1>9, <1>10, <1>11, <1>12,
     <1>13, <1>14, <1>15, <1>16, <1>17, <1>18, <1>19, <1>20 DEF Next, Watcher

-----------------------------------------------------------------------------
(* The actions that only move the control on, or change the watcher's memory. *)
Quiet ==
  \/ AppendEntry \/ SkipAnalysis \/ Analyse \/ AnnotateEntries
  \/ UnlinkFails \/ UnlinkDone \/ FilterEntries \/ FilterFails

LEMMA FileTypes ==
  ASSUME TypeOK, NEW s \in Second
  PROVE  /\ s \in Int
         /\ snap[s].doc \in Int /\ snap[s].mtime \in Int
         /\ side[s].doc \in Int /\ side[s].mtime \in Int
<1>1. snap[s] \in File /\ side[s] \in File
  BY DEF TypeOK
<1> QED
  BY <1>1, StoreAssumption DEF File, Second

(* A directory whose only changes are removals, or a file written no earlier *)
(* than the second it is named after, stays aged.                            *)
LEMMA DirAgedRemove ==
  ASSUME NEW old, NEW new, DirAged(old),
         \A s \in Second: Exists(new, s) => new[s] = old[s]
  PROVE  DirAged(new)
BY DEF DirAged, Exists

LEMMA DirAgedWrite ==
  ASSUME NEW old \in [Second -> File], DirAged(old),
         NEW file \in Second, NEW doc, NEW time \in Int, file <= time
  PROVE  DirAged([old EXCEPT ![file] = [doc |-> doc, mtime |-> time]])
<1> DEFINE new == [old EXCEPT ![file] = [doc |-> doc, mtime |-> time]]
<1>1. new[file].mtime = time /\ \A s \in Second: s # file => new[s] = old[s]
  OBVIOUS
<1> HIDE DEF new
<1> QED
  BY <1>1 DEF DirAged, Exists

LEMMA AgedStep == TypeInv /\ Aged /\ [Next]_vars => Aged'
<1> SUFFICES ASSUME TypeInv, Aged, [Next]_vars PROVE Aged'
  OBVIOUS
<1>0. TypeOK /\ clock \in Int /\ gen \in Int /\ mtime \in Int
  BY StoreAssumption DEF TypeInv, TypeOK, Second
<1> USE DEF Aged, disk, proc, Forget
<1>1. CASE Tick \/ Build
  BY <1>0, <1>1 DEF Tick, Build
<1>2. CASE WriteSnapshot \/ WriteManifest \/ WriteSidecar
  BY <1>0, <1>2 DEF WriteSnapshot, WriteManifest, WriteSidecar, TmpWrite
<1>3. CASE ReplaceSnapshot
  <2>1. DirAged(snap')
    <3>1. snap \in [Second -> File] /\ gen \in Second /\ gen <= mtime
      BY <1>0, <1>3 DEF ReplaceSnapshot, TmpRenamed, TypeOK
    <3>2. DirAged([snap EXCEPT ![gen] = [doc |-> docs, mtime |-> mtime]])
      BY <1>0, <3>1, DirAgedWrite
    <3> QED
      BY <1>3, <3>2 DEF ReplaceSnapshot
  <2> QED
    BY <1>3, <2>1 DEF ReplaceSnapshot, TmpRenamed
<1>4. CASE ReplaceSidecar
  <2>1. DirAged(side')
    <3>1. side \in [Second -> File] /\ gen \in Second /\ gen <= mtime
      BY <1>0, <1>4 DEF ReplaceSidecar, TmpRenamed, TypeOK
    <3>2. DirAged([side EXCEPT ![gen] = [doc |-> docs, mtime |-> mtime]])
      BY <1>0, <3>1, DirAgedWrite
    <3> QED
      BY <1>4, <3>2 DEF ReplaceSidecar
  <2> QED
    BY <1>4, <2>1 DEF ReplaceSidecar, TmpRenamed
<1>5. CASE Publish \/ PublishSidecar \/ PublishKept
  BY <1>5 DEF Publish, PublishSidecar, PublishKept, ReplaceManifest, TmpRenamed
<1>6. CASE UnlinkOld
  <2>1. ASSUME NEW s \in Second
        PROVE  /\ Exists(snap', s) => snap'[s] = snap[s]
               /\ Exists(side', s) => side'[s] = side[s]
    BY <1>0, <1>6 DEF UnlinkOld, Absent, Exists, TypeOK
  <2>2. DirAged(snap') /\ DirAged(side')
    BY <2>1, DirAgedRemove
  <2> QED
    BY <1>6, <2>2 DEF UnlinkOld
<1>7. CASE Quiet
  BY <1>7 DEF Quiet, AppendEntry, SkipAnalysis, Analyse, AnnotateEntries,
              UnlinkFails, UnlinkDone, FilterEntries, FilterFails
<1>8. CASE StartGC
  BY <1>8 DEF StartGC
<1>9. CASE WriteFails \/ Crash
  BY <1>9 DEF WriteFails, Crash
<1>10. CASE UNCHANGED vars
  BY <1>10 DEF vars
<1> QED
  BY <1>1, <1>2, <1>3, <1>4, <1>5, <1>6, <1>7, <1>8, <1>9, <1>10
     DEF Next, Watcher, Quiet

LEMMA DoomedStep == TypeInv /\ Aged /\ DoomedExpired /\ [Next]_vars => DoomedExpired'
<1> SUFFICES ASSUME TypeInv, Aged, DoomedExpired, [Next]_vars PROVE DoomedExpired'
  OBVIOUS
<1> USE StoreAssumption
        DEF TypeInv, TypeOK, DoomedExpired, Collecting, Labels, Second, disk,
            proc, Forget
<1>1. CASE Tick \/ Build
  BY <1>1 DEF Tick, Build
<1>2. CASE WriteSnapshot \/ WriteManifest \/ WriteSidecar
  BY <1>2 DEF WriteSnapshot, WriteManifest, WriteSidecar, TmpWrite
<1>3. CASE ReplaceSnapshot \/ ReplaceSidecar
  BY <1>3 DEF ReplaceSnapshot, ReplaceSidecar, TmpRenamed
<1>4. CASE Publish \/ PublishSidecar \/ PublishKept
  BY <1>4 DEF Publish, PublishSidecar, PublishKept, ReplaceManifest, TmpRenamed
<1>5. CASE UnlinkOld
  BY <1>5 DEF UnlinkOld, NextOld
<1>6. CASE Quiet
  BY <1>6 DEF Quiet, AppendEntry, SkipAnalysis, Analyse, AnnotateEntries,
              UnlinkFails, UnlinkDone, FilterEntries, FilterFails
<1>7. CASE StartGC
  <2>1. CASE Retention = 0
    BY <1>7, <2>1 DEF StartGC
  <2>2. CASE Retention # 0
    <3>1. ASSUME NEW s \in Second, NEW dir \in {snap, side},
                 Exists(dir, s), dir[s].mtime < cutoff'
          PROVE  s < cutoff'
      <4>1. dir[s].mtime \in Int /\ s \in Int /\ s <= dir[s].mtime
        BY <3>1, FileTypes DEF Aged, DirAged
      <4>2. cutoff' \in Int
        BY <1>7, <2>2 DEF StartGC
      <4> QED
        BY <3>1, <4>1, <4>2
    <3>2. \A f \in todo': f.file < cutoff'
      BY <1>7, <2>2, <3>1 DEF StartGC, OldFiles
    <3> QED
      BY <1>7, <2>2, <3>2 DEF StartGC
  <2> QED
    BY <2>1, <2>2
<1>8. CASE WriteFails \/ Crash
  BY <1>8 DEF WriteFails, Crash
<1>9. CASE UNCHANGED vars
  BY <1>9 DEF vars
<1> QED
  BY <1>1, <1>2, <1>3, <1>4, <1>5, <1>6, <1>7, <1>8, <1>9 DEF Next, Watcher, Quiet

-----------------------------------------------------------------------------
(* Time passes: what has expired stays expired.                              *)
LEMMA ExpiredStays ==
  ASSUME TypeOK, [Next]_vars, NEW s \in Second, Expired(s)
  PROVE  Expired(s)'
<1>1. clock' = clock \/ clock' = clock + 1
  BY DEF Next, Watcher, Quiet, Tick, Build, WriteSnapshot, WriteManifest,
         WriteSidecar, TmpWrite, ReplaceSnapshot, ReplaceSidecar, Publish,
         PublishSidecar, PublishKept, ReplaceManifest, TmpRenamed, UnlinkOld,
         AppendEntry, SkipAnalysis, Analyse, AnnotateEntries, UnlinkFails,
         UnlinkDone, FilterEntries, FilterFails, StartGC, WriteFails, Crash, vars
<1> QED
  BY <1>1, StoreAssumption DEF TypeOK, Second, Expired

(* A file goes only when it has expired.                                     *)
LEMMA FilesStay ==
  ASSUME TypeInv, DoomedExpired, [Next]_vars, NEW s \in Second
  PROVE  /\ Exists(snap, s) => Exists(snap', s) \/ Expired(s)'
         /\ Exists(side, s) => Exists(side', s) \/ Expired(s)'
<1>0. TypeOK
  BY DEF TypeInv
<1>1. CASE ReplaceSnapshot
  <2>1. docs # 0
    BY <1>0, <1>1, StoreAssumption
       DEF ReplaceSnapshot, TmpRenamed, TypeInv, Numbered, TypeOK
  <2> QED
    BY <1>0, <1>1, <2>1 DEF ReplaceSnapshot, Exists, TypeOK
<1>2. CASE ReplaceSidecar
  <2>1. docs # 0
    BY <1>0, <1>2, StoreAssumption
       DEF ReplaceSidecar, TmpRenamed, TypeInv, Numbered, TypeOK
  <2> QED
    BY <1>0, <1>2, <2>1 DEF ReplaceSidecar, Exists, TypeOK
<1>3. CASE UnlinkOld
  <2>1. PICK f \in todo:
          /\ f.file < cutoff
          /\ snap' = [snap EXCEPT ![f.file] = Absent] \/ snap' = snap
          /\ side' = [side EXCEPT ![f.file] = Absent] \/ side' = side
    BY <1>3 DEF UnlinkOld, NextOld, DoomedExpired
  <2>2. Retention > 0 /\ cutoff + Retention <= clock /\ clock' = clock
    BY <1>3 DEF UnlinkOld, DoomedExpired, Collecting
  <2>3. Expired(f.file)'
    BY <1>0, <2>1, <2>2, StoreAssumption DEF Expired, TypeOK, Second
  <2> QED
    BY <1>0, <2>1, <2>3 DEF Exists, TypeOK
<1>4. CASE UNCHANGED <<snap, side>>
  BY <1>4 DEF Exists
<1> QED
  BY <1>1, <1>2, <1>3, <1>4
     DEF Next, Watcher, Quiet, Tick, Build, WriteSnapshot, WriteManifest,
         WriteSidecar, TmpWrite, Publish, PublishSidecar, PublishKept,
         ReplaceManifest, AppendEntry, SkipAnalysis, Analyse, AnnotateEntries,
         UnlinkFails, UnlinkDone, FilterEntries, FilterFails, StartGC,
         WriteFails, Crash, vars, disk

LEMMA WholeStays ==
  ASSUME TypeInv, DoomedExpired, [Next]_vars, NEW e \in Entry, Whole(e)
  PROVE  Whole(e)'
<1>1. e.file \in Second /\ TypeOK
  BY DEF Entry, TypeInv
<1> QED
  BY <1>1, FilesStay, ExpiredStays DEF Whole, Exists

(* Only appending and annotating make entries; the rest copies and drops.    *)
LEMMA EntriesCopied ==
  ASSUME [Next]_vars, ~AppendEntry, ~AnnotateEntries
  PROVE  manifest' \cup buf' \subseteq manifest \cup buf
BY DEF Next, Watcher, Tick, Build, WriteSnapshot, WriteManifest, WriteSidecar,
       TmpWrite, ReplaceSnapshot, ReplaceSidecar, Publish, PublishSidecar,
       PublishKept, ReplaceManifest, TmpRenamed, UnlinkOld, SkipAnalysis,
       Analyse, UnlinkFails, UnlinkDone, FilterEntries, FilterFails, StartGC,
       WriteFails, Crash, vars, disk, proc, Forget

(* The steps that lead to, or stay in, the places where a file is there.     *)
LEMMA BeforeAppend ==
  ASSUME TypeInv, [Next]_vars, pc' = "append"
  PROVE  \/ ReplaceSnapshot
         \/ pc = "append" /\ UNCHANGED <<snap, gen, docs>>
BY DEF Next, Watcher, Tick, Build, WriteSnapshot, WriteManifest, WriteSidecar,
       TmpWrite, ReplaceSidecar, Publish, PublishSidecar,
       PublishKept, ReplaceManifest, TmpRenamed, UnlinkOld, SkipAnalysis,
       Analyse, UnlinkFails, UnlinkDone, FilterEntries, FilterFails, StartGC,
       WriteFails, Crash, vars, disk, proc, Forget, AppendEntry, AnnotateEntries

LEMMA BeforeAnnotate ==
  ASSUME TypeInv, [Next]_vars, pc' = "annotate"
  PROVE  \/ ReplaceSidecar
         \/ pc = "annotate" /\ UNCHANGED <<side, gen, docs>>
BY DEF Next, Watcher, Tick, Build, WriteSnapshot, WriteManifest, WriteSidecar,
       TmpWrite, ReplaceSnapshot, Publish, PublishSidecar,
       PublishKept, ReplaceManifest, TmpRenamed, UnlinkOld, SkipAnalysis,
       Analyse, UnlinkFails, UnlinkDone, FilterEntries, FilterFails, StartGC,
       WriteFails, Crash, vars, disk, proc, Forget, AppendEntry, AnnotateEntries

(* What the two renames leave behind is a file of the newest document.       *)
LEMMA SnapshotInPlace ==
  ASSUME TypeInv, ReplaceSnapshot
  PROVE  gen' \in Second /\ docs' # 0 /\ snap'[gen'].doc = docs'
<1>1. TypeOK /\ docs >= 1 /\ gen' = gen /\ docs' = docs
  BY DEF TypeInv, Numbered, ReplaceSnapshot, TmpRenamed
<1> QED
  BY <1>1, StoreAssumption DEF ReplaceSnapshot, TypeOK

LEMMA SidecarInPlace ==
  ASSUME TypeInv, ReplaceSidecar
  PROVE  gen' \in Second /\ docs' # 0 /\ side'[gen'].doc = docs'
<1>1. TypeOK /\ docs >= 1 /\ gen' = gen /\ docs' = docs
  BY DEF TypeInv, Numbered, ReplaceSidecar, TmpRenamed
<1> QED
  BY <1>1, StoreAssumption DEF ReplaceSidecar, TypeOK

LEMMA FilesFirstStep == Inv /\ [Next]_vars => FilesFirst'
<1> SUFFICES ASSUME Inv, [Next]_vars PROVE FilesFirst'
  OBVIOUS
<1>0. /\ TypeInv /\ TypeOK /\ DoomedExpired /\ FilesFirst
      /\ manifest \subseteq Entry /\ buf \subseteq Entry
  BY DEF Inv, TypeInv, TypeOK
<1>1. \A e \in manifest \cup buf: Whole(e)'
  BY <1>0, WholeStays DEF FilesFirst
<1>2. \A e \in manifest' \cup buf': Whole(e)'
  <2>1. CASE AppendEntry
    <3>1. Whole(NewEntry)'
      BY <1>0, <2>1 DEF AppendEntry, FilesFirst, Whole, NewEntry, Exists, disk
    <3>2. \A e \in manifest' \cup buf': e \in manifest \/ e = NewEntry'
      BY <2>1 DEF AppendEntry, ReadEntries, NewEntry, disk
    <3> QED
      BY <1>1, <3>1, <3>2
  <2>2. CASE AnnotateEntries
    <3>1. ASSUME NEW e \in manifest
          PROVE  Whole([e EXCEPT !.side = @ \/ e.file = gen])'
      <4>1. UNCHANGED <<snap, side, clock, gen>> /\ Exists(side, gen)
        BY <1>0, <2>2 DEF AnnotateEntries, FilesFirst, disk
      <4> QED
        BY <1>0, <1>1, <4>1 DEF Whole, Exists, Expired, Entry
    <3>2. \A e \in buf': \E f \in manifest:
             e = [f EXCEPT !.side = @ \/ f.file = gen']
      BY <2>2 DEF AnnotateEntries, ReadEntries
    <3>3. manifest' = manifest
      BY <2>2 DEF AnnotateEntries, disk
    <3> QED
      BY <1>1, <3>1, <3>2, <3>3
  <2> QED
    BY <1>1, <2>1, <2>2, EntriesCopied
<1>3. pc' = "append" => Exists(snap, gen)'
  BY <1>0, BeforeAppend, SnapshotInPlace DEF FilesFirst, Exists
<1>4. pc' = "annotate" => Exists(side, gen)'
  BY <1>0, BeforeAnnotate, SidecarInPlace DEF FilesFirst, Exists
<1> QED
  BY <1>2, <1>3, <1>4 DEF FilesFirst

LEMMA InvInit == Init => Inv
<1> SUFFICES ASSUME Init PROVE Inv
  OBVIOUS
<1>1. TypeInv
  BY TypeInvInit
<1>2. \A s \in Second: ~Exists(snap, s) /\ ~Exists(side, s)
  BY DEF Init, Exists, Absent
<1>3. Aged
  BY <1>2 DEF Init, Aged, DirAged
<1>4. DoomedExpired /\ FilesFirst
  BY DEF Init, DoomedExpired, Collecting, FilesFirst
<1> QED
  BY <1>1, <1>3, <1>4 DEF Inv

LEMMA InvStep == Inv /\ [Next]_vars => Inv'
BY TypeInvStep, AgedStep, DoomedStep, FilesFirstStep DEF Inv

(* The variables of the watcher and of its directory keep their types,       *)
(* whatever crashes and fails: no sequence of steps counts more documents    *)
(* than were built, less than no temporary file, or leaves the known labels. *)
THEOREM TypeCorrect == Spec => []TypeOK
<1>1. Init => Inv
  BY InvInit
<1>2. Inv /\ [Next]_vars => Inv'
  BY InvStep
<1>3. Inv => TypeOK
  BY DEF Inv, TypeInv
<1> QED
  BY <1>1, <1>2, <1>3, PTL DEF Spec

(* Wherever the watcher is, was killed or has failed, no unexpired entry of  *)
(* the manifest is left without its snapshot, nor without a sidecar it names *)
(* (gc_snapshots_and_manifest, and the order of the writes before it).       *)
THEOREM NothingFreshLost == Spec => []NoFreshLoss
<1>1. Inv => NoFreshLoss
  BY DEF Inv, FilesFirst, Whole, NoFreshLoss
<1> QED
  BY <1>1, InvInit, InvStep, PTL DEF Spec

-----------------------------------------------------------------------------
LEMMA TmpsStep == TypeInv /\ TmpsAccounted /\ [Next]_vars => TmpsAccounted'
<1> SUFFICES ASSUME TypeInv, TmpsAccounted, [Next]_vars PROVE TmpsAccounted'
  OBVIOUS
<1>0. tmps \in Nat /\ crashes \in Int
  BY DEF TypeInv, TypeOK
<1> USE <1>0 DEF TmpsAccounted, disk, proc, Forget
<1>1. CASE Tick \/ Build
  BY <1>1 DEF Tick, Build
<1>2. CASE WriteSnapshot \/ WriteManifest \/ WriteSidecar
  BY <1>2 DEF WriteSnapshot, WriteManifest, WriteSidecar, TmpWrite
<1>3. CASE ReplaceSnapshot \/ ReplaceSidecar
  BY <1>3 DEF ReplaceSnapshot, ReplaceSidecar, TmpRenamed
<1>4. CASE Publish \/ PublishSidecar \/ PublishKept
  BY <1>4 DEF Publish, PublishSidecar, PublishKept, ReplaceManifest, TmpRenamed
<1>5. CASE UnlinkOld \/ StartGC
  BY <1>5 DEF UnlinkOld, StartGC
<1>6. CASE Quiet
  BY <1>6 DEF Quiet, AppendEntry, SkipAnalysis, Analyse, AnnotateEntries,
              UnlinkFails, UnlinkDone, FilterEntries, FilterFails
<1>7. CASE WriteFails
  BY <1>7 DEF WriteFails, RemoveTmp
<1>8. CASE Crash
  BY <1>8 DEF Crash
<1>9. CASE UNCHANGED vars
  BY <1>9 DEF vars
<1> QED
  BY <1>1, <1>2, <1>3, <1>4, <1>5, <1>6, <1>7, <1>8, <1>9 DEF Next, Watcher, Quiet

(* Temporary files of _atomic_write_json: never more than one for each crash *)
(* and the one being written, if removing them works.                        *)
THEOREM TmpsBounded == Spec => []TmpsAccounted
<1>1. Init => TypeInv /\ TmpsAccounted
  BY TypeInvInit DEF Init, TmpsAccounted
<1>2. (TypeInv /\ TmpsAccounted) /\ [Next]_vars => (TypeInv /\ TmpsAccounted)'
  BY TypeInvStep, TmpsStep
<1> QED
  BY <1>1, <1>2, PTL DEF Spec

-----------------------------------------------------------------------------
(* Entries are not lost.                                                     *)

(* What the GC's filter drops has expired.                                   *)
LEMMA FilteredExpired ==
  ASSUME Inv, FilterEntries, NEW e \in manifest, ~Kept(e)
  PROVE  Expired(e.file)'
<1>0. /\ TypeOK /\ DoomedExpired /\ FilesFirst /\ Aged
      /\ e.file \in Second /\ Whole(e) /\ UNCHANGED clock
  BY DEF Inv, TypeInv, TypeOK, Entry, FilesFirst, FilterEntries
<1>1. CASE ~Exists(snap, e.file)
  BY <1>0, <1>1 DEF Whole, Expired
<1>2. CASE Exists(snap, e.file)
  <2>1. snap[e.file].mtime \in Int /\ e.file \in Int
    BY <1>0, FileTypes
  <2>2. e.file <= snap[e.file].mtime /\ snap[e.file].mtime < cutoff
    BY <1>0, <1>2, <2>1 DEF Kept, Aged, DirAged, TypeOK
  <2>3. Retention > 0 /\ cutoff + Retention <= clock
    BY <1>0 DEF FilterEntries, DoomedExpired, Collecting
  <2> QED
    BY <1>0, <2>1, <2>2, <2>3, StoreAssumption DEF Expired, TypeOK, Second
<1> QED
  BY <1>1, <1>2

LEMMA CopyKeepsStep ==
  "read" \notin Faults /\ Inv /\ CopyKeeps /\ [Next]_vars => CopyKeeps'
<1> SUFFICES ASSUME "read" \notin Faults, Inv, CopyKeeps, [Next]_vars
             PROVE  CopyKeeps'
  OBVIOUS
<1>0. /\ TypeInv /\ TypeOK /\ DoomedExpired /\ FilesFirst /\ Aged
      /\ manifest \subseteq Entry
  BY DEF Inv, TypeInv, TypeOK
<1>1. ASSUME NEW e \in manifest, Expired(e.file)
      PROVE  Expired(e.file)'
  <2>1. e.file \in Second
    BY <1>0, <1>1 DEF Entry
  <2> QED
    BY <1>0, <1>1, <2>1, ExpiredStays
<1>2. CASE AppendEntry
  BY <1>2 DEF AppendEntry, ReadEntries, CopyKeeps, Covers, disk
<1>3. CASE AnnotateEntries
  <2>1. ASSUME NEW e \in manifest
        PROVE  Covers(buf', e)
    <3>1. [e EXCEPT !.side = @ \/ e.file = gen] \in buf'
      BY <1>3 DEF AnnotateEntries, ReadEntries
    <3> QED
      BY <1>0, <3>1 DEF Covers, Entry
  <2> QED
    BY <1>3, <2>1 DEF AnnotateEntries, CopyKeeps, Covers, disk
<1>4. CASE FilterEntries
  <2>1. \A e \in manifest: ~Kept(e) => Expired(e.file)'
    BY <1>0, <1>4, FilteredExpired
  <2> QED
    BY <1>4, <2>1 DEF FilterEntries, CopyKeeps, Covers, disk
<1>5. CASE WriteManifest
  BY <1>5 DEF WriteManifest, TmpWrite, CopyKeeps, Holding, Covers, Expired
<1>6. CASE Tick
  BY <1>1, <1>6 DEF Tick, CopyKeeps, Holding, Covers, disk, proc
<1>7. CASE UNCHANGED vars
  BY <1>7 DEF vars, CopyKeeps, Holding, Covers, Expired, disk, proc
<1>8. CASE ~Holding'
  BY <1>8 DEF CopyKeeps
<1> QED
  BY <1>0, <1>2, <1>3, <1>4, <1>5, <1>6, <1>7, <1>8
     DEF Next, Watcher, Build, WriteSnapshot, WriteSidecar, TmpWrite,
         ReplaceSnapshot, ReplaceSidecar, Publish, PublishSidecar, PublishKept,
         ReplaceManifest, TmpRenamed, UnlinkOld, SkipAnalysis, Analyse,
         UnlinkFails, UnlinkDone, FilterFails, StartGC, WriteFails, Crash,
         Forget, Holding

LEMMA DropsStep ==
  ASSUME Inv, CopyKeeps, [Next]_vars
  PROVE  [DropsOnlyExpired]_vars
<1>1. CASE Publish \/ PublishSidecar \/ PublishKept
  BY <1>1 DEF Publish, PublishSidecar, PublishKept, ReplaceManifest, TmpRenamed,
              CopyKeeps, Holding, DropsOnlyExpired
<1>2. CASE UNCHANGED manifest
  BY <1>2 DEF DropsOnlyExpired, Covers
<1> QED
  BY <1>1, <1>2
     DEF Next, Watcher, Tick, Build, WriteSnapshot, WriteManifest, WriteSidecar,
         TmpWrite, ReplaceSnapshot, ReplaceSidecar, UnlinkOld, AppendEntry,
         SkipAnalysis, Analyse, AnnotateEntries, UnlinkFails, UnlinkDone,
         FilterEntries, FilterFails, StartGC, WriteFails, Crash, vars, disk

(* As long as the manifest can be read, the three read-modify-writes of it   *)
(* (append, annotate, prune) never lose an unexpired entry nor a pointer to  *)
(* a sidecar, whatever crashes, failed writes and the clock do in between.   *)
THEOREM EntriesKept ==
  ASSUME "read" \notin Faults
  PROVE  Spec => LosesOnlyExpired
<1>1. Init => Inv /\ CopyKeeps
  BY InvInit DEF Init, CopyKeeps
<1>2. (Inv /\ CopyKeeps) /\ [Next]_vars => (Inv /\ CopyKeeps)'
  BY InvStep, CopyKeepsStep
<1>3. (Inv /\ CopyKeeps) /\ [Next]_vars => [DropsOnlyExpired]_vars
  BY DropsStep
<1> QED
  BY <1>1, <1>2, <1>3, PTL DEF Spec, LosesOnlyExpired

-----------------------------------------------------------------------------
(* One document per second: every entry opens its own document.              *)

LEMMA NewestStays ==
  ASSUME ~SameSecond, TypeInv, Aged, [Next]_vars, NEW e \in Entry, Newest(e)
  PROVE  Newest(e)'
<1>0. /\ TypeOK /\ gen \in Int /\ clock \in Int /\ docs \in Int
      /\ e.doc \in Int /\ e.doc >= 1 /\ e.file \in Int
  BY StoreAssumption DEF TypeInv, TypeOK, Second, Entry, Doc
<1>1. CASE Build
  <2>1. docs' = docs + 1 /\ gen' = clock /\ clock > gen
    BY <1>0, <1>1 DEF Build, Newest
  <2> QED
    BY <1>0, <2>1 DEF Newest
<1>2. CASE UNCHANGED <<docs, gen>>
  BY <1>2 DEF Newest
<1> QED
  BY <1>1, <1>2
     DEF Next, Watcher, Tick, WriteSnapshot, WriteManifest, WriteSidecar,
         TmpWrite, ReplaceSnapshot, ReplaceSidecar, Publish, PublishSidecar,
         PublishKept, ReplaceManifest, TmpRenamed, UnlinkOld, AppendEntry,
         SkipAnalysis, Analyse, AnnotateEntries, UnlinkFails, UnlinkDone,
         FilterEntries, FilterFails, StartGC, WriteFails, Crash, vars

(* A file's document changes only by expiry, or to the newest document in    *)
(* the file of its own second.                                               *)
LEMMA DocStays ==
  ASSUME TypeInv, DoomedExpired, [Next]_vars, NEW s \in Second
  PROVE  /\ \/ snap'[s].doc = snap[s].doc
            \/ s = gen /\ snap'[s].doc = docs /\ docs = docs' /\ ReplaceSnapshot
            \/ Expired(s)'
         /\ \/ side'[s].doc = side[s].doc
            \/ s = gen /\ side'[s].doc = docs /\ docs = docs' /\ ReplaceSidecar
            \/ Expired(s)'
<1>0. TypeOK
  BY DEF TypeInv
<1>1. CASE ReplaceSnapshot
  BY <1>0, <1>1 DEF ReplaceSnapshot, TmpRenamed, TypeOK
<1>2. CASE ReplaceSidecar
  BY <1>0, <1>2 DEF ReplaceSidecar, TmpRenamed, TypeOK
<1>3. CASE UnlinkOld
  <2>1. PICK f \in todo:
          /\ f.file < cutoff
          /\ snap' = [snap EXCEPT ![f.file] = Absent] \/ snap' = snap
          /\ side' = [side EXCEPT ![f.file] = Absent] \/ side' = side
    BY <1>3 DEF UnlinkOld, NextOld, DoomedExpired
  <2>2. Retention > 0 /\ cutoff + Retention <= clock /\ clock' = clock
    BY <1>3 DEF UnlinkOld, DoomedExpired, Collecting
  <2>3. Expired(f.file)'
    BY <1>0, <2>1, <2>2, StoreAssumption DEF Expired, TypeOK, Second
  <2> QED
    BY <1>0, <2>1, <2>3 DEF TypeOK
<1>4. CASE UNCHANGED <<snap, side>>
  BY <1>4
<1> QED
  BY <1>1, <1>2, <1>3, <1>4
     DEF Next, Watcher, Tick, Build, WriteSnapshot, WriteManifest,
         WriteSidecar, TmpWrite, Publish, PublishSidecar, PublishKept,
         ReplaceManifest, AppendEntry, SkipAnalysis, Analyse, AnnotateEntries,
         UnlinkFails, UnlinkDone, FilterEntries, FilterFails, StartGC,
         WriteFails, Crash, vars, disk

LEMMA OpensStays ==
  ASSUME TypeInv, DoomedExpired, [Next]_vars,
         NEW e \in Entry, Newest(e), Opens(e) \/ Expired(e.file)
  PROVE  (Opens(e) \/ Expired(e.file))'
<1>1. e.file \in Second /\ TypeOK
  BY DEF Entry, TypeInv
<1> QED
  BY <1>1, DocStays, ExpiredStays DEF Opens, Newest

LEMMA OneDocStep ==
  ~SameSecond /\ Inv /\ OneDocPerSecond /\ [Next]_vars => OneDocPerSecond'
<1> SUFFICES ASSUME ~SameSecond, Inv, OneDocPerSecond, [Next]_vars
             PROVE  OneDocPerSecond'
  OBVIOUS
<1> DEFINE Good(e) == Newest(e) /\ (Opens(e) \/ Expired(e.file))
<1>0. /\ TypeInv /\ TypeOK /\ Numbered /\ DoomedExpired /\ Aged
      /\ manifest \subseteq Entry /\ buf \subseteq Entry
  BY DEF Inv, TypeInv, TypeOK
<1>1. \A e \in manifest \cup buf: Good(e)'
  BY <1>0, NewestStays, OpensStays DEF OneDocPerSecond
<1>2. \A e \in manifest' \cup buf': Good(e)'
  <2>1. CASE AppendEntry
    <3>1. Good(NewEntry)'
      BY <1>0, <2>1, StoreAssumption
         DEF AppendEntry, OneDocPerSecond, Newest, Opens, NewEntry, TypeOK,
             Second, disk
    <3>2. \A e \in manifest' \cup buf': e \in manifest \/ e = NewEntry'
      BY <2>1 DEF AppendEntry, ReadEntries, NewEntry, disk
    <3> QED
      BY <1>1, <3>1, <3>2
  <2>2. CASE AnnotateEntries
    <3>1. ASSUME NEW e \in manifest
          PROVE  Good([e EXCEPT !.side = @ \/ e.file = gen])'
      <4>1. /\ UNCHANGED <<snap, side, clock, gen, docs>>
            /\ side[gen].doc = docs
        BY <1>0, <2>2 DEF AnnotateEntries, OneDocPerSecond, disk
      <4> QED
        BY <1>0, <1>1, <4>1 DEF Newest, Opens, Expired, Entry
    <3>2. \A e \in buf': \E f \in manifest:
             e = [f EXCEPT !.side = @ \/ f.file = gen']
      BY <2>2 DEF AnnotateEntries, ReadEntries
    <3>3. manifest' = manifest
      BY <2>2 DEF AnnotateEntries, disk
    <3> QED
      BY <1>1, <3>1, <3>2, <3>3
  <2> QED
    BY <1>1, <2>1, <2>2, EntriesCopied
<1>3. pc' = "append" => (snap[gen].doc = docs)'
  BY <1>0, BeforeAppend, SnapshotInPlace DEF OneDocPerSecond
<1>4. pc' = "annotate" => (side[gen].doc = docs)'
  BY <1>0, BeforeAnnotate, SidecarInPlace DEF OneDocPerSecond
<1> QED
  BY <1>2, <1>3, <1>4 DEF OneDocPerSecond

(* A reader of ybtop.manifest.json opens, under every unexpired entry, the   *)
(* document the entry was written for and its own sidecar, at any moment of  *)
(* write_snapshot_and_update_manifest, of the analysis, of the GC and of the *)
(* crashes and failures in between, if no two documents share a second.      *)
THEOREM ManifestReadable ==
  ASSUME ~SameSecond
  PROVE  Spec => []ListedReadable
<1>1. Init => Inv /\ OneDocPerSecond
  BY InvInit DEF Init, OneDocPerSecond
<1>2. (Inv /\ OneDocPerSecond) /\ [Next]_vars => (Inv /\ OneDocPerSecond)'
  BY InvStep, OneDocStep
<1>3. OneDocPerSecond => ListedReadable
  BY DEF OneDocPerSecond, ListedReadable
<1> QED
  BY <1>1, <1>2, <1>3, PTL DEF Spec

-----------------------------------------------------------------------------
(* The GC is exact.                                                          *)

LEMMA SweepingStep == Inv /\ Sweeping /\ [Next]_vars => Sweeping'
<1> SUFFICES ASSUME Inv, Sweeping, [Next]_vars PROVE Sweeping'
  OBVIOUS
<1>0. TypeInv /\ TypeOK
  BY DEF Inv, TypeInv
<1> USE DEF Sweeping, Collecting, disk, proc, Forget
<1>1. CASE StartGC
  <2>1. CASE Retention = 0
    BY <1>1, <2>1 DEF StartGC
  <2>2. CASE Retention # 0
    <3>1. /\ pc' = "gcUnlink"
          /\ todo' = OldFiles(cutoff')
          /\ UNCHANGED <<snap, side>>
      BY <1>1, <2>2 DEF StartGC
    <3> QED
      BY <3>1 DEF OldFiles, Exists
  <2> QED
    BY <2>1, <2>2
<1>2. CASE UnlinkOld
  <2>1. PICK f \in todo:
          /\ todo' = todo \ {f}
          /\ IF f.kind = "snap"
             THEN snap' = [snap EXCEPT ![f.file] = Absent] /\ side' = side
             ELSE side' = [side EXCEPT ![f.file] = Absent] /\ snap' = snap
    BY <1>2 DEF UnlinkOld, NextOld
  <2>2. f.kind \in {"snap", "side"} /\ f.file \in Second /\ f = [kind |-> f.kind, file |-> f.file]
    BY <1>0 DEF TypeOK
  <2>3. pc = "gcUnlink" /\ pc' = pc /\ cutoff' = cutoff
    BY <1>2 DEF UnlinkOld
  <2>4. ASSUME NEW s \in Second, "unlink" \notin Faults,
               Exists(snap', s), snap'[s].mtime < cutoff
        PROVE  [kind |-> "snap", file |-> s] \in todo'
    <3>1. snap'[s] = snap[s] /\ ~(f.kind = "snap" /\ f.file = s)
      BY <1>0, <2>1, <2>4 DEF Exists, Absent, TypeOK
    <3>2. Exists(snap, s) /\ snap[s].mtime < cutoff
      BY <2>3, <2>4, <3>1 DEF Exists
    <3>3. [kind |-> "snap", file |-> s] \in todo
      BY <2>3, <2>4, <3>2
    <3>4. f # [kind |-> "snap", file |-> s]
      BY <3>1
    <3> QED
      BY <2>1, <3>3, <3>4
  <2>5. ASSUME NEW s \in Second, "unlink" \notin Faults,
               Exists(side', s), side'[s].mtime < cutoff
        PROVE  [kind |-> "side", file |-> s] \in todo'
    <3>1. side'[s] = side[s] /\ ~(f.kind = "side" /\ f.file = s)
      BY <1>0, <2>1, <2>2, <2>5 DEF Exists, Absent, TypeOK
    <3>2. Exists(side, s) /\ side[s].mtime < cutoff
      BY <2>3, <2>5, <3>1 DEF Exists
    <3>3. [kind |-> "side", file |-> s] \in todo
      BY <2>3, <2>5, <3>2
    <3>4. f # [kind |-> "side", file |-> s]
      BY <3>1
    <3> QED
      BY <2>1, <3>3, <3>4
  <2> QED
    BY <2>3, <2>4, <2>5 DEF Exists
<1>3. CASE UnlinkFails
  BY <1>3 DEF UnlinkFails, Exists
<1>4. CASE UnlinkDone
  BY <1>4 DEF UnlinkDone, Exists
<1>5. CASE FilterEntries
  BY <1>5 DEF FilterEntries, Kept, Exists
<1>6. CASE WriteManifest
  BY <1>6 DEF WriteManifest, TmpWrite, Exists
<1>7. CASE Tick \/ UNCHANGED vars
  BY <1>7 DEF Tick, vars, Exists
<1>8. CASE ~Collecting'
  BY <1>8
<1> QED
  BY <1>1, <1>2, <1>3, <1>4, <1>5, <1>6, <1>7, <1>8
     DEF Next, Watcher, Build, WriteSnapshot, WriteSidecar, TmpWrite,
         ReplaceSnapshot, ReplaceSidecar, Publish, PublishSidecar, PublishKept,
         ReplaceManifest, TmpRenamed, AppendEntry, SkipAnalysis, Analyse,
         AnnotateEntries, FilterFails, WriteFails, Crash

(* gc_snapshots_and_manifest keeps entries of existing files only and leaves *)
(* no expired file of either kind behind, although time passes between its   *)
(* steps and crashes have left files that no entry names.                    *)
THEOREM GcIsExact == Spec => []GcExact
<1>1. Init => Inv /\ Sweeping
  BY InvInit DEF Init, Sweeping, Collecting
<1>2. (Inv /\ Sweeping) /\ [Next]_vars => (Inv /\ Sweeping)'
  BY InvStep, SweepingStep
<1>3. Inv /\ Sweeping => GcExact
  <2> SUFFICES ASSUME Inv, Sweeping, pc = "gcReplace", "unlink" \notin Faults,
                      NEW dir \in {snap, side}, NEW s \in Second, Exists(dir, s)
               PROVE  dir[s].mtime >= cutoff
    BY DEF GcExact, Sweeping
  <2>1. todo = {}
    BY DEF Inv, DoomedExpired
  <2>2. dir[s].mtime \in Int /\ cutoff \in Int
    BY FileTypes DEF Inv, TypeInv, TypeOK
  <2> QED
    BY <2>1, <2>2 DEF Sweeping, Collecting
<1> QED
  BY <1>1, <1>2, <1>3, PTL DEF Spec

-----------------------------------------------------------------------------
(* The output directory, as SnapshotStore's operations leave it on disk,     *)
(* implements SnapshotArchive: what a reader sees change is always one       *)
(* operation of the archive, or nothing.                                     *)

(* From the start of a tick until its entry is published, everything else is *)
(* older than the tick's document.                                           *)
Unpublished == pc \in {"snapWrite", "snapReplace", "append",
                       "appendWrite", "appendReplace"}

OlderFirst ==
  /\ \A s \in Second: Exists(snap, s) => snap[s].doc <= docs /\ s <= gen
  /\ pc \in {"snapWrite", "snapReplace"} =>
       \A s \in Second: Exists(snap, s) => snap[s].doc < docs /\ s < gen
  /\ Unpublished => \A e \in manifest: e.doc < docs /\ e.file < gen
  /\ pc \in {"append", "appendWrite", "appendReplace"} => snap[gen].doc = docs

(* What the watcher's copy of the manifest is, and that a document has one   *)
(* entry.                                                                    *)
Annotated(e) == [e EXCEPT !.side = @ \/ e.file = gen]

CopyIs ==
  /\ pc \in {"appendWrite", "appendReplace"} => buf = manifest \cup {NewEntry}
  /\ pc \in {"annotateWrite", "annotateReplace"} =>
       buf = {Annotated(e): e \in manifest}
  /\ pc \in {"gcWrite", "gcReplace"} =>
       /\ buf \subseteq manifest
       /\ \A e \in manifest \ buf: Expired(e.file)
  /\ \A e, f \in manifest: e.doc = f.doc => e = f

RefInv == Inv /\ OneDocPerSecond /\ CopyKeeps /\ OlderFirst /\ CopyIs

-----------------------------------------------------------------------------
(* Which steps change what.                                                  *)

LEMMA SnapSteps ==
  ASSUME TypeInv, [Next]_vars, NEW s \in Second, Exists(snap', s)
  PROVE  \/ Exists(snap, s) /\ snap'[s] = snap[s]
         \/ ReplaceSnapshot /\ s = gen /\ snap'[s].doc = docs
<1>0. TypeOK
  BY DEF TypeInv
<1>1. CASE ReplaceSnapshot
  BY <1>0, <1>1 DEF ReplaceSnapshot, Exists, TypeOK
<1>2. CASE UnlinkOld
  BY <1>0, <1>2 DEF UnlinkOld, Exists, Absent, TypeOK
<1>3. CASE snap' = snap
  BY <1>3
<1> QED
  BY <1>1, <1>2, <1>3
     DEF Next, Watcher, Tick, Build, WriteSnapshot, WriteManifest, WriteSidecar,
         TmpWrite, ReplaceSidecar, Publish, PublishSidecar, PublishKept,
         ReplaceManifest, AppendEntry, SkipAnalysis, Analyse, AnnotateEntries,
         UnlinkFails, UnlinkDone, FilterEntries, FilterFails, StartGC,
         WriteFails, Crash, vars, disk

LEMMA DocSteps ==
  ASSUME [Next]_vars
  PROVE  Build \/ UNCHANGED <<docs, gen>>
BY DEF Next, Watcher, Tick, Build, WriteSnapshot, WriteManifest, WriteSidecar,
       TmpWrite, ReplaceSnapshot, ReplaceSidecar, Publish, PublishSidecar,
       PublishKept, ReplaceManifest, TmpRenamed, UnlinkOld, SkipAnalysis,
       Analyse, UnlinkFails, UnlinkDone, FilterEntries, FilterFails, StartGC,
       WriteFails, Crash, vars, disk, proc, Forget, AppendEntry,
       AnnotateEntries

LEMMA ManifestSteps ==
  ASSUME [Next]_vars
  PROVE  Publish \/ PublishSidecar \/ PublishKept \/ manifest' = manifest
BY DEF Next, Watcher, Tick, Build, WriteSnapshot, WriteManifest, WriteSidecar,
       TmpWrite, ReplaceSnapshot, ReplaceSidecar, Publish, PublishSidecar,
       PublishKept, ReplaceManifest, TmpRenamed, UnlinkOld, SkipAnalysis,
       Analyse, UnlinkFails, UnlinkDone, FilterEntries, FilterFails, StartGC,
       WriteFails, Crash, vars, disk, proc, Forget, AppendEntry,
       AnnotateEntries

LEMMA UnpublishedSteps ==
  ASSUME TypeInv, [Next]_vars, Unpublished'
  PROVE  /\ manifest' = manifest
         /\ \/ Build
            \/ Unpublished /\ UNCHANGED <<docs, gen>>
         /\ pc' \in {"snapWrite", "snapReplace"}
              => Build \/ pc \in {"snapWrite", "snapReplace"}
         /\ pc' \in {"append", "appendWrite", "appendReplace"}
              => \/ ReplaceSnapshot
                 \/ /\ pc \in {"append", "appendWrite", "appendReplace"}
                    /\ UNCHANGED <<snap, docs, gen>>
BY DEF Next, Watcher, Tick, Build, WriteSnapshot, WriteManifest, WriteSidecar,
       TmpWrite, ReplaceSnapshot, ReplaceSidecar, Publish, PublishSidecar,
       PublishKept, ReplaceManifest, TmpRenamed, UnlinkOld, SkipAnalysis,
       Analyse, UnlinkFails, UnlinkDone, FilterEntries, FilterFails, StartGC,
       WriteFails, Crash, vars, disk, proc, Forget, AppendEntry,
       AnnotateEntries, Unpublished

LEMMA AppendSteps ==
  ASSUME [Next]_vars, pc' \in {"appendWrite", "appendReplace"}
  PROVE  /\ UNCHANGED <<manifest, docs, gen>>
         /\ \/ AppendEntry
            \/ pc \in {"appendWrite", "appendReplace"} /\ buf' = buf
BY DEF Next, Watcher, Tick, Build, WriteSnapshot, WriteManifest, WriteSidecar,
       TmpWrite, ReplaceSnapshot, ReplaceSidecar, Publish, PublishSidecar,
       PublishKept, ReplaceManifest, TmpRenamed, UnlinkOld, SkipAnalysis,
       Analyse, UnlinkFails, UnlinkDone, FilterEntries, FilterFails, StartGC,
       WriteFails, Crash, vars, disk, proc, Forget, AppendEntry,
       AnnotateEntries

LEMMA AnnotateSteps ==
  ASSUME [Next]_vars, pc' \in {"annotateWrite", "annotateReplace"}
  PROVE  /\ UNCHANGED <<manifest, docs, gen>>
         /\ \/ AnnotateEntries
            \/ pc \in {"annotateWrite", "annotateReplace"} /\ buf' = buf
BY DEF Next, Watcher, Tick, Build, WriteSnapshot, WriteManifest, WriteSidecar,
       TmpWrite, ReplaceSnapshot, ReplaceSidecar, Publish, PublishSidecar,
       PublishKept, ReplaceManifest, TmpRenamed, UnlinkOld, SkipAnalysis,
       Analyse, UnlinkFails, UnlinkDone, FilterEntries, FilterFails, StartGC,
       WriteFails, Crash, vars, disk, proc, Forget, AppendEntry,
       AnnotateEntries

LEMMA FilterSteps ==
  ASSUME [Next]_vars, pc' \in {"gcWrite", "gcReplace"}
  PROVE  /\ manifest' = manifest
         /\ \/ FilterEntries
            \/ pc \in {"gcWrite", "gcReplace"} /\ buf' = buf
BY DEF Next, Watcher, Tick, Build, WriteSnapshot, WriteManifest, WriteSidecar,
       TmpWrite, ReplaceSnapshot, ReplaceSidecar, Publish, PublishSidecar,
       PublishKept, ReplaceManifest, TmpRenamed, UnlinkOld, SkipAnalysis,
       Analyse, UnlinkFails, UnlinkDone, FilterEntries, FilterFails, StartGC,
       WriteFails, Crash, vars, disk, proc, Forget, AppendEntry,
       AnnotateEntries

-----------------------------------------------------------------------------
LEMMA OlderFirstStep ==
  ASSUME ~SameSecond, Inv, OneDocPerSecond, OlderFirst, [Next]_vars
  PROVE  OlderFirst'
<1>0. /\ TypeInv /\ TypeOK /\ Aged
      /\ gen \in Int /\ clock \in Int /\ docs \in Int /\ docs >= 0
      /\ manifest \subseteq Entry
  BY StoreAssumption DEF Inv, TypeInv, TypeOK, Second
<1>1. ASSUME Build
      PROVE  docs' = docs + 1 /\ gen' = clock /\ (docs = 0 \/ gen < gen')
             /\ snap' = snap
  BY <1>0, <1>1 DEF Build, Aged, disk
<1>2. ASSUME NEW s \in Second, Exists(snap', s)
      PROVE  /\ snap'[s].doc <= docs' /\ s <= gen'
             /\ pc' \in {"snapWrite", "snapReplace"}
                  => snap'[s].doc < docs' /\ s < gen'
  <2>1. CASE Build
    <3>1. Exists(snap, s) /\ snap'[s] = snap[s]
      BY <1>1, <1>2, <2>1 DEF Exists
    <3>2. /\ snap[s].doc \in Int /\ snap[s].doc # 0 /\ s \in Int
          /\ snap[s].doc <= docs /\ s <= gen
      BY <1>0, <3>1, FileTypes DEF OlderFirst, Exists
    <3>3. snap[s].doc >= 0
      BY <1>0, StoreAssumption DEF TypeOK, File
    <3> QED
      BY <1>0, <1>1, <2>1, <3>1, <3>2, <3>3
  <2>2. CASE UNCHANGED <<docs, gen>> /\ ~Build
    <3>1. CASE Exists(snap, s) /\ snap'[s] = snap[s]
      BY <1>0, <2>2, <3>1, UnpublishedSteps DEF OlderFirst, Unpublished
    <3>2. CASE ReplaceSnapshot /\ s = gen /\ snap'[s].doc = docs
      BY <1>0, <2>2, <3>2 DEF ReplaceSnapshot, TmpRenamed
    <3> QED
      BY <1>0, <1>2, <3>1, <3>2, SnapSteps
  <2> QED
    BY <2>1, <2>2, DocSteps
<1>3. ASSUME Unpublished', NEW e \in manifest'
      PROVE  e.doc < docs' /\ e.file < gen'
  <2>1. e \in manifest /\ e.doc \in Int /\ e.doc >= 1 /\ e.file \in Int
    BY <1>0, <1>3, UnpublishedSteps, StoreAssumption DEF Entry, Doc, Second
  <2>2. CASE Build
    BY <1>0, <1>1, <2>1, <2>2 DEF OneDocPerSecond, Newest
  <2>3. CASE Unpublished /\ UNCHANGED <<docs, gen>>
    BY <2>1, <2>3 DEF OlderFirst
  <2> QED
    BY <1>0, <1>3, <2>2, <2>3, UnpublishedSteps
<1>4. ASSUME pc' \in {"append", "appendWrite", "appendReplace"}
      PROVE  snap'[gen'].doc = docs'
  BY <1>0, <1>4, UnpublishedSteps, SnapshotInPlace DEF OlderFirst, Unpublished
<1> QED
  BY <1>2, <1>3, <1>4 DEF OlderFirst, Exists

LEMMA CopyIsStep ==
  ASSUME ~SameSecond, "read" \notin Faults, RefInv, [Next]_vars
  PROVE  CopyIs'
<1>0. /\ Inv /\ TypeInv /\ TypeOK /\ CopyIs /\ OneDocPerSecond /\ OlderFirst
      /\ manifest \subseteq Entry
  BY DEF RefInv, Inv, TypeInv, TypeOK
<1>1. ASSUME pc' \in {"appendWrite", "appendReplace"}
      PROVE  buf' = manifest' \cup {NewEntry'}
  BY <1>0, <1>1, AppendSteps DEF AppendEntry, ReadEntries, CopyIs, NewEntry
<1>2. ASSUME pc' \in {"annotateWrite", "annotateReplace"}
      PROVE  buf' = {Annotated(e)': e \in manifest'}
  <2>1. UNCHANGED <<manifest, gen>>
    BY <1>2, AnnotateSteps
  <2>2. buf' = {Annotated(e): e \in manifest}
    BY <1>0, <1>2, AnnotateSteps DEF AnnotateEntries, ReadEntries, CopyIs, Annotated
  <2> QED
    BY <2>1, <2>2 DEF Annotated
<1>3. ASSUME pc' \in {"gcWrite", "gcReplace"}
      PROVE  /\ buf' \subseteq manifest'
             /\ \A e \in manifest' \ buf': Expired(e.file)'
  <2>1. CASE FilterEntries
    <3>1. manifest' = manifest /\ buf' = {e \in manifest: Kept(e)}
      BY <2>1 DEF FilterEntries, disk
    <3> QED
      BY <1>0, <2>1, <3>1, FilteredExpired
  <2>2. CASE pc \in {"gcWrite", "gcReplace"} /\ buf' = buf
    <3>1. manifest' = manifest
      BY <1>3, FilterSteps
    <3>2. \A e \in manifest: e.file \in Second
      BY <1>0 DEF Entry
    <3> QED
      BY <1>0, <2>2, <3>1, <3>2, ExpiredStays DEF CopyIs
  <2> QED
    BY <1>3, <2>1, <2>2, FilterSteps
<1>4. \A e, f \in manifest': e.doc = f.doc => e = f
  <2>1. CASE Publish
    <3>1. manifest' = manifest \cup {NewEntry}
      BY <1>0, <2>1 DEF Publish, ReplaceManifest, TmpRenamed, CopyIs
    <3>2. \A e \in manifest: e.doc # NewEntry.doc
      BY <1>0, <2>1, StoreAssumption
         DEF Publish, ReplaceManifest, TmpRenamed, OlderFirst, Unpublished,
             NewEntry, Entry, Doc, TypeOK
    <3> QED
      BY <1>0, <3>1, <3>2 DEF CopyIs
  <2>2. CASE PublishSidecar
    <3>1. manifest' = {Annotated(e): e \in manifest}
      BY <1>0, <2>2 DEF PublishSidecar, ReplaceManifest, TmpRenamed, CopyIs
    <3>2. \A e \in manifest: Annotated(e).doc = e.doc
      BY <1>0 DEF Annotated, Entry
    <3> QED
      BY <1>0, <3>1, <3>2 DEF CopyIs
  <2>3. CASE PublishKept
    BY <1>0, <2>3 DEF PublishKept, ReplaceManifest, TmpRenamed, CopyIs
  <2>4. CASE manifest' = manifest
    BY <1>0, <2>4 DEF CopyIs
  <2> QED
    BY <2>1, <2>2, <2>3, <2>4, ManifestSteps
<1> QED
  BY <1>1, <1>2, <1>3, <1>4 DEF CopyIs

LEMMA RefInvInit == Init => RefInv
<1> SUFFICES ASSUME Init PROVE RefInv
  OBVIOUS
<1>1. \A s \in Second: ~Exists(snap, s)
  BY DEF Init, Exists, Absent
<1> QED
  BY <1>1, InvInit
     DEF RefInv, Init, OneDocPerSecond, CopyKeeps, OlderFirst, CopyIs, Unpublished

LEMMA RefInvStep ==
  ASSUME ~SameSecond, "read" \notin Faults, RefInv, [Next]_vars
  PROVE  RefInv'
BY InvStep, OneDocStep, CopyKeepsStep, OlderFirstStep, CopyIsStep DEF RefInv

-----------------------------------------------------------------------------
(* Step simulation.                                                          *)

LEMMA ArchiveInit == Init => Archive!Init
BY DEF Init, Archive!Init, Listed, Readable, Analysed, Exists, Absent

(* A rename of a snapshot file stores the tick's document.                   *)
LEMMA StoreSimulated ==
  ASSUME RefInv, ReplaceSnapshot
  PROVE  Archive!Store([doc |-> docs, file |-> gen])
<1>0. /\ Inv /\ TypeInv /\ TypeOK /\ Numbered /\ OlderFirst /\ Aged
      /\ pc = "snapReplace" /\ docs >= 1
      /\ snap' = [snap EXCEPT ![gen] = [doc |-> docs, mtime |-> mtime]]
      /\ UNCHANGED <<clock, manifest>>
  BY DEF RefInv, Inv, TypeInv, Numbered, ReplaceSnapshot, TmpRenamed
<1>1. gen <= clock
  BY <1>0 DEF Aged
<1>2. \A r \in Readable \cup Listed: r.doc < docs /\ r.file < gen
  BY <1>0 DEF Readable, Listed, OlderFirst, Unpublished
<1>3. Readable' = Readable \cup {[doc |-> docs, file |-> gen]}
  <2>1. ~Exists(snap, gen)
    BY <1>0 DEF OlderFirst, TypeOK, Second
  <2>2. gen \in Second /\ docs # 0 /\ snap'[gen].doc = docs
    BY <1>0, StoreAssumption DEF TypeOK
  <2>3. \A s \in Second: s # gen => snap'[s] = snap[s]
    BY <1>0 DEF TypeOK
  <2> QED
    BY <2>1, <2>2, <2>3 DEF Readable, Exists
<1>4. UNCHANGED <<Listed, Analysed>>
  BY <1>0 DEF Listed, Analysed
<1> QED
  BY <1>0, <1>1, <1>2, <1>3, <1>4 DEF Archive!Store

LEMMA PublishSimulated ==
  ASSUME RefInv, Publish
  PROVE  Archive!Publish([doc |-> docs, file |-> gen])
<1>0. /\ TypeOK /\ Numbered /\ OlderFirst /\ CopyIs
      /\ pc = "appendReplace" /\ docs >= 1 /\ docs \in Int
      /\ manifest' = buf
      /\ UNCHANGED <<clock, snap>>
  BY StoreAssumption
     DEF RefInv, Inv, TypeInv, TypeOK, Numbered, Publish, ReplaceManifest, TmpRenamed
<1>1. manifest' = manifest \cup {NewEntry}
  BY <1>0 DEF CopyIs
<1>2. [doc |-> docs, file |-> gen] \in Readable
  BY <1>0 DEF Readable, OlderFirst, Exists, TypeOK
<1>3. \A r \in Listed: r.doc < docs
  BY <1>0 DEF Listed, OlderFirst, Unpublished
<1>4. Listed' = Listed \cup {[doc |-> docs, file |-> gen]}
  <2>1. NewEntry.doc = docs /\ NewEntry.file = gen
    BY DEF NewEntry
  <2> QED
    BY <1>1, <2>1 DEF Listed
<1>5. Analysed' = Analysed
  BY <1>1 DEF Analysed, NewEntry
<1>6. Readable' = Readable
  BY <1>0 DEF Readable, Exists
<1> QED
  BY <1>0, <1>2, <1>3, <1>4, <1>5, <1>6 DEF Archive!Publish

LEMMA AnnotateSimulated ==
  ASSUME RefInv, PublishSidecar
  PROVE  \/ Archive!Annotate([doc |-> docs, file |-> gen])
         \/ UNCHANGED <<clock, Listed, Readable, Analysed>>
<1>0. /\ OneDocPerSecond /\ CopyIs /\ manifest \subseteq Entry
      /\ pc = "annotateReplace"
      /\ manifest' = buf
      /\ UNCHANGED <<clock, snap>>
  BY DEF RefInv, Inv, TypeInv, TypeOK, PublishSidecar, ReplaceManifest, TmpRenamed
<1>1. manifest' = {Annotated(e): e \in manifest}
  BY <1>0 DEF CopyIs
<1>2. \A e \in manifest:
        /\ Annotated(e).doc = e.doc /\ Annotated(e).file = e.file
        /\ Annotated(e).side <=> e.side \/ e.file = gen
        /\ e.file = gen => e.doc = docs
  BY <1>0 DEF Annotated, Entry, OneDocPerSecond, Newest
<1>3. Readable' = Readable
  BY <1>0 DEF Readable, Exists
<1>4. Listed' = Listed
  BY <1>1, <1>2 DEF Listed
<1>5. CASE \E e \in manifest: e.file = gen
  <2>1. [doc |-> docs, file |-> gen] \in Listed
    BY <1>2, <1>5 DEF Listed
  <2>2. Analysed' = Analysed \cup {docs}
    BY <1>1, <1>2, <1>5 DEF Analysed
  <2> QED
    BY <1>0, <1>3, <1>4, <2>1, <2>2 DEF Archive!Annotate
<1>6. CASE \A e \in manifest: e.file # gen
  <2>1. Analysed' = Analysed
    BY <1>1, <1>2, <1>6 DEF Analysed
  <2> QED
    BY <1>0, <1>3, <1>4, <2>1
<1> QED
  BY <1>5, <1>6

LEMMA RemoveSimulated ==
  ASSUME RefInv, UnlinkOld
  PROVE  \/ \E c \in Archive!Copy: Archive!Remove(c)
         \/ UNCHANGED <<clock, Listed, Readable, Analysed>>
<1>0. /\ TypeOK /\ DoomedExpired /\ OlderFirst
      /\ pc = "gcUnlink"
      /\ UNCHANGED <<clock, manifest>>
  BY DEF RefInv, Inv, TypeInv, UnlinkOld
<1>1. UNCHANGED <<Listed, Analysed>>
  BY <1>0 DEF Listed, Analysed
<1>2. PICK f \in todo:
        /\ f.file < cutoff /\ f.file \in Second
        /\ snap' = [snap EXCEPT ![f.file] = Absent] \/ snap' = snap
  BY <1>0 DEF UnlinkOld, NextOld, DoomedExpired, TypeOK
<1>3. CASE Exists(snap, f.file) /\ snap' = [snap EXCEPT ![f.file] = Absent]
  <2> DEFINE c == [doc |-> snap[f.file].doc, file |-> f.file]
  <2>1. snap[f.file].doc \in Doc
    BY <1>0, <1>2, <1>3, StoreAssumption DEF TypeOK, File, Exists, Doc
  <2>2. c \in Archive!Copy
    BY <1>2, <2>1 DEF Archive!Copy, Archive!Doc, Archive!Second, Doc, Second
  <2>3. c \in Readable
    BY <1>2, <1>3 DEF Readable
  <2>4. Archive!Expired(c.file)
    BY <1>0, <1>2, StoreAssumption
       DEF Archive!Expired, DoomedExpired, Collecting, TypeOK, Second
  <2>5. Readable' = Readable \ {c}
    <3>1. /\ ~Exists(snap', f.file)
          /\ \A s \in Second: s # f.file => snap'[s] = snap[s]
      BY <1>0, <1>2, <1>3 DEF Exists, Absent, TypeOK
    <3> QED
      BY <1>2, <3>1 DEF Readable, Exists
  <2> HIDE DEF c
  <2> QED
    BY <1>0, <1>1, <2>2, <2>3, <2>4, <2>5 DEF Archive!Remove
<1>4. CASE ~Exists(snap, f.file) \/ snap' = snap
  <2>1. \A s \in Second: /\ Exists(snap', s) <=> Exists(snap, s)
                         /\ Exists(snap, s) => snap'[s] = snap[s]
    BY <1>0, <1>2, <1>4 DEF Exists, Absent, TypeOK
  <2>2. Readable' = Readable
    BY <2>1 DEF Readable, Exists
  <2> QED
    BY <1>0, <1>1, <2>2
<1> QED
  BY <1>2, <1>3, <1>4

LEMMA PruneSimulated ==
  ASSUME RefInv, PublishKept
  PROVE  \E gone \in SUBSET Listed: Archive!Prune(gone)
<1>0. /\ CopyIs /\ manifest \subseteq Entry
      /\ pc = "gcReplace"
      /\ manifest' = buf
      /\ UNCHANGED <<clock, snap>>
  BY DEF RefInv, Inv, TypeInv, TypeOK, PublishKept, ReplaceManifest, TmpRenamed
<1>1. /\ buf \subseteq manifest
      /\ \A e \in manifest \ buf: Expired(e.file)
      /\ \A e, f \in manifest: e.doc = f.doc => e = f
  BY <1>0 DEF CopyIs
<1> DEFINE gone == {[doc |-> e.doc, file |-> e.file]: e \in manifest \ buf}
<1>2. gone \subseteq Listed
  BY DEF Listed
<1>3. \A c \in gone: Archive!Expired(c.file)
  BY <1>1 DEF Archive!Expired, Expired
<1>4. Listed' = Listed \ gone
  BY <1>0, <1>1 DEF Listed
<1>5. Analysed' = Analysed \ {c.doc: c \in gone}
  <2>1. ASSUME NEW e \in manifest \ buf
        PROVE  e.doc \in {c.doc: c \in gone}
    <3>1. [doc |-> e.doc, file |-> e.file] \in gone
      OBVIOUS
    <3> QED
      BY <3>1
  <2>2. ASSUME NEW c \in gone
        PROVE  \E e \in manifest \ buf: c.doc = e.doc
    OBVIOUS
  <2> QED
    BY <1>0, <1>1, <2>1, <2>2 DEF Analysed
<1>6. Readable' = Readable
  BY <1>0 DEF Readable, Exists
<1> HIDE DEF gone
<1> QED
  BY <1>0, <1>2, <1>3, <1>4, <1>5, <1>6 DEF Archive!Prune

LEMMA StepSimulated ==
  ASSUME RefInv, [Next]_vars
  PROVE  [Archive!Next]_<<clock, Listed, Readable, Analysed>>
<1>0. [doc |-> docs, file |-> gen] \in Archive!Copy \/ docs = 0
  BY StoreAssumption
     DEF RefInv, Inv, TypeInv, TypeOK, Archive!Copy, Archive!Doc,
         Archive!Second, Second
<1>1. CASE ReplaceSnapshot \/ Publish \/ PublishSidecar
  <2>1. docs # 0
    BY <1>1 DEF RefInv, Inv, TypeInv, TypeOK, Numbered, ReplaceSnapshot, Publish,
                PublishSidecar, ReplaceManifest, TmpRenamed
  <2> QED
    BY <1>0, <1>1, <2>1, StoreSimulated, PublishSimulated, AnnotateSimulated
       DEF Archive!Next
<1>2. CASE UnlinkOld
  BY <1>2, RemoveSimulated DEF Archive!Next
<1>3. CASE PublishKept
  BY <1>3, PruneSimulated DEF Archive!Next
<1>4. CASE Tick
  <2>1. Archive!Tick
    BY <1>4 DEF Tick, Archive!Tick, Listed, Readable, Analysed, Exists, disk
  <2> QED
    BY <2>1 DEF Archive!Next
<1>5. CASE UNCHANGED <<clock, manifest, snap>>
  BY <1>5 DEF Listed, Readable, Analysed, Exists
<1> QED
  BY <1>1, <1>2, <1>3, <1>4, <1>5
     DEF Next, Watcher, Build, WriteSnapshot, WriteManifest, WriteSidecar,
         TmpWrite, ReplaceSidecar, TmpRenamed, AppendEntry, SkipAnalysis,
         Analyse, AnnotateEntries, UnlinkFails, UnlinkDone, FilterEntries,
         FilterFails, StartGC, WriteFails, Crash, vars, disk

(* The output directory implements the archive: through crashes, failed      *)
(* writes and unlinks, and the clock, the index a reader sees grows by       *)
(* published documents that are there, and loses expired ones only.          *)
THEOREM ImplementsArchive ==
  ASSUME ~SameSecond, "read" \notin Faults
  PROVE  Spec => ArchiveSpec
<1>1. Init => RefInv
  BY RefInvInit
<1>2. RefInv /\ [Next]_vars => RefInv'
  BY RefInvStep
<1>3. Init => Archive!Init
  BY ArchiveInit
<1>4. RefInv /\ [Next]_vars => [Archive!Next]_(Archive!avars)
  BY StepSimulated DEF Archive!avars
<1> QED
  BY <1>1, <1>2, <1>3, <1>4, PTL DEF Spec, ArchiveSpec, Archive!Spec
=============================================================================
