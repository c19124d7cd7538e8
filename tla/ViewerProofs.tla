---------------------------- MODULE ViewerProofs ----------------------------
(* Safety of Viewer for any number of files, any session history, and any    *)
(* overlap of loads and polls.                                               *)
EXTENDS Viewer, TLAPS

-----------------------------------------------------------------------------
(* The invariant                                                             *)

(* A manifest lists consecutive files and is empty only before the first.    *)
Proper(m) == m.lo <= m.hi \/ m = NoFiles

(* The page's manifest is one that the server had: the server adds at the    *)
(* end and prunes at the front.                                              *)
Bounds ==
  /\ Proper(server) /\ Proper(entries)
  /\ entries.lo <= server.lo /\ entries.hi <= server.hi

(* Nothing is awaited by a page that is not up, or that shows no attempt.    *)
Idle ==
  /\ phase # "live" => loads = {} /\ entries = NoFiles /\ polling = FALSE
  /\ screen.kind \in {"blank", "notfound"} => loads = {}

(* URLs name snapshots that the page has heard of, except that of a page     *)
(* opened with another one, which cannot be left without being replaced.     *)
Newest == IF phase = "live" THEN entries.hi ELSE server.hi
HistoryKnown ==
  \/ \A j \in 1..Len(history): history[j] <= Newest
  \/ Len(history) = 1 /\ screen.kind \in {"blank", "notfound"}

(* UrlPinsCurrent survives the next poll only if a pinned window that is not *)
(* the current one has been pruned, and so can never be listed again.        *)
Pins ==
  phase = "live" /\ screen.kind # "notfound" =>
    history[here] \in {None, CurrentFile} \/ history[here] < entries.lo

(* DeltaIsConsecutive, of the screen and of every answer still awaited.      *)
Consecutive ==
  /\ DeltaIsConsecutive
  /\ \A l \in loads: l.prev \in {None, l.file - 1}

Inv == TypeOK /\ Bounds /\ Idle /\ HistoryKnown /\ Pins /\ Consecutive

-----------------------------------------------------------------------------
(* Manifests                                                                 *)

LEMMA FileAtType ==
  ASSUME NEW m \in Manifest, NEW i \in 0..Len1(m) - 1
  PROVE  /\ FileAt(m, i) \in File /\ Lists(m, FileAt(m, i))
         /\ i \in 0..MaxFile - 1 /\ FileAt(m, i) # None
         /\ i > 0 => FileAt(m, i) - 1 \in File
  BY ViewerAssumption DEF Manifest, Len1, FileAt, Lists, File, None

LEMMA IndexOfType ==
  ASSUME NEW m \in Manifest, NEW f \in Key
  PROVE  /\ Lists(m, f) => /\ IndexOf(m, f) \in 0..Len1(m) - 1
                           /\ FileAt(m, IndexOf(m, f)) = f
         /\ ~Lists(m, f) => IndexOf(m, f) = -1
  BY ViewerAssumption DEF Manifest, Len1, FileAt, Lists, IndexOf, Key, File, None

LEMMA LastIndex ==
  ASSUME NEW m \in Manifest, Proper(m)
  PROVE  /\ Len1(m) - 1 \in -1..MaxFile - 1
         /\ m.hi > 0 => Len1(m) - 1 \in 0..Len1(m) - 1
  BY ViewerAssumption DEF Manifest, Proper, NoFiles, Len1

LEMMA WindowKeyType ==
  ASSUME NEW m \in Manifest, NEW i \in -1..Len1(m) - 1
  PROVE  /\ WindowKey(m, i) \in Key /\ WindowKey(m, i) <= m.hi
         /\ WindowKey(m, i) \in {None, IF i >= 0 THEN FileAt(m, i) ELSE None}
  BY ViewerAssumption DEF Manifest, Len1, FileAt, WindowKey, Key, File, None

LEMMA CurrentFileType ==
  ASSUME TypeOK
  PROVE  /\ CurrentFile \in Key
         /\ CurrentFile # None <=> current >= 0
         /\ CurrentFile # None => Lists(entries, CurrentFile)
<1>1. current \in -1..Len1(entries) - 1 /\ entries \in Manifest
  BY DEF TypeOK
<1>2. CASE current >= 0
  <2>1. current \in 0..Len1(entries) - 1
    BY <1>1, <1>2 DEF Manifest, Len1
  <2> QED
    BY <2>1, <1>1, <1>2, FileAtType DEF CurrentFile, Key
<1>3. CASE ~(current >= 0)
  BY <1>3 DEF CurrentFile, Key
<1> QED
  BY <1>2, <1>3

-----------------------------------------------------------------------------
(* What rendering and the start of a load do                                 *)

LEMMA ReplaceStateFacts ==
  ASSUME TypeOK, NEW at \in 1..Len(history), NEW key \in Key, ReplaceState(at, key)
  PROVE  /\ here' = at /\ history' \in Seq(Key) /\ Len(history') = Len(history)
         /\ here' \in 1..Len(history')
         /\ history'[here'] = key
         /\ \A j \in 1..Len(history'): history'[j] = IF j = at THEN key ELSE history[j]
  BY DEF TypeOK, ReplaceState

LEMMA RenderDocFacts ==
  ASSUME TypeOK, NEW doc \in Key, NEW prev \in Key, NEW at \in 1..Len(history),
         RenderDoc(doc, prev, at)
  PROVE  /\ screen' = [kind |-> "doc", file |-> doc] /\ screen' \in Screen
         /\ lastDoc' = doc /\ lastPrevDoc' = prev
         /\ here' = at /\ history' \in Seq(Key) /\ Len(history') = Len(history)
         /\ here' \in 1..Len(history')
         /\ history'[here'] = WindowKey(entries, current)
         /\ \A j \in 1..Len(history'):
              history'[j] = IF j = at THEN WindowKey(entries, current) ELSE history[j]
<1>1. WindowKey(entries, current) \in Key
  BY WindowKeyType DEF TypeOK
<1>2. screen' = [kind |-> "doc", file |-> doc] /\ screen' \in Screen
  BY DEF RenderDoc, Screen, Key
<1> QED
  BY <1>1, <1>2, ReplaceStateFacts DEF RenderDoc

LEMMA StartLoadFacts ==
  ASSUME TypeOK, NEW m \in Manifest, NEW i \in 0..Len1(m) - 1, NEW at \in 1..Len(history),
         StartLoad(m, i, at)
  PROVE  /\ current' = i /\ box' \in 0..MaxFile
         /\ screen'.kind = "loading" /\ screen' \in Screen
         /\ \E l \in Load: /\ l.file = FileAt(m, i) /\ l.prev \in {None, l.file - 1}
                           /\ loads' = loads \cup {l}
         /\ here' = at /\ history' \in Seq(Key) /\ Len(history') = Len(history)
         /\ here' \in 1..Len(history')
         /\ history'[here'] = WindowKey(m, i)
         /\ \A j \in 1..Len(history'):
              history'[j] = IF j = at THEN WindowKey(m, i) ELSE history[j]
<1> DEFINE file == FileAt(m, i)
           l == [index |-> i, file |-> file, lo |-> server.lo,
                 prev |-> IF i > 0 THEN file - 1 ELSE None]
<1>1. file \in File /\ i \in 0..MaxFile - 1 /\ (i > 0 => file - 1 \in File)
  BY FileAtType
<1>2. server.lo \in 1..MaxFile + 1
  BY DEF TypeOK, Manifest
<1>3. l \in Load /\ l.file = file /\ l.prev \in {None, l.file - 1}
  BY <1>1, <1>2 DEF Load
<1>4. current' = i /\ loads' = loads \cup {l}
  BY DEF StartLoad
<1>5. box' \in 0..MaxFile
  BY <1>1, ViewerAssumption DEF StartLoad
<1>6. screen' = [kind |-> "loading", file |-> file]
  BY DEF StartLoad
<1>7. screen'.kind = "loading" /\ screen' \in Screen
  BY <1>1, <1>6 DEF Screen
<1>8. WindowKey(m, i) \in Key
  <2>1. i \in -1..Len1(m) - 1
    BY DEF Manifest, Len1
  <2> QED
    BY <2>1, WindowKeyType
<1>9. ReplaceState(at, WindowKey(m, i))
  BY DEF StartLoad
<1> HIDE DEF l
<1> QED
  BY <1>3, <1>4, <1>5, <1>7, <1>8, <1>9, ReplaceStateFacts

-----------------------------------------------------------------------------
(* Initial states                                                            *)

LEMMA InvInit == Init => Inv
<1> SUFFICES ASSUME Init PROVE Inv
  OBVIOUS
<1>1. PICK n \in InitialFiles: server = [lo |-> 1, hi |-> n]
  BY DEF Init
<1>2. n \in 0..MaxFile /\ MaxFile \in Nat \ {0}
  BY ViewerAssumption
<1>3. PICK t \in Key: history = <<t>>
  BY DEF Init
<1>4. TypeOK
  <2>1. server \in Manifest /\ NoFiles \in Manifest /\ Len1(NoFiles) = 0
    BY <1>1, <1>2 DEF Manifest, NoFiles, Len1
  <2>2. history \in Seq(Key) /\ here \in 1..Len(history)
    BY <1>3 DEF Init
  <2>3. screen \in Screen
    BY DEF Init, Screen
  <2>4. lastDoc \in Key /\ lastPrevDoc \in Key /\ box \in 0..MaxFile
    BY <1>2 DEF Init, Key
  <2>5. polling \in BOOLEAN
    BY Zenon DEF Init
  <2> QED
    BY <2>1, <2>2, <2>3, <2>4, <2>5 DEF Init, TypeOK
<1>5. Bounds
  BY <1>1, <1>2 DEF Init, Bounds, Proper, NoFiles
<1>6. Idle /\ Pins /\ Consecutive
  BY DEF Init, Idle, Pins, Consecutive, DeltaIsConsecutive
<1>7. HistoryKnown
  BY <1>3 DEF Init, HistoryKnown
<1> QED
  BY <1>4, <1>5, <1>6, <1>7 DEF Inv

-----------------------------------------------------------------------------
(* The server                                                                *)

LEMMA ServerInv == Inv /\ (Append1 \/ Prune) => Inv'
<1> SUFFICES ASSUME Inv, Append1 \/ Prune PROVE Inv'
  OBVIOUS
<1>0. TypeOK /\ Bounds /\ Idle /\ HistoryKnown /\ Pins /\ Consecutive
  BY DEF Inv
<1>1. UNCHANGED <<page, loads, history, here, polling>>
  BY DEF Append1, Prune
<1>2. /\ server' \in Manifest /\ Proper(server')
      /\ server.lo <= server'.lo /\ server.hi <= server'.hi
  BY <1>0, ViewerAssumption DEF Append1, Prune, TypeOK, Manifest, Bounds, Proper, NoFiles
<1>3. TypeOK'
  BY <1>0, <1>1, <1>2 DEF TypeOK, page
<1>4. Bounds'
  BY <1>0, <1>1, <1>2 DEF Bounds, TypeOK, Manifest, page
<1>5. Idle' /\ Pins' /\ Consecutive'
  BY <1>0, <1>1 DEF Idle, Pins, Consecutive, DeltaIsConsecutive, CurrentFile, page
<1>6. HistoryKnown'
  <2>1. Newest \in Int /\ Newest' \in Int /\ Newest <= Newest'
    BY <1>0, <1>1, <1>2 DEF Newest, TypeOK, Manifest, page
  <2>2. \A j \in 1..Len(history): history[j] \in Int
    BY <1>0 DEF TypeOK, Key, File, None
  <2> QED
    BY <1>0, <1>1, <2>1, <2>2 DEF HistoryKnown, page
<1> QED
  BY <1>3, <1>4, <1>5, <1>6 DEF Inv

-----------------------------------------------------------------------------
(* A snapshot starts to load, from the manifest that the page has now.       *)

LEMMA StartLoadInv ==
  ASSUME Inv, NEW i \in 0..Len1(entries') - 1, NEW at \in 1..Len(history),
         StartLoad(entries', i, at),
         entries' \in Manifest, Proper(entries'), entries'.hi > 0,
         entries.hi <= entries'.hi, entries'.lo <= server.lo, entries'.hi <= server.hi,
         phase' = "live", phase = "live" \/ entries' = server,
         UNCHANGED <<server, lastDoc, lastPrevDoc, polling>>
  PROVE  Inv'
<1>0. TypeOK /\ Bounds /\ Idle /\ HistoryKnown /\ Pins /\ Consecutive
  BY DEF Inv
<1> DEFINE key == WindowKey(entries', i)
<1>1. /\ current' = i /\ box' \in 0..MaxFile
      /\ screen'.kind = "loading" /\ screen' \in Screen
      /\ here' = at /\ history' \in Seq(Key) /\ Len(history') = Len(history)
      /\ here' \in 1..Len(history') /\ history'[here'] = key
      /\ \A j \in 1..Len(history'): history'[j] = IF j = at THEN key ELSE history[j]
  BY <1>0, StartLoadFacts
<1>2. PICK l \in Load: /\ l.file = FileAt(entries', i) /\ l.prev \in {None, l.file - 1}
                       /\ loads' = loads \cup {l}
  BY <1>0, StartLoadFacts
<1>3. i \in -1..Len1(entries') - 1 /\ i >= 0
  BY DEF Manifest, Len1
<1>4. key \in Key /\ key <= entries'.hi /\ key \in {None, FileAt(entries', i)}
  BY <1>3, WindowKeyType
<1> HIDE DEF key
<1>5. TypeOK'
  BY <1>0, <1>1, <1>2, <1>3 DEF TypeOK
<1>6. Bounds' /\ Idle'
  BY <1>0, <1>1 DEF Bounds, Idle
<1>7. Pins'
  BY <1>1, <1>3, <1>4 DEF Pins, CurrentFile
<1>8. Consecutive'
  BY <1>0, <1>2 DEF Consecutive, DeltaIsConsecutive
<1>9. HistoryKnown'
  <2>1. Newest' = entries'.hi /\ Newest <= entries'.hi /\ entries'.hi \in Int /\ Newest \in Int
    BY <1>0 DEF Newest, TypeOK, Manifest
  <2>2. \A j \in 1..Len(history): history[j] \in Int
    BY <1>0 DEF TypeOK, Key, File, None
  <2>3. CASE \A j \in 1..Len(history): history[j] <= Newest
    BY <1>1, <1>4, <2>1, <2>2, <2>3 DEF HistoryKnown
  <2>4. CASE Len(history) = 1
    <3>1. \A j \in 1..Len(history'): j = at
      BY <1>1, <2>4
    <3> QED
      BY <1>1, <1>4, <2>1, <3>1 DEF HistoryKnown
  <2> QED
    BY <1>0, <2>3, <2>4 DEF HistoryKnown
<1> QED
  BY <1>5, <1>6, <1>7, <1>8, <1>9 DEF Inv

-----------------------------------------------------------------------------
(* The steps of the page                                                     *)

LEMMA BootInv == Inv /\ (Boot \/ BootFails) => Inv'
<1> SUFFICES ASSUME Inv, Boot \/ BootFails PROVE Inv'
  OBVIOUS
<1>0. TypeOK /\ Bounds /\ Idle /\ HistoryKnown /\ Pins /\ Consecutive
  BY DEF Inv
<1>1. CASE BootFails
  <2>1. TypeOK' /\ Bounds' /\ Pins' /\ Consecutive'
    BY <1>0, <1>1 DEF BootFails, TypeOK, Bounds, Pins, Consecutive, DeltaIsConsecutive, CurrentFile
  <2>2. Idle'
    BY <1>0, <1>1 DEF BootFails, Idle
  <2>3. HistoryKnown'
    BY <1>0, <1>1 DEF BootFails, HistoryKnown, Newest
  <2> QED
    BY <2>1, <2>2, <2>3 DEF Inv
<1>2. CASE Boot
  <2> DEFINE t == history[here]
  <2>1. /\ phase = "boot" /\ phase' = "live" /\ entries' = server /\ server' = server
        /\ server.hi > 0 /\ UNCHANGED <<lastDoc, lastPrevDoc, polling>>
    BY <1>2 DEF Boot
  <2>2. /\ server \in Manifest /\ Proper(server) /\ here \in 1..Len(history) /\ t \in Key
        /\ NoFiles.hi = 0 /\ NoFiles.lo = 1 /\ server.lo >= 1
        /\ loads = {} /\ entries = NoFiles
    BY <1>0, <2>1 DEF TypeOK, Manifest, NoFiles, Bounds, Idle
  <2>3. CASE t # None /\ ~Lists(server, t)
    <3>1. /\ screen' = [kind |-> "notfound", file |-> t]
          /\ UNCHANGED <<current, loads, box, history, here>>
      BY <1>2, <2>3 DEF Boot
    <3>2. current' \in -1..Len1(entries') - 1
      BY <1>0, <2>1, <2>2, <3>1 DEF TypeOK, Len1, Manifest, Proper, NoFiles
    <3>3. screen' \in Screen
      BY <2>2, <3>1 DEF Screen, Key
    <3>4. TypeOK'
      BY <1>0, <2>1, <3>1, <3>2, <3>3 DEF TypeOK
    <3>5. Bounds' /\ Pins' /\ Consecutive'
      BY <1>0, <2>1, <2>2, <3>1 DEF Bounds, Pins, Consecutive, DeltaIsConsecutive, Manifest
    <3>6. Idle'
      BY <2>1, <2>2, <3>1 DEF Idle
    <3>7. HistoryKnown'
      BY <1>0, <2>1, <3>1 DEF HistoryKnown, Newest
    <3> QED
      BY <3>4, <3>5, <3>6, <3>7 DEF Inv
  <2>4. CASE ~(t # None /\ ~Lists(server, t))
    <3> DEFINE i == IF t = None THEN Len1(server) - 1 ELSE IndexOf(server, t)
    <3>1. StartLoad(entries', i, here)
      BY <1>2, <2>1, <2>4 DEF Boot
    <3>2. i \in 0..Len1(entries') - 1
      BY <2>1, <2>2, <2>4, LastIndex, IndexOfType
    <3> HIDE DEF i
    <3>3. /\ entries.hi <= entries'.hi /\ entries'.lo <= server.lo /\ entries'.hi <= server.hi
      BY <2>1, <2>2 DEF Manifest
    <3> QED
      BY <2>1, <2>2, <3>1, <3>2, <3>3, StartLoadInv
  <2> QED
    BY <2>3, <2>4
<1> QED
  BY <1>1, <1>2

LEMMA ShowInv ==
  ASSUME Inv, NEW i \in 0..Len1(entries) - 1, ShowSnapshotAt(i)
  PROVE  Inv'
<1>0. TypeOK /\ Bounds
  BY DEF Inv
<1>1. /\ phase = "live" /\ phase' = "live" /\ entries' = entries
      /\ UNCHANGED <<server, lastDoc, lastPrevDoc, polling>>
      /\ StartLoad(entries', i, here)
  BY DEF ShowSnapshotAt
<1>2. /\ entries \in Manifest /\ Proper(entries) /\ entries.hi > 0
      /\ entries.hi <= entries.hi /\ entries.lo <= server.lo /\ entries.hi <= server.hi
      /\ here \in 1..Len(history)
  BY <1>0 DEF TypeOK, Bounds, Proper, NoFiles, Manifest, Len1
<1> QED
  BY <1>1, <1>2, StartLoadInv

LEMMA NavInv == Inv /\ (NavPrev \/ NavNext \/ NavFirst \/ NavLast \/ Jump) => Inv'
<1> SUFFICES ASSUME Inv, NavPrev \/ NavNext \/ NavFirst \/ NavLast \/ Jump PROVE Inv'
  OBVIOUS
<1>1. current \in -1..Len1(entries) - 1 /\ Len1(entries) \in Int
  BY DEF Inv, TypeOK, Manifest, Len1
<1>2. PICK i \in 0..Len1(entries) - 1: ShowSnapshotAt(i)
  BY <1>1 DEF NavPrev, NavNext, NavFirst, NavLast, Jump, CanPrev, CanNext, CanFirst, CanLast
<1> QED
  BY <1>2, ShowInv

(* The last document, or another one that the page has heard of, is drawn.   *)
LEMMA RenderInv ==
  ASSUME Inv, NEW doc \in Key, NEW prev \in {None, doc - 1}, prev \in Key,
         NEW at \in 1..Len(history),
         RenderDoc(doc, prev, at), loads' \subseteq loads, box' \in 0..MaxFile,
         screen.kind \in {"blank", "notfound"} => Len(history) # 1,
         UNCHANGED <<server, phase, entries, current, polling>>
  PROVE  Inv'
<1>0. TypeOK /\ Bounds /\ Idle /\ HistoryKnown /\ Pins /\ Consecutive
  BY DEF Inv
<1> DEFINE key == WindowKey(entries, current)
<1>1. /\ screen' = [kind |-> "doc", file |-> doc] /\ screen' \in Screen
      /\ lastDoc' = doc /\ lastPrevDoc' = prev
      /\ here' = at /\ history' \in Seq(Key) /\ Len(history') = Len(history)
      /\ here' \in 1..Len(history') /\ history'[here'] = key
      /\ \A j \in 1..Len(history'): history'[j] = IF j = at THEN key ELSE history[j]
  BY <1>0, RenderDocFacts
<1>2. key \in Key /\ key <= entries.hi /\ key \in {None, CurrentFile}
  BY <1>0, WindowKeyType DEF TypeOK, CurrentFile
<1> HIDE DEF key
<1>3. TypeOK'
  BY <1>0, <1>1 DEF TypeOK
<1>4. Bounds' /\ Idle'
  BY <1>0, <1>1 DEF Bounds, Idle
<1>5. Pins'
  BY <1>1, <1>2 DEF Pins, CurrentFile
<1>6. Consecutive'
  BY <1>0, <1>1 DEF Consecutive, DeltaIsConsecutive
<1>7. HistoryKnown'
  <2>1. Newest' = Newest /\ entries.hi <= Newest /\ entries.hi \in Int /\ Newest \in Int
    BY <1>0 DEF Newest, TypeOK, Manifest, Bounds
  <2>2. \A j \in 1..Len(history): history[j] <= Newest
    BY <1>0, Zenon DEF HistoryKnown
  <2> QED
    BY <1>1, <1>2, <2>1, <2>2 DEF HistoryKnown, Key, File, None
<1> QED
  BY <1>3, <1>4, <1>5, <1>6, <1>7 DEF Inv

LEMMA AnswerInv == Inv /\ Answer => Inv'
<1> SUFFICES ASSUME Inv, NEW l \in loads, LoadDone(l) \/ LoadFails(l) PROVE Inv'
  BY DEF Answer
<1>0. TypeOK /\ Bounds /\ Idle /\ HistoryKnown /\ Pins /\ Consecutive
  BY DEF Inv
<1>1. l \in Load /\ l.file \in Key /\ l.prev \in Key /\ l.prev \in {None, l.file - 1}
  BY <1>0 DEF TypeOK, Load, Key, Consecutive
<1>2. screen.kind \notin {"blank", "notfound"}
  BY <1>0 DEF Idle
<1>3. CASE LoadDone(l)
  <2>1. PICK prev \in {l.prev, None}: RenderDoc(l.file, prev, here)
    BY <1>3 DEF LoadDone
  <2>2. prev \in {None, l.file - 1} /\ prev \in Key
    BY <1>1 DEF Key
  <2>3. box' \in 0..MaxFile
    BY <1>1, <1>3, ViewerAssumption DEF LoadDone, Load
  <2>4. loads' \subseteq loads /\ here \in 1..Len(history)
    BY <1>0, <1>3 DEF LoadDone, TypeOK
  <2>5. UNCHANGED <<server, phase, entries, current, polling>>
    BY <1>3 DEF LoadDone
  <2> QED
    BY <1>1, <1>2, <2>1, <2>2, <2>3, <2>4, <2>5, RenderInv
<1>4. CASE LoadFails(l)
  <2>1. /\ loads' \subseteq loads /\ screen' = [kind |-> "error", file |-> l.file]
        /\ UNCHANGED <<server, phase, entries, current, lastDoc, lastPrevDoc, box,
                       history, here, polling>>
    BY <1>4 DEF LoadFails
  <2>2. screen' \in Screen /\ screen'.kind = "error"
    BY <1>1, <2>1 DEF Screen, Key
  <2>3. TypeOK'
    BY <1>0, <2>1, <2>2 DEF TypeOK
  <2>4. Bounds' /\ Idle' /\ Consecutive'
    BY <1>0, <2>1, <2>2 DEF Bounds, Idle, Consecutive, DeltaIsConsecutive
  <2>5. Pins'
    BY <1>0, <1>2, <2>1 DEF Pins, CurrentFile
  <2>6. HistoryKnown'
    BY <1>0, <1>2, <2>1 DEF HistoryKnown, Newest
  <2> QED
    BY <2>3, <2>4, <2>5, <2>6 DEF Inv
<1> QED
  BY <1>3, <1>4

LEMMA PollInv == Inv /\ (StartPoll \/ PollFails) => Inv'
<1> SUFFICES ASSUME Inv, StartPoll \/ PollFails PROVE Inv'
  OBVIOUS
<1>0. TypeOK /\ Bounds /\ Idle /\ HistoryKnown /\ Pins /\ Consecutive
  BY DEF Inv
<1>1. UNCHANGED <<server, phase, entries, current, loads, screen, lastDoc, lastPrevDoc,
                  box, history, here>>
  BY DEF StartPoll, PollFails, page
<1>2. polling' \in BOOLEAN
  BY Zenon DEF StartPoll, PollFails
<1>3. TypeOK'
  BY <1>0, <1>1, <1>2 DEF TypeOK
<1>4. Bounds' /\ HistoryKnown' /\ Pins' /\ Consecutive'
  BY <1>0, <1>1
     DEF Bounds, HistoryKnown, Newest, Pins, Consecutive, DeltaIsConsecutive, CurrentFile
<1>5. phase # "live" => polling' = FALSE
  BY DEF StartPoll, PollFails
<1>6. Idle'
  BY <1>0, <1>1, <1>5 DEF Idle
<1> QED
  BY <1>3, <1>4, <1>6 DEF Inv

(* A new manifest: the current window keeps its file, or has been pruned.    *)
LEMMA PollDoneFacts ==
  ASSUME Inv, PollDone
  PROVE  /\ phase = "live" /\ current' \in -1..Len1(server) - 1
         /\ CurrentFile # None => \/ Lists(server, CurrentFile) /\ CurrentFile' = CurrentFile
                                  \/ ~Lists(server, CurrentFile) /\ CurrentFile < server.lo
<1>0. TypeOK /\ Bounds /\ Idle
  BY DEF Inv
<1>1. polling /\ entries' = server
  BY DEF PollDone
<1>2. phase = "live"
  BY <1>0, <1>1, Zenon DEF Idle
<1>3. server \in Manifest /\ Proper(server) /\ CurrentFile \in Key
  BY <1>0, CurrentFileType DEF TypeOK, Bounds
<1>4. CASE CurrentFile = None
  <2>1. current' = Len1(server) - 1
    BY <1>4 DEF PollDone
  <2> QED
    BY <1>2, <1>3, <1>4, <2>1, LastIndex DEF Manifest, Len1
<1>5. CASE CurrentFile # None
  <2>1. current' = IndexOf(server, CurrentFile)
    BY <1>5 DEF PollDone
  <2>2. CASE Lists(server, CurrentFile)
    <3>1. /\ current' \in 0..Len1(server) - 1 /\ FileAt(server, current') = CurrentFile
      BY <1>3, <2>1, <2>2, IndexOfType
    <3>2. CurrentFile' = CurrentFile
      BY <1>1, <3>1 DEF CurrentFile, Len1, Manifest
    <3>3. current' \in -1..Len1(server) - 1
      BY <1>3, <3>1 DEF Len1, Manifest
    <3> QED
      BY <1>2, <2>2, <3>2, <3>3
  <2>3. CASE ~Lists(server, CurrentFile)
    <3>1. current' = -1 /\ Len1(server) \in Int /\ Len1(server) >= 0
      BY <1>3, <2>1, <2>3, IndexOfType DEF Manifest, Len1, Proper, NoFiles
    <3>2. Lists(entries, CurrentFile)
      BY <1>0, <1>5, CurrentFileType
    <3>3. CurrentFile < server.lo
      BY <1>0, <1>3, <2>3, <3>2 DEF Lists, Bounds, TypeOK, Manifest, Key, File, None
    <3> QED
      BY <1>2, <2>3, <3>1, <3>3
  <2> QED
    BY <2>2, <2>3
<1> QED
  BY <1>4, <1>5

LEMMA PollDoneInv == Inv /\ PollDone => Inv'
<1> SUFFICES ASSUME Inv, PollDone PROVE Inv'
  OBVIOUS
<1>0. TypeOK /\ Bounds /\ Idle /\ HistoryKnown /\ Pins /\ Consecutive
  BY DEF Inv
<1>1. /\ polling' = FALSE /\ entries' = server
      /\ UNCHANGED <<server, phase, loads, screen, lastDoc, lastPrevDoc, history, here>>
  BY DEF PollDone
<1>2. phase = "live" /\ current' \in -1..Len1(server) - 1
  BY PollDoneFacts
<1>3. server \in Manifest /\ Len1(server) <= MaxFile /\ Len1(server) \in Int
  BY <1>0, ViewerAssumption DEF TypeOK, Manifest, Len1
<1>4. box' \in 0..MaxFile
  <2>1. current' \in Int /\ current' < MaxFile /\ MaxFile \in Int /\ MaxFile >= 1
    BY <1>2, <1>3, ViewerAssumption
  <2>2. CASE current' >= 0
    <3>1. box' = current' + 1
      BY <2>2 DEF PollDone
    <3>2. \A c \in Int, m \in Int: 0 <= c /\ c < m => c + 1 \in 0..m
      OBVIOUS
    <3>3. current' + 1 \in 0..MaxFile
      BY <2>1, <2>2, <3>2
    <3> QED
      BY <3>1, <3>3
  <2>3. CASE ~(current' >= 0)
    <3>1. box' = 1
      BY <2>3 DEF PollDone
    <3> QED
      BY <2>1, <3>1
  <2> QED
    BY <2>2, <2>3
<1>5. TypeOK'
  <2>1. polling' \in BOOLEAN
    BY <1>1, Zenon
  <2>2. current' \in -1..Len1(entries') - 1
    BY <1>1, <1>2
  <2> QED
    BY <1>0, <1>1, <1>3, <1>4, <2>1, <2>2 DEF TypeOK
<1>6. Bounds' /\ Consecutive'
  BY <1>0, <1>1, <1>3 DEF Bounds, Consecutive, DeltaIsConsecutive, Manifest
<1>7. Idle'
  BY <1>0, <1>1, <1>2 DEF Idle
<1>8. HistoryKnown'
  <2>1. Newest' = server.hi /\ Newest = entries.hi
    BY <1>1, <1>2 DEF Newest
  <2>2. \A j \in 1..Len(history): history[j] \in Int
    BY <1>0 DEF TypeOK, Key, File, None
  <2> QED
    BY <1>0, <1>1, <2>1, <2>2 DEF HistoryKnown, Bounds, TypeOK, Manifest
<1>9. Pins'
  <2> SUFFICES ASSUME screen.kind # "notfound", history[here] # None
               PROVE  history[here] = CurrentFile' \/ history[here] < server.lo
    BY <1>1 DEF Pins
  <2>1. history[here] = CurrentFile \/ history[here] < entries.lo
    BY <1>0, <1>2 DEF Pins
  <2>2. history[here] \in Int /\ server.lo \in Int /\ entries.lo \in Int
    BY <1>0 DEF TypeOK, Manifest, Key, File, None
  <2> QED
    BY <1>0, <2>1, <2>2, PollDoneFacts DEF Bounds
<1> QED
  BY <1>5, <1>6, <1>7, <1>8, <1>9 DEF Inv

-----------------------------------------------------------------------------
(* Session history                                                           *)

LEMMA DeepLinkInv == Inv /\ DeepLink => Inv'
<1> SUFFICES ASSUME Inv, DeepLink PROVE Inv'
  OBVIOUS
<1>0. TypeOK /\ Bounds /\ Idle /\ HistoryKnown /\ Pins /\ Consecutive
  BY DEF Inv
<1> DEFINE key == WindowKey(entries, current)
<1>1. /\ screen.kind = "doc" /\ screen' = [kind |-> "doc", file |-> lastDoc]
      /\ history' = Append(SubSeq(history, 1, here), key) /\ here' = here + 1
      /\ UNCHANGED <<server, phase, entries, current, loads, lastDoc, lastPrevDoc, box, polling>>
  BY DEF DeepLink
<1>2. key \in Key /\ key <= entries.hi /\ key \in {None, CurrentFile}
  BY <1>0, WindowKeyType DEF TypeOK, CurrentFile
<1> HIDE DEF key
<1>3. /\ history' \in Seq(Key) /\ Len(history') = here + 1 /\ here' \in 1..Len(history')
      /\ history'[here'] = key
      /\ \A j \in 1..Len(history'): j # here + 1 => j \in 1..Len(history) /\ history'[j] = history[j]
  BY <1>0, <1>1, <1>2 DEF TypeOK
<1>4. screen' \in Screen
  BY <1>0, <1>1 DEF Screen, TypeOK, Key
<1>5. TypeOK'
  BY <1>0, <1>1, <1>3, <1>4 DEF TypeOK
<1>6. Bounds' /\ Idle' /\ Consecutive'
  BY <1>0, <1>1 DEF Bounds, Idle, Consecutive, DeltaIsConsecutive
<1>7. Pins'
  BY <1>1, <1>2, <1>3 DEF Pins, CurrentFile
<1>8. HistoryKnown'
  <2>1. Newest' = Newest /\ entries.hi <= Newest /\ entries.hi \in Int /\ Newest \in Int
    BY <1>0, <1>1 DEF Newest, TypeOK, Manifest, Bounds
  <2>2. \A j \in 1..Len(history): history[j] <= Newest
    BY <1>0, <1>1, Zenon DEF HistoryKnown
  <2>3. key <= Newest
    BY <1>2, <2>1 DEF Key, File, None
  <2>4. \A j \in 1..Len(history'): history'[j] <= Newest'
    BY <1>1, <1>3, <2>1, <2>2, <2>3
  <2> QED
    BY <2>4 DEF HistoryKnown
<1> QED
  BY <1>5, <1>6, <1>7, <1>8 DEF Inv

LEMMA PopStateInv == Inv /\ PopState => Inv'
<1> SUFFICES ASSUME Inv, PopState PROVE Inv'
  OBVIOUS
<1>0. TypeOK /\ Bounds /\ Idle /\ HistoryKnown /\ Pins /\ Consecutive
  BY DEF Inv
<1>1. UNCHANGED <<server, phase, entries, polling>>
  BY DEF PopState
<1>2. PICK to \in {here - 1, here + 1} \cap (1..Len(history)):
        LET target == PopTarget(history[to])
        IN \/ /\ target >= 0
              /\ StartLoad(entries, target, to)
              /\ UNCHANGED <<lastDoc, lastPrevDoc>>
           \/ /\ target < 0
              /\ lastDoc # None
              /\ RenderDoc(lastDoc, lastPrevDoc, to)
              /\ UNCHANGED <<current, loads, box>>
           \/ /\ target < 0
              /\ lastDoc = None
              /\ here' = to
              /\ UNCHANGED <<current, loads, screen, lastDoc, lastPrevDoc, box, history>>
  BY DEF PopState
<1> DEFINE key == history[to]
           target == PopTarget(key)
<1>3. /\ to \in 1..Len(history) /\ key \in Key /\ Len(history) # 1
      /\ entries \in Manifest /\ Proper(entries) /\ current \in -1..Len1(entries) - 1
      /\ entries.hi \in Int /\ Len1(entries) \in Int
  <2>1. /\ entries \in Manifest /\ Proper(entries) /\ current \in -1..Len1(entries) - 1
        /\ entries.hi \in Int /\ Len1(entries) \in Int
    BY <1>0 DEF TypeOK, Bounds, Manifest, Len1
  <2>2. history \in Seq(Key) /\ here \in 1..Len(history) /\ to \in 1..Len(history)
    BY <1>0 DEF TypeOK
  <2>3. key \in Key
    BY <2>2
  <2>4. Len(history) # 1
    <3>1. to = here - 1 \/ to = here + 1
      OBVIOUS
    <3>2. here \in 1..Len(history) /\ to \in 1..Len(history)
      BY <2>2
    <3> SUFFICES ASSUME Len(history) = 1 PROVE FALSE
      OBVIOUS
    <3>3. here = 1 /\ to = 1
      BY <3>2
    <3> QED
      BY <3>1, <3>3
  <2> QED
    BY <2>1, <2>2, <2>3, <2>4
<1>4. /\ target \in -1..Len1(entries) - 1
      /\ target < 0 /\ key # None => key = CurrentFile \/ ~Lists(entries, key)
  <2>1. CASE key = None
    BY <1>3, <2>1, LastIndex DEF PopTarget
  <2>2. CASE key # None /\ Lists(entries, key)
    <3>1. /\ IndexOf(entries, key) \in 0..Len1(entries) - 1
          /\ FileAt(entries, IndexOf(entries, key)) = key
      BY <1>3, <2>2, IndexOfType
    <3>2. CASE IndexOf(entries, key) = current
      BY <1>3, <2>2, <3>1, <3>2 DEF PopTarget, CurrentFile
    <3>3. CASE IndexOf(entries, key) # current
      BY <1>3, <2>2, <3>1, <3>3 DEF PopTarget
    <3> QED
      BY <3>2, <3>3
  <2>3. CASE key # None /\ ~Lists(entries, key)
    BY <1>3, <2>3, IndexOfType DEF PopTarget
  <2> QED
    BY <2>1, <2>2, <2>3
<1>5. CASE /\ target >= 0 /\ StartLoad(entries, target, to)
           /\ UNCHANGED <<lastDoc, lastPrevDoc>>
  <2>1. target \in 0..Len1(entries) - 1
    BY <1>3, <1>4, <1>5
  <2>2. entries.hi > 0 /\ phase = "live"
    BY <1>0, <1>3, <2>1 DEF Idle, NoFiles, Len1, Manifest
  <2>3. entries.hi <= entries.hi /\ entries.lo <= server.lo /\ entries.hi <= server.hi
    BY <1>0, <1>3 DEF Bounds
  <2> HIDE DEF target
  <2> QED
    BY <1>1, <1>3, <1>5, <2>1, <2>2, <2>3, StartLoadInv
<1>6. CASE /\ lastDoc # None /\ RenderDoc(lastDoc, lastPrevDoc, to)
           /\ UNCHANGED <<current, loads, box>>
  <2>1. /\ lastDoc \in Key /\ lastPrevDoc \in Key /\ lastPrevDoc \in {None, lastDoc - 1}
        /\ box' \in 0..MaxFile
    BY <1>0, <1>6 DEF TypeOK, Consecutive, DeltaIsConsecutive
  <2> QED
    BY <1>1, <1>3, <1>6, <2>1, RenderInv
<1>7. CASE /\ target < 0 /\ here' = to
           /\ UNCHANGED <<current, loads, screen, lastDoc, lastPrevDoc, box, history>>
  <2>1. TypeOK'
    BY <1>0, <1>1, <1>3, <1>7 DEF TypeOK
  <2>2. Bounds' /\ Idle' /\ HistoryKnown' /\ Consecutive'
    BY <1>0, <1>1, <1>7
       DEF Bounds, Idle, HistoryKnown, Newest, Consecutive, DeltaIsConsecutive
  <2>3. Pins'
    <3> SUFFICES ASSUME phase = "live", key # None, key # CurrentFile PROVE key < entries.lo
      BY <1>1, <1>7 DEF Pins, CurrentFile
    <3>1. \A j \in 1..Len(history): history[j] <= Newest
      BY <1>0, <1>3, Zenon DEF HistoryKnown
    <3>2. key <= entries.hi
      BY <1>3, <3>1 DEF Newest
    <3>3. ~Lists(entries, key)
      BY <1>4, <1>7
    <3> QED
      BY <1>3, <3>2, <3>3 DEF Lists, Key, File, None, Manifest
  <2> QED
    BY <2>1, <2>2, <2>3 DEF Inv
<1> QED
  BY <1>2, <1>5, <1>6, <1>7

LEMMA ReloadInv == Inv /\ Reload => Inv'
<1> SUFFICES ASSUME Inv, Reload PROVE Inv'
  OBVIOUS
<1>0. TypeOK /\ Bounds /\ Idle /\ HistoryKnown /\ Pins /\ Consecutive
  BY DEF Inv
<1>1. /\ phase' = "boot" /\ entries' = NoFiles /\ current' = -1 /\ loads' = {}
      /\ screen' = [kind |-> "blank", file |-> None] /\ lastDoc' = None /\ lastPrevDoc' = None
      /\ box' = 0 /\ polling' = FALSE /\ UNCHANGED <<server, history, here>>
  BY DEF Reload
<1>2. NoFiles \in Manifest /\ Len1(NoFiles) = 0 /\ NoFiles.lo = 1 /\ NoFiles.hi = 0
  BY ViewerAssumption DEF NoFiles, Manifest, Len1
<1>3. polling' \in BOOLEAN
  BY <1>1, Zenon
<1>4. current' \in -1..Len1(entries') - 1 /\ box' \in 0..MaxFile
  BY <1>1, <1>2, ViewerAssumption
<1>5. screen' \in Screen /\ None \in Key
  BY <1>1 DEF Screen, Key
<1>6. TypeOK'
  BY <1>0, <1>1, <1>2, <1>3, <1>4, <1>5 DEF TypeOK
<1>7. Bounds' /\ Idle' /\ Pins' /\ Consecutive'
  BY <1>0, <1>1, <1>2
     DEF Bounds, Proper, Idle, Pins, Consecutive, DeltaIsConsecutive, TypeOK, Manifest
<1>8. HistoryKnown'
  <2>1. Newest' = server.hi /\ Newest <= server.hi /\ Newest \in Int /\ server.hi \in Int
    BY <1>0, <1>1 DEF Newest, Bounds, TypeOK, Manifest
  <2>2. \A j \in 1..Len(history): history[j] \in Int
    BY <1>0 DEF TypeOK, Key, File, None
  <2> QED
    BY <1>0, <1>1, <2>1, <2>2 DEF HistoryKnown
<1> QED
  BY <1>6, <1>7, <1>8 DEF Inv

-----------------------------------------------------------------------------
LEMMA InvStep == Inv /\ [Next]_vars => Inv'
<1> SUFFICES ASSUME Inv, [Next]_vars PROVE Inv'
  OBVIOUS
<1>1. CASE UNCHANGED vars
  BY <1>1 DEF vars, Inv, TypeOK, Bounds, Idle, HistoryKnown, Newest, Pins, Consecutive,
              DeltaIsConsecutive, CurrentFile
<1>2. CASE Next
  BY <1>2, ServerInv, BootInv, NavInv, AnswerInv, PollInv, PollDoneInv, DeepLinkInv,
     PopStateInv, ReloadInv DEF Next, User
<1> QED
  BY <1>1, <1>2

LEMMA InvAlways == Spec => []Inv
BY InvInit, InvStep, PTL DEF Spec

-----------------------------------------------------------------------------
(* The theorems                                                              *)

(* The page's indices stay inside its manifest and its histories hold keys,  *)
(* whatever loads, polls and Back overlap (app.js:6002-6041, 6222-6246).     *)
THEOREM TypeCorrect == Spec => []TypeOK
<1>1. Inv => TypeOK
  BY DEF Inv
<1> QED
  BY InvAlways, <1>1, PTL

(* A document is compared with its neighbour or with nothing, in whatever    *)
(* order any number of loads end (showSnapshotAt, app.js:6077-6088).         *)
THEOREM DeltasAreConsecutive == Spec => []DeltaIsConsecutive
<1>1. Inv => DeltaIsConsecutive
  BY DEF Inv, Consecutive
<1> QED
  BY InvAlways, <1>1, PTL

(* The URL pins the current window or one that is gone (app.js:327-338).     *)
THEOREM UrlIsCurrent == Spec => []UrlPinsCurrent
<1>1. Inv => UrlPinsCurrent
  <2> SUFFICES ASSUME TypeOK, Pins, phase = "live", screen.kind # "notfound",
                      Lists(entries, history[here])
               PROVE  CurrentFile = history[here]
    BY DEF Inv, UrlPinsCurrent
  <2>1. history[here] \in Int /\ entries.lo \in Int /\ entries.lo >= 1
    BY DEF TypeOK, Manifest, Key, File, None
  <2>2. entries.lo <= history[here]
    BY DEF Lists
  <2>3. history[here] \in {None, CurrentFile} \/ history[here] < entries.lo
    BY DEF Pins
  <2> QED
    BY <2>1, <2>2, <2>3 DEF None
<1> QED
  BY InvAlways, <1>1, PTL

(* A poll keeps the current window while it is listed, however many windows  *)
(* are added behind it or pruned before it (app.js:6016-6034).               *)
THEOREM WindowKept == Spec => PollKeepsWindow
<1> DEFINE A == /\ phase = "live" /\ phase' = "live" /\ entries' # entries
                /\ Lists(entries', CurrentFile)
                => CurrentFile' = CurrentFile
<1>1. Inv /\ [Next]_vars => [A]_vars
  <2> SUFFICES ASSUME Inv, Next, phase = "live", phase' = "live", entries' # entries,
                      Lists(entries', CurrentFile)
               PROVE  CurrentFile' = CurrentFile
    BY DEF vars
  <2>1. PollDone
    BY DEF Next, Append1, Prune, page, BootFails, Boot, User, NavPrev, NavNext, NavFirst,
           NavLast, Jump, ShowSnapshotAt, DeepLink, PopState, Reload, Answer, LoadDone,
           LoadFails, StartPoll, PollFails
  <2>2. entries' = server
    BY <2>1 DEF PollDone
  <2>3. CurrentFile # None
    <3>1. server.lo <= CurrentFile /\ server.lo >= 1 /\ server.lo \in Int
      BY <2>2 DEF Lists, Inv, TypeOK, Manifest
    <3> QED
      BY <3>1 DEF None
  <2> QED
    BY <2>1, <2>2, <2>3, PollDoneFacts
<1> QED
  BY InvAlways, <1>1, PTL DEF Spec, PollKeepsWindow

-----------------------------------------------------------------------------
(* A user who waits for each snapshot: the second invariant                  *)

(* Nothing is lost: a load of the window that is current cannot fail.        *)
Steady == ~FetchFails /\ ~Pruning

(* Back and Forward render the document shown last, which after a failed     *)
(* load is that of another window.                                           *)
Patient == ~Overlap /\ (Steady \/ MaxHistory <= 1)

(* The controls stand for file f, or f has been pruned for good.             *)
Follows(f) == CurrentFile = f \/ f < entries.lo

Waits ==
  /\ MaxHistory <= 1 => Len(history) = 1
  /\ Steady => server.lo = 1
  /\ phase # "live" => lastDoc = None
  /\ \A l, k \in loads: l = k
  /\ \A l \in loads: Follows(l.file)
  /\ screen.kind = "doc" => screen.file = lastDoc /\ loads = {}
  /\ lastDoc # None /\ loads = {} /\ (Steady \/ screen.kind = "doc") => Follows(lastDoc)

LEMMA WaitsInit == Init => Waits
<1> SUFFICES ASSUME Init PROVE Waits
  OBVIOUS
<1>1. Len(history) = 1
  BY DEF Init
<1>2. server.lo = 1
  BY DEF Init
<1> QED
  BY <1>1, <1>2 DEF Init, Waits

LEMMA StartWaits ==
  ASSUME Inv, Waits, loads = {}, NEW i \in 0..Len1(entries') - 1, NEW at \in 1..Len(history),
         entries' \in Manifest, StartLoad(entries', i, at), phase' = "live",
         UNCHANGED <<server, lastDoc>>
  PROVE  Waits'
<1>1. PICK l \in Load: l.file = FileAt(entries', i) /\ loads' = loads \cup {l}
  BY StartLoadFacts DEF Inv
<1>2. current' = i /\ screen'.kind = "loading" /\ Len(history') = Len(history)
  BY StartLoadFacts DEF Inv
<1>3. i >= 0
  OBVIOUS
<1>4. CurrentFile' = l.file
  BY <1>1, <1>2, <1>3 DEF CurrentFile
<1>5. loads' = {l}
  BY <1>1
<1> QED
  BY <1>2, <1>4, <1>5 DEF Waits, Follows

LEMMA BootWaits == Inv /\ Waits /\ Boot => Waits'
<1> SUFFICES ASSUME Inv, Waits, Boot PROVE Waits'
  OBVIOUS
<1> DEFINE t == history[here]
<1>1. /\ phase' = "live" /\ entries' = server /\ UNCHANGED <<server, lastDoc>>
      /\ loads = {} /\ lastDoc = None /\ server.hi > 0
  BY DEF Boot, Inv, Idle, Waits
<1>2. server \in Manifest /\ Proper(server) /\ here \in 1..Len(history) /\ t \in Key
  BY DEF Inv, TypeOK, Bounds
<1>3. CASE t # None /\ ~Lists(server, t)
  BY <1>1, <1>3 DEF Boot, Waits
<1>4. CASE ~(t # None /\ ~Lists(server, t))
  <2> DEFINE i == IF t = None THEN Len1(server) - 1 ELSE IndexOf(server, t)
  <2>1. StartLoad(entries', i, here)
    BY <1>1, <1>4 DEF Boot
  <2>2. i \in 0..Len1(entries') - 1
    BY <1>1, <1>2, <1>4, LastIndex, IndexOfType
  <2> HIDE DEF i
  <2> QED
    BY <1>1, <1>2, <2>1, <2>2, StartWaits
<1> QED
  BY <1>3, <1>4

LEMMA ShowWaits ==
  ASSUME Patient, Inv, Waits, NEW i \in 0..Len1(entries) - 1, ShowSnapshotAt(i)
  PROVE  Waits'
<1>1. /\ loads = {} /\ phase' = "live" /\ UNCHANGED <<server, entries, lastDoc>>
      /\ StartLoad(entries', i, here)
  BY DEF ShowSnapshotAt, Patient
<1>2. entries' \in Manifest /\ here \in 1..Len(history)
  BY <1>1 DEF Inv, TypeOK
<1> QED
  BY <1>1, <1>2, StartWaits

LEMMA AnswerWaits == Inv /\ Waits /\ Answer => Waits'
<1> SUFFICES ASSUME Inv, Waits, NEW l \in loads, LoadDone(l) \/ LoadFails(l) PROVE Waits'
  BY DEF Answer
<1>1. /\ loads' = {} /\ UNCHANGED <<server, phase, entries, current>>
      /\ Follows(l.file) /\ phase = "live"
  BY DEF LoadDone, LoadFails, Waits, Inv, Idle
<1>2. Follows(l.file)'
  BY <1>1 DEF Follows, CurrentFile
<1>3. CASE LoadDone(l)
  <2>1. PICK prev: RenderDoc(l.file, prev, here)
    BY <1>3 DEF LoadDone
  <2>2. screen' = [kind |-> "doc", file |-> l.file] /\ lastDoc' = l.file
    BY <2>1 DEF RenderDoc
  <2>3. Len(history') = Len(history)
    BY <2>1 DEF RenderDoc, ReplaceState, Inv, TypeOK
  <2> QED
    BY <1>1, <1>2, <2>2, <2>3 DEF Waits, Follows
<1>4. CASE LoadFails(l)
  <2>1. l.file \in Int /\ l.file >= 1
    BY DEF Inv, TypeOK, Load, File
  <2>2. ~Steady
    BY <1>4, <2>1 DEF LoadFails, Steady, Waits
  <2> QED
    BY <1>1, <1>4, <2>2 DEF LoadFails, Waits
<1> QED
  BY <1>3, <1>4

LEMMA PollWaits == Inv /\ Waits /\ PollDone => Waits'
<1> SUFFICES ASSUME Inv, Waits, PollDone PROVE Waits'
  OBVIOUS
<1>1. entries' = server /\ UNCHANGED <<server, phase, loads, screen, lastDoc, history>>
  BY DEF PollDone
<1>2. ASSUME NEW f \in Key, f # None, Follows(f) PROVE Follows(f)'
  <2>1. /\ entries.lo \in Int /\ server.lo \in Int /\ entries.lo <= server.lo /\ f \in Int
    BY DEF Inv, TypeOK, Manifest, Bounds, Key, File, None
  <2> QED
    BY <1>1, <1>2, <2>1, PollDoneFacts DEF Follows
<1>3. \A l \in loads: l.file \in Key /\ l.file # None
  BY DEF Inv, TypeOK, Load, Key, File, None
<1>4. lastDoc \in Key
  BY DEF Inv, TypeOK
<1>5. \A l \in loads': Follows(l.file)'
  BY <1>1, <1>2, <1>3 DEF Waits
<1>6. lastDoc' # None /\ loads' = {} /\ (Steady \/ screen'.kind = "doc") => Follows(lastDoc)'
  BY <1>1, <1>2, <1>4 DEF Waits
<1> QED
  BY <1>1, <1>5, <1>6 DEF Waits, Follows

LEMMA HistoryWaits == Patient /\ Inv /\ Waits /\ (DeepLink \/ PopState) => Waits'
<1> SUFFICES ASSUME Patient, Inv, Waits, DeepLink \/ PopState PROVE Waits'
  OBVIOUS
<1>0. /\ here \in 1..Len(history) /\ Len(history) \in Nat /\ MaxHistory \in Nat
      /\ entries \in Manifest /\ Proper(entries) /\ current \in -1..Len1(entries) - 1
      /\ \A j \in 1..Len(history): history[j] \in Key
  BY ViewerAssumption DEF Inv, TypeOK, Bounds
<1>1. CASE DeepLink
  <2>1. /\ screen.kind = "doc" /\ screen' = [kind |-> "doc", file |-> lastDoc]
        /\ UNCHANGED <<server, phase, entries, current, loads, lastDoc>>
    BY <1>1 DEF DeepLink
  <2>2. ~(MaxHistory <= 1)
    BY <1>0, <1>1 DEF DeepLink
  <2> QED
    BY <2>1, <2>2 DEF Waits, Follows, CurrentFile
<1>2. CASE PopState
  <2>1. loads = {} /\ UNCHANGED <<server, phase, entries>>
    BY <1>2 DEF PopState, Patient
  <2>2. PICK to \in {here - 1, here + 1} \cap (1..Len(history)):
          LET target == PopTarget(history[to])
          IN \/ target >= 0 /\ StartLoad(entries, target, to) /\ UNCHANGED lastDoc
             \/ /\ lastDoc # None /\ RenderDoc(lastDoc, lastPrevDoc, to)
                /\ UNCHANGED <<current, loads>>
             \/ UNCHANGED <<current, loads, screen, lastDoc, history>>
    BY <1>2 DEF PopState
  <2>3. Len(history) # 1
    <3>1. to = here - 1 \/ to = here + 1
      OBVIOUS
    <3> SUFFICES ASSUME Len(history) = 1 PROVE FALSE
      OBVIOUS
    <3>2. here = 1 /\ to = 1
      BY <1>0
    <3> QED
      BY <3>1, <3>2
  <2>4. Steady
    BY <2>3 DEF Waits, Patient
  <2> DEFINE target == PopTarget(history[to])
  <2>5. CASE target >= 0 /\ StartLoad(entries, target, to) /\ UNCHANGED lastDoc
    <3>1. target \in 0..Len1(entries) - 1
      <4> DEFINE key == history[to]
      <4>1. key = None => Len1(entries) - 1 \in -1..Len1(entries) - 1
        BY <1>0, LastIndex DEF Len1, Manifest
      <4>2. key # None => IndexOf(entries, key) \in -1..Len1(entries) - 1
        BY <1>0, IndexOfType DEF Len1, Manifest
      <4>3. Len1(entries) \in Int
        BY <1>0 DEF Len1, Manifest
      <4> HIDE DEF key
      <4>4. target \in -1..Len1(entries) - 1
        BY <4>1, <4>2, <4>3 DEF PopTarget, key
      <4> QED
        BY <2>5, <4>3, <4>4
    <3>2. phase' = "live"
      <4>1. entries # NoFiles
        BY <3>1 DEF NoFiles, Len1
      <4> QED
        BY <2>1, <4>1 DEF Inv, Idle
    <3> HIDE DEF target
    <3> QED
      BY <1>0, <2>1, <2>5, <3>1, <3>2, StartWaits
  <2>6. CASE lastDoc # None /\ RenderDoc(lastDoc, lastPrevDoc, to) /\ UNCHANGED <<current, loads>>
    <3>1. screen' = [kind |-> "doc", file |-> lastDoc] /\ lastDoc' = lastDoc
      BY <2>6 DEF RenderDoc
    <3>2. Len(history') = Len(history)
      BY <2>6 DEF RenderDoc, ReplaceState, Inv, TypeOK
    <3> QED
      BY <2>1, <2>4, <2>6, <3>1, <3>2 DEF Waits, Follows, CurrentFile
  <2>7. CASE UNCHANGED <<current, loads, screen, lastDoc, history>>
    BY <2>1, <2>7 DEF Waits, Follows, CurrentFile
  <2> QED
    BY <2>2, <2>5, <2>6, <2>7
<1> QED
  BY <1>1, <1>2

LEMMA WaitsStep == Patient /\ Inv /\ Waits /\ [Next]_vars => Waits'
<1> SUFFICES ASSUME Patient, Inv, Waits, [Next]_vars PROVE Waits'
  OBVIOUS
<1>1. CASE \/ UNCHANGED vars \/ Append1 \/ Prune \/ BootFails \/ StartPoll \/ PollFails
  <2>1. /\ UNCHANGED <<entries, current, loads, screen, lastDoc, history>>
        /\ phase' # "live" => phase # "live"
    BY <1>1 DEF vars, page, Append1, Prune, BootFails, StartPoll, PollFails
  <2>2. Steady => server'.lo = server.lo
    BY <1>1 DEF vars, Append1, Prune, BootFails, StartPoll, PollFails, Steady, Inv, TypeOK, Manifest
  <2> QED
    BY <2>1, <2>2 DEF Waits, Follows, CurrentFile
<1>2. CASE Reload
  BY <1>2 DEF Reload, Waits
<1>3. CASE NavPrev \/ NavNext \/ NavFirst \/ NavLast \/ Jump
  <2>1. PICK i \in 0..Len1(entries) - 1: ShowSnapshotAt(i)
    <3>1. current \in -1..Len1(entries) - 1 /\ Len1(entries) \in Int
      BY DEF Inv, TypeOK, Manifest, Len1
    <3> QED
      BY <1>3, <3>1 DEF NavPrev, NavNext, NavFirst, NavLast, Jump, CanPrev, CanNext,
                        CanFirst, CanLast
  <2> QED
    BY <2>1, ShowWaits
<1> QED
  BY <1>1, <1>2, <1>3, BootWaits, AnswerWaits, PollWaits, HistoryWaits DEF Next, User

(* The document on the screen is the current window's, for a user who waits  *)
(* for each snapshot: with no fetch lost and nothing pruned, through any     *)
(* deep links, Back and Forward; with both, if the session history is not    *)
(* gone back in (app.js:6016-6034, 6077-6098).                               *)
THEOREM ShownIfPatient ==
  ASSUME Patient PROVE Spec => []ShownIsCurrent
<1>1. Inv /\ Waits => ShownIsCurrent
  <2> SUFFICES ASSUME TypeOK, Waits, screen.kind = "doc", loads = {},
                      Lists(entries, screen.file)
               PROVE  CurrentFile = screen.file
    BY DEF Inv, ShownIsCurrent
  <2>1. /\ lastDoc \in Int /\ entries.lo \in Int /\ entries.lo >= 1
    BY DEF TypeOK, Manifest, Key, File, None
  <2>2. entries.lo <= lastDoc /\ screen.file = lastDoc
    BY DEF Waits, Lists
  <2>3. Follows(lastDoc)
    BY <2>1, <2>2 DEF Waits, None
  <2> QED
    BY <2>1, <2>2, <2>3 DEF Follows
<1>2. Inv /\ Waits /\ [Next]_vars => Waits'
  BY WaitsStep
<1> QED
  BY InvAlways, WaitsInit, <1>1, <1>2, PTL DEF Spec
=============================================================================
