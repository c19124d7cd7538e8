------------------------------- MODULE Viewer -------------------------------
(* The browser viewer (web/app.js): which snapshot is on the screen, which   *)
(* one the navigation controls and the URL stand for, and the fetches and    *)
(* manifest polls that complete in between, in any order.                    *)
(*                                                                           *)
(* A snapshot file is a number; None is no file.  A manifest lists the       *)
(* consecutive files lo..hi (the watcher appends at the end, the GC prunes   *)
(* at the front), so index i of a manifest m is file m.lo + i.               *)
EXTENDS Integers, Sequences, FiniteSets

CONSTANTS
  MaxFile,       \* bound: last snapshot file written
  InitialFiles,  \* number of files there may be when the page is opened
  MaxHistory,    \* bound: length of the session history; 0: no deep links
  Overlap,       \* does the user navigate while a snapshot is loading?
  FetchFails,    \* may a fetch of an existing file fail?
  Pruning        \* does the watcher's GC run?

ASSUME ViewerAssumption ==
  /\ MaxFile \in Nat \ {0}
  /\ InitialFiles \subseteq 0..MaxFile
  /\ MaxHistory \in Nat
  /\ Overlap \in BOOLEAN
  /\ FetchFails \in BOOLEAN
  /\ Pruning \in BOOLEAN

VARIABLES
  server,        \* external: the manifest on the server
  phase,         \* "boot" until the first manifest arrives; "stopped" if it was no use
  entries,       \* manifestEntries
  current,       \* currentIndex
  loads,         \* calls of showSnapshotAt that await their files
  screen,        \* content of #app: [kind, file]
  lastDoc,       \* the document last rendered
  lastPrevDoc,   \* the one it is compared with
  box,           \* the number in the window-number box
  history,       \* session history: the `t` of each entry's URL
  here,          \* position in it
  polling        \* manifestRefreshInFlight

page == <<phase, entries, current, screen, lastDoc, lastPrevDoc, box>>
vars == <<server, phase, entries, current, loads, screen, lastDoc, lastPrevDoc,
          box, history, here, polling>>

File     == 1..MaxFile
None     == 0
Manifest == [lo: 1..MaxFile + 1, hi: 0..MaxFile]
NoFiles  == [lo |-> 1, hi |-> 0]

Len1(m)    == m.hi - m.lo + 1
Lists(m, file) == m.lo <= file /\ file <= m.hi
FileAt(m, i) == m.lo + i
IndexOf(m, file) == IF Lists(m, file) THEN file - m.lo ELSE -1

CurrentFile == IF current >= 0 THEN FileAt(entries, current) ELSE None

Load   == [index: 0..MaxFile - 1, file: File, prev: File \cup {None}, lo: 1..MaxFile + 1]
Screen == [kind: {"blank", "loading", "doc", "error", "notfound"}, file: File \cup {None}]
Key    == File \cup {None}

TypeOK ==
  /\ server \in Manifest
  /\ phase \in {"boot", "live", "stopped"}
  /\ entries \in Manifest
  /\ current \in -1..Len1(entries) - 1
  /\ loads \subseteq Load
  /\ screen \in Screen
  /\ lastDoc \in Key
  /\ lastPrevDoc \in Key
  /\ box \in 0..MaxFile
  /\ history \in Seq(Key)
  /\ here \in 1..Len(history)
  /\ polling \in BOOLEAN

-----------------------------------------------------------------------------
(* The key that writeViewerStateToUrl pins: none on the newest window.       *)
WindowKey(m, i) == IF i >= 0 /\ i < Len1(m) - 1 THEN FileAt(m, i) ELSE None

ReplaceState(at, key) == history' = [history EXCEPT ![at] = key] /\ here' = at

(* renderDoc: it ends with writeViewerStateToUrl, for currentIndex.          *)
RenderDoc(doc, prev, at) ==
  /\ screen' = [kind |-> "doc", file |-> doc]
  /\ lastDoc' = doc
  /\ lastPrevDoc' = prev
  /\ ReplaceState(at, WindowKey(entries, current))

StartLoad_NoUrl(m, i, at) ==
  LET file == FileAt(m, i)
  IN /\ current' = i
     /\ box' = i + 1
     /\ screen' = [kind |-> "loading", file |-> file]
     /\ loads' = loads \cup {[index |-> i, file |-> file, lo |-> server.lo,
                              prev |-> IF i > 0 THEN file - 1 ELSE None]}
     /\ here' = at
     /\ UNCHANGED history

StartLoad_PrevFromScreen(m, i, at) ==
  LET file == FileAt(m, i)
  IN /\ current' = i
     /\ box' = i + 1
     /\ screen' = [kind |-> "loading", file |-> file]
     /\ loads' = loads \cup {[index |-> i, file |-> file, lo |-> server.lo,
                              prev |-> lastDoc]}
     /\ ReplaceState(at, WindowKey(m, i))

StartLoad_AlreadyShown(m, i, at) ==
  LET file == FileAt(m, i)
  IN /\ current' = i
     /\ box' = i + 1
     /\ screen' = [kind |-> "loading", file |-> file]
     /\ loads' = IF file = lastDoc THEN loads
                 ELSE loads \cup {[index |-> i, file |-> file, lo |-> server.lo,
                                   prev |-> IF i > 0 THEN file - 1 ELSE None]}
     /\ ReplaceState(at, WindowKey(m, i))

(* The synchronous part of showSnapshotAt(i), up to the await.               *)
StartLoad(m, i, at) ==
  LET file == FileAt(m, i)
  IN /\ current' = i
     /\ box' = i + 1
     /\ screen' = [kind |-> "loading", file |-> file]
     /\ loads' = loads \cup {[index |-> i, file |-> file, lo |-> server.lo,
                              prev |-> IF i > 0 THEN file - 1 ELSE None]}
     /\ ReplaceState(at, WindowKey(m, i))

-----------------------------------------------------------------------------
Init ==
  /\ \E n \in InitialFiles: server = [lo |-> 1, hi |-> n]
  /\ phase = "boot"
  /\ entries = NoFiles
  /\ current = -1
  /\ loads = {}
  /\ screen = [kind |-> "blank", file |-> None]
  /\ lastDoc = None
  /\ lastPrevDoc = None
  /\ box = 0
  /\ \E t \in Key: history = <<t>>
  /\ here = 1
  /\ polling = FALSE

(* External: the watcher appends to the manifest and prunes it.              *)
Append1 ==
  /\ server.hi < MaxFile
  /\ server' = [server EXCEPT !.hi = @ + 1]
  /\ UNCHANGED <<page, loads, history, here, polling>>

Prune ==
  /\ Pruning
  /\ server.lo < server.hi
  /\ server' = [server EXCEPT !.lo = @ + 1]
  /\ UNCHANGED <<page, loads, history, here, polling>>

-----------------------------------------------------------------------------
(* boot: its continuation after the first manifest.  Only a manifest with    *)
(* entries gets as far as startManifestPolling.                              *)

BootFails ==
  /\ phase = "boot"
  /\ FetchFails \/ server.hi = 0
  /\ phase' = "stopped"
  /\ UNCHANGED <<server, entries, current, loads, screen, lastDoc, lastPrevDoc,
                 box, history, here, polling>>

Boot ==
  /\ phase = "boot"
  /\ server.hi > 0
  /\ phase' = "live"
  /\ entries' = server
  /\ UNCHANGED <<server, lastDoc, lastPrevDoc, polling>>
  /\ LET t == history[here]
     IN IF t # None /\ ~Lists(server, t)
        THEN /\ screen' = [kind |-> "notfound", file |-> t]
             /\ UNCHANGED <<current, loads, box, history, here>>
        ELSE StartLoad(server,
                       IF t = None THEN Len1(server) - 1 ELSE IndexOf(server, t),
                       here)

-----------------------------------------------------------------------------
(* Navigation: buttons, keys, bars and the box all end in showSnapshotAt.    *)

ShowSnapshotAt(i) ==
  /\ phase = "live"
  /\ Overlap \/ loads = {}
  /\ StartLoad(entries, i, here)
  /\ UNCHANGED <<server, phase, entries, lastDoc, lastPrevDoc, polling>>

CanPrev  == current > 0
CanNext  == current < Len1(entries) - 1
CanFirst == current > 0
CanLast  == current < Len1(entries) - 1

NavPrev  == CanPrev  /\ ShowSnapshotAt(current - 1)
NavNext  == CanNext  /\ ShowSnapshotAt(current + 1)
NavFirst == CanFirst /\ ShowSnapshotAt(0)
NavLast  == CanLast  /\ ShowSnapshotAt(Len1(entries) - 1)

(* jumpTo1Based clamps; a bar does not reload the current window.            *)
Jump == \E i \in 0..Len1(entries) - 1: ShowSnapshotAt(i)

(* The answers are there.  A file gone before the request cannot have been   *)
(* fetched; one that is there now may still have failed to arrive.  The      *)
(* previous snapshot is best effort.                                         *)
LoadDone(l) ==
  /\ l.file >= l.lo
  /\ loads' = loads \ {l}
  /\ box' = l.index + 1
  /\ \E prev \in (IF l.prev >= l.lo THEN {l.prev} ELSE {None})
               \cup (IF FetchFails \/ l.prev < server.lo THEN {None} ELSE {}):
       RenderDoc(l.file, prev, here)
  /\ UNCHANGED <<server, phase, entries, current, polling>>

LoadFails(l) ==
  /\ FetchFails \/ l.file < server.lo
  /\ loads' = loads \ {l}
  /\ screen' = [kind |-> "error", file |-> l.file]
  /\ UNCHANGED <<server, phase, entries, current, lastDoc, lastPrevDoc, box,
                 history, here, polling>>

-----------------------------------------------------------------------------
(* refreshManifest                                                           *)

StartPoll_OnNewest ==
  /\ phase = "live"
  /\ ~polling
  /\ current = Len1(entries) - 1
  /\ polling' = TRUE
  /\ UNCHANGED <<server, page, loads, history, here>>

StartPoll ==
  /\ phase = "live"
  /\ ~polling
  /\ polling' = TRUE
  /\ UNCHANGED <<server, page, loads, history, here>>

PollDone_KeepsIndex ==
  /\ polling
  /\ polling' = FALSE
  /\ entries' = server
  /\ box' = IF current >= 0 THEN current + 1 ELSE 1
  /\ UNCHANGED <<server, phase, current, loads, screen, lastDoc, lastPrevDoc, history, here>>

PollDone ==
  /\ polling
  /\ polling' = FALSE
  /\ entries' = server
  /\ current' = IF CurrentFile # None THEN IndexOf(server, CurrentFile)
                ELSE Len1(server) - 1
  /\ box' = IF current' >= 0 THEN current' + 1 ELSE 1
  /\ UNCHANGED <<server, phase, loads, screen, lastDoc, lastPrevDoc, history, here>>

PollFails ==
  /\ polling
  /\ FetchFails
  /\ polling' = FALSE
  /\ UNCHANGED <<server, page, loads, history, here>>

-----------------------------------------------------------------------------
(* Session history.  A deep link (navigateToAshFor...) pushes an entry for   *)
(* the current window and renders the last document again; Back and Forward  *)
(* go through the popstate handler.                                          *)

DeepLink ==
  /\ screen.kind = "doc"
  /\ here < MaxHistory
  /\ history' = Append(SubSeq(history, 1, here), WindowKey(entries, current))
  /\ here' = here + 1
  /\ screen' = [kind |-> "doc", file |-> lastDoc]
  /\ UNCHANGED <<server, phase, entries, current, loads, lastDoc, lastPrevDoc,
                 box, polling>>

(* The window an entry's URL asks for, -1 if it asks for nothing new.        *)
PopTarget(key) ==
  LET i == IF key = None THEN Len1(entries) - 1 ELSE IndexOf(entries, key)
  IN IF i = current THEN -1 ELSE i

PopState ==
  /\ Overlap \/ loads = {}
  /\ UNCHANGED <<server, phase, entries, polling>>
  /\ \E to \in {here - 1, here + 1} \cap (1..Len(history)):
       LET target == PopTarget(history[to])
       IN \/ /\ target >= 0
             /\ StartLoad(entries, target, to)
             /\ UNCHANGED <<lastDoc, lastPrevDoc>>
          \/ /\ target < 0
             /\ lastDoc # None
             /\ RenderDoc(lastDoc, lastPrevDoc, to)
             /\ UNCHANGED <<current, loads, box>>
          \/ /\ target < 0
             /\ lastDoc = None
             /\ here' = to
             /\ UNCHANGED <<current, loads, screen, lastDoc, lastPrevDoc, box, history>>

(* The page is loaded again with the URL it has.                             *)
Reload ==
  /\ phase # "boot"
  /\ MaxHistory > 0
  /\ phase' = "boot"
  /\ entries' = NoFiles
  /\ current' = -1
  /\ loads' = {}
  /\ screen' = [kind |-> "blank", file |-> None]
  /\ lastDoc' = None
  /\ lastPrevDoc' = None
  /\ box' = 0
  /\ polling' = FALSE
  /\ UNCHANGED <<server, history, here>>

User == NavPrev \/ NavNext \/ NavFirst \/ NavLast \/ Jump \/ DeepLink \/ PopState \/ Reload

Answer == \E l \in loads: LoadDone(l) \/ LoadFails(l)

Next ==
  \/ Append1 \/ Prune
  \/ BootFails \/ Boot
  \/ User
  \/ Answer
  \/ StartPoll \/ PollDone \/ PollFails

Spec == Init /\ [][Next]_vars

(* Every request is answered or fails, the poll timer goes off again and     *)
(* again, and a manifest is not always lost.  Users and watchers owe nothing. *)
Fairness ==
  /\ WF_vars(Boot \/ BootFails)
  /\ WF_vars(Answer)
  /\ WF_vars(StartPoll)
  /\ WF_vars(PollDone \/ PollFails)
  /\ SF_vars(PollDone)

FairSpec == Spec /\ Fairness

-----------------------------------------------------------------------------
(* Properties                                                                *)

(* With no request outstanding, the document on the screen is the one that   *)
(* the highlighted bar, the window-number box and the next Prev/Next stand   *)
(* for, unless it has been pruned from the manifest: polls that shift every  *)
(* index while a snapshot loads do not tear the two apart.  It needs a user  *)
(* who waits for a snapshot before asking for another, see below, and who    *)
(* does not go back after a load has failed.                                 *)
ShownIsCurrent ==
  screen.kind = "doc" /\ loads = {} /\ Lists(entries, screen.file)
    => CurrentFile = screen.file

(* A delta is always taken between two consecutive snapshots: whatever loads *)
(* overlap, fail or complete out of order, the document rendered last and    *)
(* the one it is compared with come from one request.                        *)
DeltaIsConsecutive == lastPrevDoc \in {None, lastDoc - 1}

(* The URL never pins a window other than the current one, as long as the    *)
(* pinned one is still listed: a reload comes back to the same snapshot.     *)
UrlPinsCurrent ==
  /\ phase = "live"
  /\ screen.kind # "notfound"
  /\ Lists(entries, history[here])
  => CurrentFile = history[here]

(* A poll never changes the current window while it stays in the manifest,   *)
(* although its index changes.                                               *)
PollKeepsWindow ==
  [][phase = "live" /\ phase' = "live" /\ entries' # entries
     /\ Lists(entries', CurrentFile)
     => CurrentFile' = CurrentFile]_vars

(* "Loading..." is always followed by a document or an error.                *)
LoadingEnds == (screen.kind = "loading") ~> (screen.kind # "loading")

(* A viewer that is polling learns of every snapshot that is written.        *)
CatchesUp ==
  \A f \in File:
    (phase = "live" /\ server.hi >= f) ~> (entries.hi >= f \/ phase # "live")

(* What the documentation says and the code does not do.                     *)

(* CHANGELOG.md:36, "the bar for the current window is highlighted", with a  *)
(* user who does not wait: the answer that comes last wins the screen.       *)
HighlightIsShown ==
  screen.kind = "doc" /\ loads = {} => CurrentFile \in {screen.file, None}

(* CHANGELOG.md:38, "a new arrival does not yank them to the newest": a poll *)
(* never makes another window current.                                       *)
PollNeverYanks ==
  [][polling /\ ~polling' /\ screen.kind = "doc" /\ screen.file # None
     => CurrentFile' \in {CurrentFile, None}]_vars

(* CHANGELOG.md:38, "The viewer re-fetches ybtop.manifest.json every 30 s":  *)
(* a page opened before the first snapshot finds it.                         *)
FirstSnapshotAppears == (server.hi > 0) ~> (entries.hi > 0)
=============================================================================
