-------------------------- MODULE SnapshotArchive --------------------------
(* What the output directory of `ybtop watch` promises to a reader who has   *)
(* only ybtop.manifest.json: an index that grows by one entry per published  *)
(* snapshot, that loses an entry only by age, and whose unexpired entries    *)
(* can all be opened.  How the files get there is SnapshotStore's business.  *)
EXTENDS Integers

CONSTANTS
  MaxClock,      \* last second of the bounded run
  MaxDocs,       \* number of snapshot documents ever produced
  Retention      \* --snapshot-retention-hours, in seconds; 0 disables pruning

VARIABLES
  clock,         \* seconds
  listed,        \* the entries of the index: [doc, file]
  readable,      \* the documents that can be opened: [doc, file]
  analysed       \* documents whose index entry names an analysis sidecar

avars == <<clock, listed, readable, analysed>>

Second == 0..MaxClock
Doc    == 1..MaxDocs
Copy   == [doc: Doc, file: Second]

(* A file is named after the second it was generated in; by retention it may *)
(* go once that second is more than Retention in the past.                   *)
Expired(second) == Retention > 0 /\ second + Retention < clock

-----------------------------------------------------------------------------
Init ==
  /\ clock = 0
  /\ listed = {}
  /\ readable = {}
  /\ analysed = {}

Tick ==
  /\ clock < MaxClock
  /\ clock' = clock + 1
  /\ UNCHANGED <<listed, readable, analysed>>

(* A new document becomes openable, before anything refers to it.            *)
Store(c) ==
  /\ c.file <= clock
  /\ \A r \in readable \cup listed: r.doc < c.doc /\ r.file < c.file
  /\ readable' = readable \cup {c}
  /\ UNCHANGED <<clock, listed, analysed>>

(* The newest document enters the index, at its end.                         *)
Publish(c) ==
  /\ c \in readable
  /\ \A r \in listed: r.doc < c.doc
  /\ listed' = listed \cup {c}
  /\ UNCHANGED <<clock, readable, analysed>>

(* The entry of a listed document starts to name its sidecar.                *)
Annotate(c) ==
  /\ c \in listed
  /\ analysed' = analysed \cup {c.doc}
  /\ UNCHANGED <<clock, listed, readable>>

(* An expired document goes.                                                 *)
Remove(c) ==
  /\ c \in readable
  /\ Expired(c.file)
  /\ readable' = readable \ {c}
  /\ UNCHANGED <<clock, listed, analysed>>

(* The index drops expired entries, and only those.                          *)
Prune(gone) ==
  /\ gone \subseteq listed
  /\ \A c \in gone: Expired(c.file)
  /\ listed' = listed \ gone
  /\ analysed' = analysed \ {c.doc: c \in gone}
  /\ UNCHANGED <<clock, readable>>

Next ==
  \/ Tick
  \/ \E c \in Copy: Store(c) \/ Publish(c) \/ Annotate(c) \/ Remove(c)
  \/ \E gone \in SUBSET listed: Prune(gone)

Spec == Init /\ [][Next]_avars

=============================================================================
