-------------------------------- MODULE Page --------------------------------
(* The state of the viewer's page (web/app.js) that a URL carries: section,  *)
(* filters of the ASH report, Merge similar SQL and the other controls; the  *)
(* handlers that change it, the session history, links, reload.  A report on *)
(* a canonical family pins Merge and holds the user's preference meanwhile.  *)
(*                                                                           *)
(* The manifest stays as it is (Viewer models the polls): windows are        *)
(* 1..Windows, the last one the newest.  The dbname of a family link is left *)
(* out: an id that the named database lacks resolves in the dominant one.    *)
EXTENDS Integers, Sequences

CONSTANTS
  Windows,      \* number of snapshots
  Qid,          \* query ids
  NodeId,       \* nodes with a link
  TableId,      \* tables with a link
  Known,        \* window -> ids whose text its document has
  Histograms,   \* windows whose document has latency histograms
  Tier,         \* LATENCY_MIN_TIERS
  Links,        \* URLs a page may be opened with
  Nothing,      \* null; an absent parameter
  MaxEntries,   \* bound: length of the session history
  MaxClicks     \* bound: the user's actions

Window  == 1..Windows
Section == {"pgss", "ycql", "ash", "tablets", "latency"}

(* A URL: canonicalize, merge, templates, flagged stand for =t, dip_p for =f;*)
(* t = 0 when there is none.                                                 *)
Url ==
  [view: Section, t: 0..Windows,
   query: Qid \cup {Nothing}, canonicalize: BOOLEAN,
   node: NodeId \cup {Nothing}, table_id: TableId \cup {Nothing},
   merge: BOOLEAN, templates: BOOLEAN, flagged: BOOLEAN, dip_p: BOOLEAN,
   min_tier: Tier \cup {Nothing}]

ASSUME PageAssumption ==
  /\ Windows \in Nat \ {0}
  /\ Known \in [Window -> SUBSET Qid]
  /\ Histograms \subseteq Window
  /\ "high" \in Tier
  /\ Links \subseteq Url
  /\ Nothing \notin Qid \cup NodeId \cup TableId \cup Tier
  /\ MaxEntries \in Nat \ {0} /\ MaxClicks \in Nat

VARIABLES
  view,      \* the variables of the page, see View
  current,   \* currentIndex
  shown,     \* window of lastDoc, 0: none yet
  ready,     \* are there panels in #app, and not Loading… or an error?
  drawn,     \* the state the panels were drawn from
  pending,   \* windows whose files are awaited
  entries,   \* session history: the URL of each entry
  at,        \* position in it
  clicks     \* the user's actions so far

vars == <<view, current, shown, ready, drawn, pending, entries, at, clicks>>

(* held is mergeSimilarSqlSavedForFamily: {} for null; resolved is           *)
(* canonicalFamilyResolved.                                                  *)
View ==
  [section: Section,
   query: Qid \cup {Nothing}, canonicalize: BOOLEAN,
   node: NodeId \cup {Nothing}, table: TableId \cup {Nothing},
   merge: BOOLEAN, held: {{}, {TRUE}, {FALSE}}, resolved: BOOLEAN,
   templates: BOOLEAN, flagged: BOOLEAN, dipP: BOOLEAN, minTier: Tier]

TypeOK ==
  /\ view \in View
  /\ current \in Window
  /\ shown \in 0..Windows
  /\ ready \in BOOLEAN
  /\ drawn \in View
  /\ pending \subseteq Window
  /\ entries \in Seq(Url) /\ Len(entries) \in 1..MaxEntries
  /\ at \in 1..Len(entries)
  /\ clicks \in 0..MaxClicks

-----------------------------------------------------------------------------
(* The page and its URL                                                      *)

mergeSimilarSqlForUrl(v) == IF v.held # {} THEN TRUE \in v.held ELSE v.merge

FamilyActive(v) == v.canonicalize /\ v.resolved

syncMergeSimilarSqlForFamilyScope_Again(v) ==
  IF FamilyActive(v)
  THEN [v EXCEPT !.held = {v.merge}, !.merge = TRUE]
  ELSE [v EXCEPT !.held = {}, !.merge = mergeSimilarSqlForUrl(v)]

syncMergeSimilarSqlForFamilyScope_KeepsHeld(v) ==
  IF FamilyActive(v)
  THEN [v EXCEPT !.held = IF @ = {} THEN {v.merge} ELSE @, !.merge = TRUE]
  ELSE [v EXCEPT !.merge = mergeSimilarSqlForUrl(v)]

syncMergeSimilarSqlForFamilyScope(v) ==
  IF FamilyActive(v)
  THEN [v EXCEPT !.held = IF @ = {} THEN {v.merge} ELSE @, !.merge = TRUE]
  ELSE [v EXCEPT !.held = {}, !.merge = mergeSimilarSqlForUrl(v)]

ClearAshFilters(v) ==
  [v EXCEPT !.query = Nothing, !.canonicalize = FALSE, !.node = Nothing,
            !.table = Nothing, !.resolved = FALSE]

Toggles_MergeAsShown(v) ==
  [merge |-> v.merge, templates |-> v.merge /\ v.templates,
   flagged |-> v.flagged, dip_p |-> ~v.dipP,
   min_tier |-> IF v.minTier = "high" THEN Nothing ELSE v.minTier]

(* applyViewerToggleParams: only what differs from the defaults.             *)
Toggles(v) ==
  LET merge == mergeSimilarSqlForUrl(v)
  IN [merge |-> merge, templates |-> merge /\ v.templates,
      flagged |-> v.flagged, dip_p |-> ~v.dipP,
      min_tier |-> IF v.minTier = "high" THEN Nothing ELSE v.minTier]

MakeUrl(section, t, query, canonicalize, node, table, toggles) ==
  [view |-> section, t |-> t, query |-> query, canonicalize |-> canonicalize,
   node |-> node, table_id |-> table, merge |-> toggles.merge,
   templates |-> toggles.templates, flagged |-> toggles.flagged,
   dip_p |-> toggles.dip_p, min_tier |-> toggles.min_tier]

(* writeViewerStateToUrl with window i current.                              *)
UrlOf(v, i) ==
  LET t == IF i < Windows THEN i ELSE 0
  IN IF v.section = "ash"
     THEN MakeUrl("ash", t, v.query, v.query # Nothing /\ v.canonicalize,
                  v.node, v.table, Toggles(v))
     ELSE MakeUrl(v.section, t, Nothing, FALSE, Nothing, Nothing, Toggles(v))

readViewerStateFromUrl_AnyTier(v, u) ==
  LET merge == u.merge
      asked ==
        [v EXCEPT !.section = u.view,
                  !.query = u.query,
                  !.canonicalize = u.query # Nothing /\ u.canonicalize,
                  !.node = u.node, !.table = u.table_id,
                  !.merge = merge, !.templates = merge /\ u.templates,
                  !.flagged = u.flagged, !.dipP = ~u.dip_p,
                  !.minTier = u.min_tier]
  IN syncMergeSimilarSqlForFamilyScope(
       IF u.view = "ash" THEN asked ELSE ClearAshFilters(asked))

readViewerStateFromUrl(v, u) ==
  LET merge == u.merge
      asked ==
        [v EXCEPT !.section = u.view,
                  !.query = u.query,
                  !.canonicalize = u.query # Nothing /\ u.canonicalize,
                  !.node = u.node, !.table = u.table_id,
                  !.merge = merge, !.templates = merge /\ u.templates,
                  !.flagged = u.flagged, !.dipP = ~u.dip_p,
                  !.minTier = IF u.min_tier \in Tier THEN u.min_tier ELSE "high"]
  IN syncMergeSimilarSqlForFamilyScope(
       IF u.view = "ash" THEN asked ELSE ClearAshFilters(asked))

(* The variables when the script starts.                                     *)
Fresh ==
  [section |-> "pgss", query |-> Nothing, canonicalize |-> FALSE,
   node |-> Nothing, table |-> Nothing, merge |-> FALSE, held |-> {},
   resolved |-> FALSE, templates |-> FALSE, flagged |-> FALSE, dipP |-> TRUE,
   minTier |-> "high"]

WindowOf(u) == IF u.t = 0 THEN Windows ELSE u.t

-----------------------------------------------------------------------------
(* Rendering                                                                 *)

HasAshFilters(v) == {v.query, v.node, v.table} # {Nothing}

SetSection(v, id) ==
  [syncMergeSimilarSqlForFamilyScope(IF id = "ash" THEN v ELSE ClearAshFilters(v))
     EXCEPT !.section = id]

(* renderDoc resolves the family in the document of window w, then draws the *)
(* panels; buildViewerNav at its end has no Latency tab without histograms.  *)
Panels(v, w) ==
  syncMergeSimilarSqlForFamilyScope(
    [v EXCEPT !.resolved = v.canonicalize /\ v.query \in Known[w]])

Rendered(v, w) ==
  LET p == Panels(v, w)
  IN SetSection(p, IF p.section = "latency" /\ w \notin Histograms THEN "pgss" ELSE p.section)

ReplaceUrl(v, i) == entries' = [entries EXCEPT ![at] = UrlOf(v, i)] /\ UNCHANGED at

(* Show state v: the document on the screen is drawn again.                  *)
RenderDoc(v, w) ==
  /\ view' = Rendered(v, w)
  /\ drawn' = Panels(v, w)
  /\ shown' = w
  /\ ready' = TRUE

(* showSnapshotAt up to the await.                                           *)
StartLoad(v, i) ==
  /\ view' = v
  /\ current' = i
  /\ ready' = FALSE
  /\ pending' = pending \cup {i}
  /\ UNCHANGED <<shown, drawn>>

Boot(u) ==
  LET v == readViewerStateFromUrl(Fresh, u)
  IN /\ view' = v
     /\ current' = WindowOf(u)
     /\ shown' = 0 /\ ready' = FALSE /\ drawn' = Fresh
     /\ pending' = {WindowOf(u)}

-----------------------------------------------------------------------------
(* The user                                                                  *)

Init ==
  \E u \in Links:
    LET v == readViewerStateFromUrl(Fresh, u)
    IN /\ view = v
       /\ current = WindowOf(u)
       /\ shown = 0 /\ ready = FALSE /\ drawn = Fresh
       /\ pending = {WindowOf(u)}
       /\ entries = <<UrlOf(v, WindowOf(u))>> /\ at = 1
       /\ clicks = 0

Click == clicks < MaxClicks /\ clicks' = clicks + 1

(* A control of the panels: they have to be there.                           *)
Control == ready /\ Click /\ UNCHANGED <<current, pending>>

SetViewerSection_NoRedraw(id) ==
  /\ Control
  /\ id = "latency" => shown \in Histograms
  /\ LET v == SetSection(view, id)
     IN view' = v /\ UNCHANGED <<drawn, shown, ready>>
  /\ ReplaceUrl(view', current)

(* A tab.                                                                    *)
SetViewerSection(id) ==
  /\ Control
  /\ id = "latency" => shown \in Histograms
  /\ LET v == SetSection(view, id)
     IN IF id # "ash" /\ HasAshFilters(view) THEN RenderDoc(v, shown)
        ELSE view' = v /\ UNCHANGED <<drawn, shown, ready>>
  /\ ReplaceUrl(view', current)

(* The links of the tables; a family is linked to while Merge is on.         *)
LinkTo == [query: Qid, canonicalize: {FALSE}, node: {Nothing}, table: {Nothing}]
     \cup [query: {Nothing}, canonicalize: {FALSE}, node: NodeId, table: {Nothing}]
     \cup [query: {Nothing}, canonicalize: {FALSE}, node: {Nothing}, table: TableId]
     \cup [query: Qid, canonicalize: {view.merge} \cap {TRUE}, node: {Nothing}, table: {Nothing}]

Navigated(v, link) ==
  [syncMergeSimilarSqlForFamilyScope(
     [v EXCEPT !.query = link.query, !.canonicalize = link.canonicalize,
               !.node = link.node, !.table = link.table,
               !.resolved = @ /\ link.query # Nothing])
     EXCEPT !.section = "ash"]

(* navigateToAshFor…: pushState, then renderDoc.                             *)
Navigate(link) ==
  /\ Control
  /\ at < MaxEntries
  /\ RenderDoc(Navigated(view, link), shown)
  /\ entries' = Append(SubSeq(entries, 1, at), UrlOf(view', current))
  /\ at' = at + 1

Href_NoToggles(v, link) ==
  MakeUrl("ash", 0, link.query, link.canonicalize, link.node, link.table, Toggles(Fresh))

(* buildAsh…Href: the link without its handler; it names no window.          *)
Href(v, link) ==
  MakeUrl("ash", 0, link.query, link.canonicalize, link.node, link.table, Toggles(v))

(* The same link opened in a new tab, which is followed from here on.        *)
OpenInNewTab(link) ==
  /\ ready /\ Click
  /\ Boot(Href(view, link))
  /\ entries' = <<UrlOf(view', current')>>
  /\ at' = 1

Reload ==
  /\ Click
  /\ Boot(entries[at])
  /\ entries' = [entries EXCEPT ![at] = UrlOf(view', current')]
  /\ UNCHANGED at

MergeControl(v) == v.section \in {"pgss", "ycql", "latency"} \/ (v.section = "ash" /\ v.query = Nothing)

ToggleMerge ==
  /\ Control
  /\ MergeControl(view)
  /\ LET v == syncMergeSimilarSqlForFamilyScope([view EXCEPT !.merge = ~@])
     IN RenderDoc([v EXCEPT !.templates = @ /\ v.merge], shown)
  /\ ReplaceUrl(view', current)

ToggleTemplates ==
  /\ Control
  /\ MergeControl(view) /\ view.merge
  /\ RenderDoc([view EXCEPT !.templates = ~@], shown)
  /\ ReplaceUrl(view', current)

(* The controls of the Latency tab draw its own tables again.                *)
SetLatency(tier, flagged, dipP) ==
  /\ Control
  /\ view.section = "latency"
  /\ LET set(v) == [v EXCEPT !.minTier = tier, !.flagged = flagged, !.dipP = dipP]
     IN view' = set(view) /\ drawn' = set(drawn)
  /\ ReplaceUrl(view', current)
  /\ UNCHANGED <<shown, ready>>

ChangeLatency ==
  \/ \E tier \in Tier: SetLatency(tier, view.flagged, view.dipP)
  \/ SetLatency(view.minTier, ~view.flagged, view.dipP)
  \/ SetLatency(view.minTier, view.flagged, ~view.dipP)

(* First, Prev, Next, Last, a bar of the chart, the window-number box.       *)
ShowSnapshotAt(i) ==
  /\ Click
  /\ i # current
  /\ StartLoad(view, i)
  /\ ReplaceUrl(view, i)

(* Back and Forward: an entry without t stands for the newest window.        *)
PopState(position) ==
  LET u == entries[position]
      v == readViewerStateFromUrl(view, u)
  IN /\ Click
     /\ at' = position
     /\ IF WindowOf(u) # current THEN StartLoad(v, WindowOf(u))
        ELSE /\ IF shown # 0 THEN RenderDoc(v, shown)
                ELSE view' = v /\ UNCHANGED <<shown, ready, drawn>>
             /\ UNCHANGED <<current, pending>>
     /\ entries' = IF WindowOf(u) = current /\ shown = 0 THEN entries
                   ELSE [entries EXCEPT ![position] = UrlOf(view', current')]

Back    == at > 1 /\ PopState(at - 1)
Forward == at < Len(entries) /\ PopState(at + 1)

LoadDone(i) ==
  /\ i \in pending
  /\ pending' = pending \ {i}
  /\ RenderDoc(view, i)
  /\ ReplaceUrl(view', current)
  /\ UNCHANGED <<current, clicks>>

LoadFails(i) ==
  /\ i \in pending
  /\ pending' = pending \ {i}
  /\ ready' = FALSE
  /\ UNCHANGED <<view, current, shown, drawn, entries, at, clicks>>

Next ==
  \/ \E id \in Section: SetViewerSection(id)
  \/ \E link \in LinkTo: Navigate(link)
  \/ \E link \in LinkTo: OpenInNewTab(link)
  \/ Reload
  \/ ToggleMerge
  \/ ToggleTemplates
  \/ ChangeLatency
  \/ \E i \in Window: ShowSnapshotAt(i)
  \/ Back
  \/ Forward
  \/ \E i \in pending: LoadDone(i)
  \/ \E i \in pending: LoadFails(i)

Spec == Init /\ [][Next]_vars

-----------------------------------------------------------------------------
(* Properties                                                                *)

(* Merge is pinned, and the user's preference held, exactly while the page   *)
(* stands for a canonical family that its document resolved (app.js:306);    *)
(* filters, and so a pinned Merge, exist in the ASH section only.            *)
MergePinnedOnlyByFamily ==
  /\ view.held # {} <=> FamilyActive(view)
  /\ view.held # {} => view.merge /\ view.query # Nothing
  /\ view.section # "ash" => ~HasAshFilters(view)

EntryToggles(u) ==
  [merge |-> u.merge, templates |-> u.templates, flagged |-> u.flagged,
   dip_p |-> u.dip_p,
   min_tier |-> IF u.min_tier \in Tier \ {"high"} THEN u.min_tier ELSE Nothing]

(* CHANGELOG.md:9: leaving a family report, or a window that cannot resolve  *)
(* the family, does not leave Merge stuck on, and a reload or a copied link  *)
(* keeps the controls.  Nothing but the controls themselves changes the      *)
(* preferences, Back and Forward restore those of the entry.  (While one is  *)
(* held for a family they restore that one instead.)                         *)
ControlsKept ==
  [][/\ Toggles(view') # Toggles(view) =>
          ToggleMerge \/ ToggleTemplates \/ ChangeLatency \/ Back \/ Forward
     /\ (Back \/ Forward) /\ view.held = {} =>
          Toggles(view') = EntryToggles(entries[at'])]_vars

(* What can be seen of a page: templates are shown while Merge is on.        *)
Visible(v) == [v EXCEPT !.templates = @ /\ mergeSimilarSqlForUrl(v)]

(* CHANGELOG.md:9, "a reload or copied link keeps them": the address of a    *)
(* page, read by a new one, leads to the same section, filters and controls. *)
ReloadKeeps ==
  ready /\ shown = current =>
    Visible(Rendered(readViewerStateFromUrl(Fresh, entries[at]), shown)) = Visible(view)

(* The tables on the screen are always those of the controls: whatever       *)
(* changes a filter or, by pinning or releasing it, Merge, draws them again. *)
ScreenShowsControls ==
  ready => Visible([drawn EXCEPT !.section = view.section]) = Visible(view)

(* A link opened in a new tab shows what following it shows, given the same  *)
(* document, although the one starts from the URL and the other from a page  *)
(* that may be holding a preference for another family (app.js:1770-1866).   *)
LinkAsClick ==
  ready => \A link \in LinkTo:
    Visible(Rendered(Navigated(view, link), shown)) =
      Visible(Rendered(readViewerStateFromUrl(Fresh, Href(view, link)), shown))
=============================================================================
