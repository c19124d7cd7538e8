------------------------------ MODULE PageProofs ------------------------------
(* Proofs about Page, for any windows, documents, links and history: types,  *)
(* the pinned Merge, what the screen, the address and the links stand for.   *)
(* Everything rests on one observation: what is rendered depends on a state  *)
(* only through its filters and its preferences (RenderedSame), and pinning  *)
(* or releasing Merge does not change the preferences (SyncKeepsPreference). *)
(* At the end, Tooltips for any texts and any movements of the pointer.      *)
EXTENDS Page, Tooltips, TLAPS

USE DEF Section

-----------------------------------------------------------------------------
(* States of the page                                                        *)

(* A family needs an id, and other sections have no filters.                 *)
Scoped(v) ==
  /\ v \in View
  /\ v.canonicalize => v.query # Nothing
  /\ v.section # "ash" => ~HasAshFilters(v)

(* Merge is pinned, and the preference held, exactly for a family.           *)
Pinned(v) ==
  /\ v.held # {} <=> FamilyActive(v)
  /\ v.held # {} => v.merge

(* The state is one that window w can be rendered in.                        *)
Resolved(v, w) ==
  /\ v.resolved = (v.canonicalize /\ v.query \in Known[w])
  /\ v.section = "latency" => w \in Histograms

(* Equal in all that the pinning of Merge leaves alone.                      *)
SameButMerge(a, b) ==
  /\ a.section = b.section /\ a.query = b.query /\ a.canonicalize = b.canonicalize
  /\ a.node = b.node /\ a.table = b.table /\ a.resolved = b.resolved
  /\ a.templates = b.templates /\ a.flagged = b.flagged /\ a.dipP = b.dipP
  /\ a.minTier = b.minTier

LEMMA NotTrue ==
  ASSUME NEW b \in BOOLEAN, ~b
  PROVE  b = FALSE
  OBVIOUS

LEMMA PreferenceType ==
  ASSUME NEW v \in View
  PROVE  mergeSimilarSqlForUrl(v) \in BOOLEAN
<1>1. CASE v.held = {}
  BY <1>1 DEF View, mergeSimilarSqlForUrl
<1>2. CASE v.held # {}
  <2>1. (TRUE \in v.held) \in BOOLEAN
    OBVIOUS
  <2> QED
    BY <1>2, <2>1, Zenon DEF mergeSimilarSqlForUrl
<1> QED
  BY <1>1, <1>2

LEMMA SyncType ==
  ASSUME NEW v \in View
  PROVE  /\ syncMergeSimilarSqlForFamilyScope(v) \in View
         /\ SameButMerge(syncMergeSimilarSqlForFamilyScope(v), v)
  BY PreferenceType DEF View, SameButMerge, syncMergeSimilarSqlForFamilyScope

LEMMA SyncPins ==
  ASSUME NEW v \in View
  PROVE  Pinned(syncMergeSimilarSqlForFamilyScope(v))
  BY PreferenceType DEF View, Pinned, FamilyActive, syncMergeSimilarSqlForFamilyScope

LEMMA SyncKeepsPreference ==
  ASSUME NEW v \in View
  PROVE  mergeSimilarSqlForUrl(syncMergeSimilarSqlForFamilyScope(v)) = mergeSimilarSqlForUrl(v)
<1> DEFINE s == syncMergeSimilarSqlForFamilyScope(v)
<1>1. CASE FamilyActive(v) /\ v.held = {}
  <2>1. s.held = {v.merge}
    BY <1>1 DEF View, syncMergeSimilarSqlForFamilyScope
  <2>2. v.merge \in BOOLEAN
    BY DEF View
  <2>3. (TRUE \in {v.merge}) = v.merge
    <3>1. CASE v.merge = TRUE
      <4>1. (TRUE \in {TRUE}) = TRUE
        BY Zenon
      <4> QED
        BY <3>1, <4>1, Zenon
    <3>2. CASE v.merge = FALSE
      <4>1. TRUE \notin {FALSE}
        OBVIOUS
      <4>2. (TRUE \in {FALSE}) \in BOOLEAN
        OBVIOUS
      <4>3. (TRUE \in {FALSE}) = FALSE
        BY <4>1, <4>2, NotTrue, Zenon
      <4> QED
        BY <3>2, <4>3, Zenon
    <3> QED
      BY <2>2, <3>1, <3>2
  <2> QED
    BY <1>1, <2>1, <2>3 DEF mergeSimilarSqlForUrl
<1>2. CASE FamilyActive(v) /\ v.held # {}
  <2>1. s.held = v.held
    BY <1>2 DEF View, syncMergeSimilarSqlForFamilyScope
  <2> QED
    BY <1>2, <2>1 DEF mergeSimilarSqlForUrl
<1>3. CASE ~FamilyActive(v)
  <2>1. s.held = {} /\ s.merge = mergeSimilarSqlForUrl(v)
    BY <1>3 DEF View, syncMergeSimilarSqlForFamilyScope
  <2> QED
    BY <2>1 DEF mergeSimilarSqlForUrl
<1> QED
  BY <1>1, <1>2, <1>3

LEMMA SyncIdle ==
  ASSUME NEW v \in View, Pinned(v)
  PROVE  syncMergeSimilarSqlForFamilyScope(v) = v
  BY DEF View, Pinned, FamilyActive, mergeSimilarSqlForUrl, syncMergeSimilarSqlForFamilyScope

(* Pinned states with the same filters and preference have the same Merge.   *)
LEMMA PinnedSame ==
  ASSUME NEW a \in View, NEW b \in View, Pinned(a), Pinned(b),
         a.canonicalize = b.canonicalize, a.resolved = b.resolved,
         mergeSimilarSqlForUrl(a) = mergeSimilarSqlForUrl(b)
  PROVE  a.held = b.held /\ a.merge = b.merge
  BY DEF View, Pinned, FamilyActive, mergeSimilarSqlForUrl

-----------------------------------------------------------------------------
(* URLs and rendering                                                        *)

LEMMA ClearType ==
  ASSUME NEW v \in View
  PROVE  LET c == ClearAshFilters(v)
         IN /\ c \in View /\ ~HasAshFilters(c) /\ ~c.canonicalize /\ ~c.resolved
            /\ c.query = Nothing /\ c.node = Nothing /\ c.table = Nothing
            /\ c.section = v.section /\ c.held = v.held /\ c.merge = v.merge
            /\ c.templates = v.templates /\ c.flagged = v.flagged
            /\ c.dipP = v.dipP /\ c.minTier = v.minTier
  BY DEF View, ClearAshFilters, HasAshFilters

(* What the script starts with can be shown.                                 *)
LEMMA FreshView == Fresh \in View /\ Pinned(Fresh)
  BY PageAssumption DEF Fresh, View, Pinned, FamilyActive

(* The state that a URL asks for, before Merge is pinned or released.        *)
Asked(v, u) ==
  LET asked ==
        [v EXCEPT !.section = u.view,
                  !.query = u.query,
                  !.canonicalize = u.query # Nothing /\ u.canonicalize,
                  !.node = u.node, !.table = u.table_id,
                  !.merge = u.merge, !.templates = u.merge /\ u.templates,
                  !.flagged = u.flagged, !.dipP = ~u.dip_p,
                  !.minTier = IF u.min_tier \in Tier THEN u.min_tier ELSE "high"]
  IN IF u.view = "ash" THEN asked ELSE ClearAshFilters(asked)

LEMMA ReadAsked ==
  ASSUME NEW v, NEW u
  PROVE  readViewerStateFromUrl(v, u) = syncMergeSimilarSqlForFamilyScope(Asked(v, u))
  BY DEF readViewerStateFromUrl, Asked

LEMMA AskedType ==
  ASSUME NEW v \in View, NEW u \in Url
  PROVE  LET a == Asked(v, u)
         IN /\ Scoped(a)
            /\ a.section = u.view /\ a.held = v.held /\ a.merge = u.merge
            /\ a.templates = (u.merge /\ u.templates) /\ a.flagged = u.flagged
            /\ a.dipP = ~u.dip_p
            /\ a.minTier = IF u.min_tier \in Tier THEN u.min_tier ELSE "high"
            /\ u.view = "ash" =>
                 /\ a.query = u.query /\ a.node = u.node /\ a.table = u.table_id
                 /\ a.canonicalize = (u.query # Nothing /\ u.canonicalize)
            /\ a.resolved => v.resolved
<1> DEFINE canonicalize == u.query # Nothing /\ u.canonicalize
           templates == u.merge /\ u.templates
           dipP == ~u.dip_p
           tier == IF u.min_tier \in Tier THEN u.min_tier ELSE "high"
           asked ==
             [v EXCEPT !.section = u.view, !.query = u.query, !.canonicalize = canonicalize,
                       !.node = u.node, !.table = u.table_id,
                       !.merge = u.merge, !.templates = templates,
                       !.flagged = u.flagged, !.dipP = dipP, !.minTier = tier]
<1>1. /\ asked \in View
      /\ asked.section = u.view /\ asked.held = v.held /\ asked.merge = u.merge
      /\ asked.templates = templates /\ asked.flagged = u.flagged
      /\ asked.dipP = dipP /\ asked.minTier = tier
      /\ asked.query = u.query /\ asked.node = u.node /\ asked.table = u.table_id
      /\ asked.canonicalize = canonicalize /\ asked.resolved = v.resolved
  <2>1. /\ u.view \in Section /\ u.query \in Qid \cup {Nothing}
        /\ u.node \in NodeId \cup {Nothing} /\ u.table_id \in TableId \cup {Nothing}
        /\ u.merge \in BOOLEAN /\ u.flagged \in BOOLEAN
    BY DEF Url
  <2>2. {canonicalize, templates, dipP} \subseteq BOOLEAN /\ tier \in Tier
    BY PageAssumption DEF Url
  <2> HIDE DEF canonicalize, templates, dipP, tier
  <2> QED
    BY <2>1, <2>2 DEF View
<1>2. Asked(v, u) = IF u.view = "ash" THEN asked ELSE ClearAshFilters(asked)
  BY DEF Asked
<1> HIDE DEF asked, tier
<1>3. CASE u.view = "ash"
  <2>1. Asked(v, u) = asked
    BY <1>2, <1>3
  <2>2. Scoped(asked)
    BY <1>1, <1>3 DEF Scoped
  <2> QED
    BY <1>1, <1>3, <2>1, <2>2, Zenon DEF tier
<1>4. CASE u.view # "ash"
  <2>1. Asked(v, u) = ClearAshFilters(asked)
    BY <1>2, <1>4
  <2>2. Scoped(ClearAshFilters(asked))
    BY <1>1, ClearType DEF Scoped
  <2> DEFINE c == ClearAshFilters(asked)
  <2>3. /\ c.section = u.view /\ c.held = v.held /\ c.merge = u.merge
        /\ c.templates = templates /\ c.flagged = u.flagged
        /\ c.dipP = dipP /\ c.minTier = tier /\ ~c.resolved
    BY <1>1, ClearType, Zenon
  <2> QED
    BY <1>4, <2>1, <2>2, <2>3, Zenon DEF tier
<1> QED
  BY <1>3, <1>4

LEMMA ReadType ==
  ASSUME NEW v \in View, NEW u \in Url
  PROVE  Scoped(readViewerStateFromUrl(v, u)) /\ Pinned(readViewerStateFromUrl(v, u))
<1> DEFINE a == Asked(v, u)
<1>1. Scoped(a) /\ a \in View
  BY AskedType DEF Scoped
<1>2. readViewerStateFromUrl(v, u) = syncMergeSimilarSqlForFamilyScope(a)
  BY ReadAsked
<1> HIDE DEF a
<1> QED
  BY <1>1, <1>2, SyncType, SyncPins DEF Scoped, SameButMerge, HasAshFilters

LEMMA ReadResolved ==
  ASSUME NEW v \in View, NEW u \in Url, ~v.resolved
  PROVE  ~readViewerStateFromUrl(v, u).resolved
<1> DEFINE a == Asked(v, u)
<1>1. a \in View /\ ~a.resolved
  BY AskedType DEF Scoped
<1>2. readViewerStateFromUrl(v, u) = syncMergeSimilarSqlForFamilyScope(a)
  BY ReadAsked
<1> HIDE DEF a
<1> QED
  BY <1>1, <1>2, SyncType DEF SameButMerge

LEMMA SectionType ==
  ASSUME NEW v \in View, NEW id \in Section
  PROVE  LET c == [v EXCEPT !.section = id]
         IN /\ c \in View /\ c.section = id
            /\ c.query = v.query /\ c.canonicalize = v.canonicalize
            /\ c.node = v.node /\ c.table = v.table
            /\ c.held = v.held /\ c.merge = v.merge /\ c.resolved = v.resolved
            /\ c.templates = v.templates /\ c.flagged = v.flagged
            /\ c.dipP = v.dipP /\ c.minTier = v.minTier
  BY DEF View

LEMMA SetSectionType ==
  ASSUME NEW v, Scoped(v), NEW id \in Section
  PROVE  /\ Scoped(SetSection(v, id)) /\ Pinned(SetSection(v, id))
         /\ SetSection(v, id).section = id
<1> DEFINE c == IF id = "ash" THEN v ELSE ClearAshFilters(v)
           s == syncMergeSimilarSqlForFamilyScope(c)
<1>1. /\ c \in View /\ (c.canonicalize => c.query # Nothing)
      /\ id # "ash" => ~HasAshFilters(c)
  BY ClearType DEF Scoped
<1>2. s \in View /\ SameButMerge(s, c) /\ Pinned(s)
  BY <1>1, SyncType, SyncPins
<1>3. SetSection(v, id) = [s EXCEPT !.section = id]
  BY DEF SetSection
<1> HIDE DEF c, s
<1> DEFINE x == [s EXCEPT !.section = id]
<1>4. /\ x \in View /\ x.section = id
      /\ x.query = s.query /\ x.canonicalize = s.canonicalize
      /\ x.node = s.node /\ x.table = s.table
      /\ x.held = s.held /\ x.merge = s.merge /\ x.resolved = s.resolved
  BY <1>2, SectionType
<1> HIDE DEF x
<1>5. Pinned(x)
  BY <1>2, <1>4 DEF Pinned, FamilyActive
<1>6. x.canonicalize => x.query # Nothing
  BY <1>1, <1>2, <1>4 DEF SameButMerge
<1>7. id # "ash" => ~HasAshFilters(x)
  BY <1>1, <1>2, <1>4 DEF SameButMerge, HasAshFilters
<1>8. SetSection(v, id) = x
  BY <1>3 DEF x
<1> QED
  BY <1>4, <1>5, <1>6, <1>7, <1>8 DEF Scoped

LEMMA PanelsType ==
  ASSUME NEW v, Scoped(v), NEW w \in Window
  PROVE  LET p == Panels(v, w)
         IN /\ Scoped(p) /\ Pinned(p)
            /\ SameButMerge(p, [v EXCEPT !.resolved = v.canonicalize /\ v.query \in Known[w]])
            /\ p.resolved = (p.canonicalize /\ p.query \in Known[w])
            /\ p.section = v.section
<1> DEFINE r == [v EXCEPT !.resolved = v.canonicalize /\ v.query \in Known[w]]
           s == syncMergeSimilarSqlForFamilyScope(r)
<1>1. r \in View /\ Scoped(r)
      /\ r.resolved = (r.canonicalize /\ r.query \in Known[w])
      /\ r.section = v.section
  BY DEF Scoped, View, HasAshFilters
<1>2. s \in View /\ SameButMerge(s, r) /\ Pinned(s)
  BY <1>1, SyncType, SyncPins
<1>3. Panels(v, w) = s
  BY DEF Panels
<1> HIDE DEF r, s
<1> QED
  BY <1>1, <1>2, <1>3 DEF Scoped, SameButMerge, HasAshFilters, r

LEMMA RenderedType ==
  ASSUME NEW v, Scoped(v), NEW w \in Window
  PROVE  /\ Scoped(Rendered(v, w)) /\ Pinned(Rendered(v, w)) /\ Resolved(Rendered(v, w), w)
         /\ Visible([Panels(v, w) EXCEPT !.section = Rendered(v, w).section])
              = Visible(Rendered(v, w))
         /\ Rendered(v, w) =
              [Panels(v, w) EXCEPT !.section =
                 IF @ = "latency" /\ w \notin Histograms THEN "pgss" ELSE @]
<1> DEFINE p == Panels(v, w)
           id == IF p.section = "latency" /\ w \notin Histograms THEN "pgss" ELSE p.section
<1>1. Scoped(p) /\ Pinned(p) /\ p.resolved = (p.canonicalize /\ p.query \in Known[w])
  BY PanelsType
<1>2. id \in Section
  BY <1>1 DEF Scoped, View
<1>3. Rendered(v, w) = SetSection(p, id)
  BY DEF Rendered
<1>4. (IF id = "ash" THEN p ELSE ClearAshFilters(p)) = p
  <2>1. CASE id = "ash"
    BY <2>1
  <2>2. CASE id # "ash"
    <3>1. ~HasAshFilters(p) /\ ~p.canonicalize /\ ~p.resolved
      BY <1>1, <2>2 DEF Scoped, HasAshFilters
    <3> QED
      BY <1>1, <2>2, <3>1 DEF Scoped, View, HasAshFilters, ClearAshFilters
  <2> QED
    BY <2>1, <2>2
<1>5. syncMergeSimilarSqlForFamilyScope(p) = p
  BY <1>1, SyncIdle DEF Scoped
<1>6. SetSection(p, id) = [p EXCEPT !.section = id]
  BY <1>4, <1>5 DEF SetSection
<1>7. SetSection(p, id).section = id
  BY <1>1, <1>6 DEF Scoped, View
<1>8. Scoped(Rendered(v, w)) /\ Pinned(Rendered(v, w))
  BY <1>1, <1>2, <1>3, SetSectionType
<1>9. Resolved(Rendered(v, w), w)
  <2>1. Rendered(v, w) = [p EXCEPT !.section = id]
    BY <1>3, <1>6
  <2>2. id = "latency" => w \in Histograms
    OBVIOUS
  <2> HIDE DEF p, id
  <2> QED
    BY <1>1, <1>2, <2>1, <2>2, SectionType DEF Resolved, Scoped
<1>10. [p EXCEPT !.section = id] =
         [p EXCEPT !.section = IF @ = "latency" /\ w \notin Histograms THEN "pgss" ELSE @]
  BY <1>1 DEF Scoped, View
<1> QED
  BY <1>3, <1>6, <1>7, <1>8, <1>9, <1>10

LEMMA ViewEqual ==
  ASSUME NEW a \in View, NEW b \in View, SameButMerge(a, b),
         a.held = b.held, a.merge = b.merge
  PROVE  a = b
  BY DEF View, SameButMerge

LEMMA VisibleType ==
  ASSUME NEW v \in View
  PROVE  LET x == Visible(v)
         IN /\ x \in View
            /\ x.section = v.section /\ x.query = v.query /\ x.canonicalize = v.canonicalize
            /\ x.node = v.node /\ x.table = v.table
            /\ x.held = v.held /\ x.merge = v.merge /\ x.resolved = v.resolved
            /\ x.templates = (v.templates /\ mergeSimilarSqlForUrl(v))
            /\ x.flagged = v.flagged /\ x.dipP = v.dipP /\ x.minTier = v.minTier
<1> DEFINE templates == v.templates /\ mergeSimilarSqlForUrl(v)
<1>1. templates \in BOOLEAN
  BY PreferenceType DEF View
<1>2. Visible(v) = [v EXCEPT !.templates = templates]
  BY DEF Visible
<1> HIDE DEF templates
<1>3. /\ Visible(v) \in View
      /\ Visible(v).templates = templates
      /\ Visible(v).section = v.section /\ Visible(v).query = v.query
      /\ Visible(v).canonicalize = v.canonicalize
      /\ Visible(v).node = v.node /\ Visible(v).table = v.table
      /\ Visible(v).held = v.held /\ Visible(v).merge = v.merge
      /\ Visible(v).resolved = v.resolved /\ Visible(v).flagged = v.flagged
      /\ Visible(v).dipP = v.dipP /\ Visible(v).minTier = v.minTier
  BY <1>1, <1>2 DEF View
<1> QED
  BY <1>3, Zenon DEF templates

LEMMA VisibleEqual ==
  ASSUME NEW x \in View, NEW y \in View,
         x.section = y.section, x.query = y.query, x.canonicalize = y.canonicalize,
         x.node = y.node, x.table = y.table, x.resolved = y.resolved,
         x.flagged = y.flagged, x.dipP = y.dipP, x.minTier = y.minTier,
         x.held = y.held, x.merge = y.merge,
         (x.templates /\ mergeSimilarSqlForUrl(x)) = (y.templates /\ mergeSimilarSqlForUrl(y))
  PROVE  Visible(x) = Visible(y)
<1>1. /\ Visible(x) \in View /\ Visible(y) \in View
      /\ SameButMerge(Visible(x), Visible(y))
      /\ Visible(x).held = Visible(y).held /\ Visible(x).merge = Visible(y).merge
  BY VisibleType DEF SameButMerge
<1> QED
  BY <1>1, ViewEqual

(* Rendering keeps the preferences, and all but the section and the family.  *)
LEMMA RenderedKeeps ==
  ASSUME NEW v, Scoped(v), NEW w \in Window
  PROVE  LET r == Rendered(v, w)
         IN /\ mergeSimilarSqlForUrl(r) = mergeSimilarSqlForUrl(v)
            /\ r.query = v.query /\ r.canonicalize = v.canonicalize
            /\ r.node = v.node /\ r.table = v.table
            /\ r.templates = v.templates /\ r.flagged = v.flagged
            /\ r.dipP = v.dipP /\ r.minTier = v.minTier
            /\ r.resolved = (v.canonicalize /\ v.query \in Known[w])
            /\ r.section = IF v.section = "latency" /\ w \notin Histograms THEN "pgss"
                           ELSE v.section
<1> DEFINE resolved == v.canonicalize /\ v.query \in Known[w]
           q == [v EXCEPT !.resolved = resolved]
           p == Panels(v, w)
           id == IF v.section = "latency" /\ w \notin Histograms THEN "pgss" ELSE v.section
           r == Rendered(v, w)
<1>1. resolved \in BOOLEAN /\ v \in View /\ id \in Section
  BY DEF Scoped, View
<1>2. p = syncMergeSimilarSqlForFamilyScope(q)
  BY DEF Panels
<1>3. Scoped(p) /\ p.section = v.section
  BY PanelsType
<1>4. r = [p EXCEPT !.section = id]
  <2>1. r = [p EXCEPT !.section =
               IF @ = "latency" /\ w \notin Histograms THEN "pgss" ELSE @]
    BY RenderedType
  <2> QED
    BY <1>3, <2>1 DEF Scoped, View
<1> HIDE DEF resolved, p, id, r
<1>5. /\ q \in View /\ q.resolved = resolved /\ q.held = v.held /\ q.merge = v.merge
      /\ q.query = v.query /\ q.canonicalize = v.canonicalize
      /\ q.node = v.node /\ q.table = v.table /\ q.templates = v.templates
      /\ q.flagged = v.flagged /\ q.dipP = v.dipP /\ q.minTier = v.minTier
  BY <1>1 DEF View
<1> HIDE DEF q
<1>6. mergeSimilarSqlForUrl(q) = mergeSimilarSqlForUrl(v)
  BY <1>5 DEF mergeSimilarSqlForUrl
<1>7. SameButMerge(p, q) /\ mergeSimilarSqlForUrl(p) = mergeSimilarSqlForUrl(q)
  BY <1>2, <1>5, SyncType, SyncKeepsPreference
<1>8. /\ r.section = id
      /\ r.query = p.query /\ r.canonicalize = p.canonicalize
      /\ r.node = p.node /\ r.table = p.table
      /\ r.held = p.held /\ r.merge = p.merge /\ r.resolved = p.resolved
      /\ r.templates = p.templates /\ r.flagged = p.flagged
      /\ r.dipP = p.dipP /\ r.minTier = p.minTier
  BY <1>1, <1>3, <1>4, SectionType DEF Scoped
<1>9. mergeSimilarSqlForUrl(r) = mergeSimilarSqlForUrl(p)
  BY <1>8 DEF mergeSimilarSqlForUrl
<1>10. /\ r.query = v.query /\ r.canonicalize = v.canonicalize
       /\ r.node = v.node /\ r.table = v.table
       /\ r.templates = v.templates /\ r.flagged = v.flagged
       /\ r.dipP = v.dipP /\ r.minTier = v.minTier
       /\ r.resolved = resolved
  BY <1>5, <1>7, <1>8 DEF SameButMerge
<1> QED
  BY <1>6, <1>7, <1>8, <1>9, <1>10, Zenon DEF resolved, id, r

(* What is seen of a state is a matter of its filters and preferences.       *)
LEMMA RenderedSame ==
  ASSUME NEW a, NEW b, Scoped(a), Scoped(b), NEW w \in Window,
         a.section = b.section, a.query = b.query, a.canonicalize = b.canonicalize,
         a.node = b.node, a.table = b.table, a.flagged = b.flagged,
         a.dipP = b.dipP, a.minTier = b.minTier,
         mergeSimilarSqlForUrl(a) = mergeSimilarSqlForUrl(b),
         (a.templates /\ mergeSimilarSqlForUrl(a)) = (b.templates /\ mergeSimilarSqlForUrl(b))
  PROVE  Visible(Rendered(a, w)) = Visible(Rendered(b, w))
<1> DEFINE x == Rendered(a, w)
           y == Rendered(b, w)
<1>1. /\ x \in View /\ y \in View /\ Pinned(x) /\ Pinned(y)
  BY RenderedType DEF Scoped
<1>2. /\ x.section = y.section /\ x.query = y.query /\ x.canonicalize = y.canonicalize
      /\ x.node = y.node /\ x.table = y.table /\ x.flagged = y.flagged
      /\ x.dipP = y.dipP /\ x.minTier = y.minTier /\ x.resolved = y.resolved
      /\ mergeSimilarSqlForUrl(x) = mergeSimilarSqlForUrl(y)
  BY RenderedKeeps
<1>3. (x.templates /\ mergeSimilarSqlForUrl(x)) = (y.templates /\ mergeSimilarSqlForUrl(y))
  BY RenderedKeeps
<1> HIDE DEF x, y
<1>4. x.held = y.held /\ x.merge = y.merge
  BY <1>1, <1>2, PinnedSame
<1>5. Visible(x) = Visible(y)
  BY <1>1, <1>2, <1>3, <1>4, VisibleEqual
<1> QED
  BY <1>5 DEF x, y

-----------------------------------------------------------------------------
(* Preferences in URLs                                                       *)

LEMMA SetSectionToggles ==
  ASSUME NEW v, Scoped(v), NEW id \in Section
  PROVE  Toggles(SetSection(v, id)) = Toggles(v)
<1> DEFINE c == IF id = "ash" THEN v ELSE ClearAshFilters(v)
           s == syncMergeSimilarSqlForFamilyScope(c)
           x == [s EXCEPT !.section = id]
<1>1. /\ c \in View /\ c.held = v.held /\ c.merge = v.merge
      /\ c.templates = v.templates /\ c.flagged = v.flagged
      /\ c.dipP = v.dipP /\ c.minTier = v.minTier
  BY ClearType DEF Scoped
<1>2. SetSection(v, id) = x
  BY DEF SetSection
<1> HIDE DEF c
<1>3. /\ s \in View /\ SameButMerge(s, c)
      /\ mergeSimilarSqlForUrl(s) = mergeSimilarSqlForUrl(c)
  BY <1>1, SyncType, SyncKeepsPreference
<1> HIDE DEF s
<1>4. /\ x.held = s.held /\ x.merge = s.merge /\ x.templates = s.templates
      /\ x.flagged = s.flagged /\ x.dipP = s.dipP /\ x.minTier = s.minTier
  BY <1>3, SectionType
<1> HIDE DEF x
<1>5. mergeSimilarSqlForUrl(c) = mergeSimilarSqlForUrl(v)
      /\ mergeSimilarSqlForUrl(x) = mergeSimilarSqlForUrl(s)
  BY <1>1, <1>4 DEF mergeSimilarSqlForUrl
<1>6. /\ mergeSimilarSqlForUrl(x) = mergeSimilarSqlForUrl(v)
      /\ x.templates = v.templates /\ x.flagged = v.flagged
      /\ x.dipP = v.dipP /\ x.minTier = v.minTier
  BY <1>1, <1>3, <1>4, <1>5 DEF SameButMerge
<1> QED
  BY <1>2, <1>6 DEF Toggles

(* Choosing a section is nothing else where there are no filters to clear.   *)
LEMMA SetSectionIdle ==
  ASSUME NEW v, Scoped(v), Pinned(v), v.resolved => v.canonicalize,
         NEW id \in Section, id # "ash" => ~HasAshFilters(v)
  PROVE  SetSection(v, id) = [v EXCEPT !.section = id]
<1>1. (IF id = "ash" THEN v ELSE ClearAshFilters(v)) = v
  <2>1. CASE id = "ash"
    BY <2>1
  <2>2. CASE id # "ash"
    <3>1. ~HasAshFilters(v) /\ ~v.canonicalize /\ ~v.resolved
      BY <2>2 DEF Scoped, HasAshFilters
    <3> QED
      BY <2>2, <3>1 DEF Scoped, View, HasAshFilters, ClearAshFilters
  <2> QED
    BY <2>1, <2>2
<1>2. syncMergeSimilarSqlForFamilyScope(v) = v
  BY SyncIdle DEF Scoped
<1> QED
  BY <1>1, <1>2 DEF SetSection

LEMMA VisibleSame ==
  ASSUME NEW x \in View, NEW b \in View, Visible(x) = Visible(b)
  PROVE  /\ x.section = b.section /\ x.query = b.query /\ x.canonicalize = b.canonicalize
         /\ x.node = b.node /\ x.table = b.table /\ x.resolved = b.resolved
         /\ x.flagged = b.flagged /\ x.dipP = b.dipP /\ x.minTier = b.minTier
         /\ x.held = b.held /\ x.merge = b.merge
         /\ (x.templates /\ mergeSimilarSqlForUrl(x)) = (b.templates /\ mergeSimilarSqlForUrl(b))
<1> DEFINE v == Visible(x)
<1>1. /\ v.section = x.section /\ v.query = x.query /\ v.canonicalize = x.canonicalize
      /\ v.node = x.node /\ v.table = x.table /\ v.held = x.held /\ v.merge = x.merge
      /\ v.resolved = x.resolved
      /\ v.templates = (x.templates /\ mergeSimilarSqlForUrl(x))
      /\ v.flagged = x.flagged /\ v.dipP = x.dipP /\ v.minTier = x.minTier
  BY VisibleType, Zenon
<1>2. v = Visible(b)
  OBVIOUS
<1> HIDE DEF v
<1>3. /\ v.section = b.section /\ v.query = b.query /\ v.canonicalize = b.canonicalize
      /\ v.node = b.node /\ v.table = b.table /\ v.held = b.held /\ v.merge = b.merge
      /\ v.resolved = b.resolved
      /\ v.templates = (b.templates /\ mergeSimilarSqlForUrl(b))
      /\ v.flagged = b.flagged /\ v.dipP = b.dipP /\ v.minTier = b.minTier
  BY <1>2, VisibleType, Zenon
<1> QED
  BY <1>1, <1>3, Zenon

(* What two states show, they show in another section too.                   *)
LEMMA SameScreen ==
  ASSUME NEW a \in View, NEW b \in View, NEW id \in Section,
         NEW x, x = [a EXCEPT !.section = b.section], Visible(x) = Visible(b),
         NEW y, y = [a EXCEPT !.section = id], NEW z, z = [b EXCEPT !.section = id]
  PROVE  Visible(y) = Visible(z)
<1>1. b.section \in Section
  BY DEF View
<1>2. /\ x \in View /\ x.query = a.query /\ x.canonicalize = a.canonicalize
      /\ x.node = a.node /\ x.table = a.table /\ x.held = a.held
      /\ x.merge = a.merge /\ x.resolved = a.resolved
      /\ x.templates = a.templates /\ x.flagged = a.flagged
      /\ x.dipP = a.dipP /\ x.minTier = a.minTier
  BY <1>1 DEF View
<1>3. /\ y \in View /\ y.query = a.query /\ y.canonicalize = a.canonicalize
      /\ y.node = a.node /\ y.table = a.table /\ y.held = a.held
      /\ y.merge = a.merge /\ y.resolved = a.resolved
      /\ y.templates = a.templates /\ y.flagged = a.flagged
      /\ y.dipP = a.dipP /\ y.minTier = a.minTier
      /\ y.section = id
  BY DEF View
<1>4. /\ z \in View /\ z.query = b.query /\ z.canonicalize = b.canonicalize
      /\ z.node = b.node /\ z.table = b.table /\ z.held = b.held
      /\ z.merge = b.merge /\ z.resolved = b.resolved
      /\ z.templates = b.templates /\ z.flagged = b.flagged
      /\ z.dipP = b.dipP /\ z.minTier = b.minTier
      /\ z.section = id
  BY DEF View
<1>5. /\ x.query = b.query /\ x.canonicalize = b.canonicalize /\ x.node = b.node
      /\ x.table = b.table /\ x.held = b.held /\ x.merge = b.merge
      /\ x.resolved = b.resolved /\ x.flagged = b.flagged /\ x.dipP = b.dipP
      /\ x.minTier = b.minTier
      /\ (x.templates /\ mergeSimilarSqlForUrl(x)) = (b.templates /\ mergeSimilarSqlForUrl(b))
  BY <1>2, VisibleSame
<1>6. /\ mergeSimilarSqlForUrl(y) = mergeSimilarSqlForUrl(x)
      /\ mergeSimilarSqlForUrl(z) = mergeSimilarSqlForUrl(b)
  BY <1>2, <1>3, <1>4 DEF mergeSimilarSqlForUrl
<1>7. (y.templates /\ mergeSimilarSqlForUrl(y)) = (z.templates /\ mergeSimilarSqlForUrl(z))
  BY <1>2, <1>3, <1>4, <1>5, <1>6, Zenon
<1>8. /\ y.section = z.section /\ y.query = z.query /\ y.canonicalize = z.canonicalize
      /\ y.node = z.node /\ y.table = z.table /\ y.resolved = z.resolved
      /\ y.flagged = z.flagged /\ y.dipP = z.dipP /\ y.minTier = z.minTier
      /\ y.held = z.held /\ y.merge = z.merge
  BY <1>2, <1>3, <1>4, <1>5, Zenon
<1> QED
  BY <1>3, <1>4, <1>7, <1>8, VisibleEqual

(* An address that the page itself has written.                              *)
Written(u) == u \in Url /\ (u.templates => u.merge)

LEMMA RenderedToggles ==
  ASSUME NEW v, Scoped(v), NEW w \in Window
  PROVE  Toggles(Rendered(v, w)) = Toggles(v)
  BY RenderedKeeps DEF Toggles

LEMMA TogglesType ==
  ASSUME NEW v \in View
  PROVE  LET g == Toggles(v)
         IN /\ g.merge = mergeSimilarSqlForUrl(v) /\ g.merge \in BOOLEAN
            /\ g.templates = (mergeSimilarSqlForUrl(v) /\ v.templates) /\ g.templates \in BOOLEAN
            /\ g.flagged = v.flagged /\ g.flagged \in BOOLEAN
            /\ g.dip_p = ~v.dipP /\ g.dip_p \in BOOLEAN
            /\ g.min_tier = IF v.minTier = "high" THEN Nothing ELSE v.minTier
            /\ g.min_tier \in (Tier \ {"high"}) \cup {Nothing}
            /\ g = [merge |-> g.merge, templates |-> g.templates, flagged |-> g.flagged,
                    dip_p |-> g.dip_p, min_tier |-> g.min_tier]
  BY PreferenceType DEF View, Toggles

(* A URL made from the preferences of a state has these preferences.         *)
LEMMA MakeUrlType ==
  ASSUME NEW v \in View, NEW section \in Section, NEW t \in 0..Windows,
         NEW query \in Qid \cup {Nothing}, NEW canonicalize \in BOOLEAN,
         NEW node \in NodeId \cup {Nothing}, NEW table \in TableId \cup {Nothing}
  PROVE  LET u == MakeUrl(section, t, query, canonicalize, node, table, Toggles(v))
         IN /\ Written(u) /\ EntryToggles(u) = Toggles(v)
            /\ u.view = section /\ u.t = t /\ u.query = query
            /\ u.canonicalize = canonicalize /\ u.node = node /\ u.table_id = table
            /\ u.merge = Toggles(v).merge /\ u.templates = Toggles(v).templates
            /\ u.flagged = Toggles(v).flagged /\ u.dip_p = Toggles(v).dip_p
            /\ u.min_tier = Toggles(v).min_tier
<1> DEFINE g == Toggles(v)
           u == MakeUrl(section, t, query, canonicalize, node, table, g)
<1>1. /\ g.merge \in BOOLEAN /\ g.templates \in BOOLEAN /\ g.flagged \in BOOLEAN
      /\ g.dip_p \in BOOLEAN /\ g.min_tier \in (Tier \ {"high"}) \cup {Nothing}
      /\ g.templates => g.merge
      /\ g = [merge |-> g.merge, templates |-> g.templates, flagged |-> g.flagged,
              dip_p |-> g.dip_p, min_tier |-> g.min_tier]
  BY TogglesType
<1> HIDE DEF g
<1>2. /\ u \in Url
      /\ u.view = section /\ u.t = t /\ u.query = query
      /\ u.canonicalize = canonicalize /\ u.node = node /\ u.table_id = table
      /\ u.merge = g.merge /\ u.templates = g.templates
      /\ u.flagged = g.flagged /\ u.dip_p = g.dip_p /\ u.min_tier = g.min_tier
  BY <1>1 DEF Url, MakeUrl
<1> HIDE DEF u
<1>3. (IF u.min_tier \in Tier \ {"high"} THEN u.min_tier ELSE Nothing) = g.min_tier
  BY <1>1, <1>2
<1>4. EntryToggles(u) = g
  BY <1>1, <1>2, <1>3 DEF EntryToggles
<1> QED
  BY <1>1, <1>2, <1>4 DEF Written, g, u

LEMMA UrlOfType ==
  ASSUME NEW v, Scoped(v), NEW i \in Window
  PROVE  LET u == UrlOf(v, i)
         IN /\ Written(u) /\ EntryToggles(u) = Toggles(v)
            /\ u.view = v.section
            /\ u.merge = Toggles(v).merge /\ u.templates = Toggles(v).templates
            /\ u.flagged = Toggles(v).flagged /\ u.dip_p = Toggles(v).dip_p
            /\ u.min_tier = Toggles(v).min_tier
            /\ v.section = "ash" =>
                 /\ u.query = v.query /\ u.node = v.node /\ u.table_id = v.table
                 /\ u.canonicalize = v.canonicalize
<1> DEFINE t == IF i < Windows THEN i ELSE 0
           canonicalize == v.query # Nothing /\ v.canonicalize
<1>1. t \in 0..Windows
  BY PageAssumption DEF Window
<1>2. /\ v \in View /\ v.section \in Section
      /\ v.query \in Qid \cup {Nothing} /\ v.node \in NodeId \cup {Nothing}
      /\ v.table \in TableId \cup {Nothing}
      /\ canonicalize \in BOOLEAN /\ canonicalize = v.canonicalize
  BY DEF Scoped, View
<1>3. UrlOf(v, i) = IF v.section = "ash"
                    THEN MakeUrl("ash", t, v.query, canonicalize, v.node, v.table, Toggles(v))
                    ELSE MakeUrl(v.section, t, Nothing, FALSE, Nothing, Nothing, Toggles(v))
  BY DEF UrlOf
<1> HIDE DEF t, canonicalize
<1>4. CASE v.section = "ash"
  BY <1>1, <1>2, <1>3, <1>4, MakeUrlType
<1>5. CASE v.section # "ash"
  <2> DEFINE no == FALSE
             u == MakeUrl(v.section, t, Nothing, no, Nothing, Nothing, Toggles(v))
  <2>1. /\ Written(u) /\ EntryToggles(u) = Toggles(v) /\ u.view = v.section
        /\ u.merge = Toggles(v).merge /\ u.templates = Toggles(v).templates
        /\ u.flagged = Toggles(v).flagged /\ u.dip_p = Toggles(v).dip_p
        /\ u.min_tier = Toggles(v).min_tier
    <3>1. no \in BOOLEAN
      OBVIOUS
    <3> HIDE DEF no
    <3> QED
      BY <1>1, <1>2, <3>1, MakeUrlType
  <2>2. UrlOf(v, i) = u
    BY <1>3, <1>5
  <2> QED
    BY <1>5, <2>1, <2>2, Zenon
<1> QED
  BY <1>4, <1>5

(* Reading a URL while nothing is held takes its preferences.                *)
LEMMA ReadToggles ==
  ASSUME NEW v \in View, v.held = {}, NEW u, Written(u)
  PROVE  LET r == readViewerStateFromUrl(v, u)
         IN /\ Toggles(r) = EntryToggles(u)
            /\ mergeSimilarSqlForUrl(r) = u.merge
            /\ r.templates = u.templates /\ r.flagged = u.flagged /\ r.dipP = ~u.dip_p
            /\ r.minTier = IF u.min_tier \in Tier THEN u.min_tier ELSE "high"
<1> DEFINE a == Asked(v, u)
           r == readViewerStateFromUrl(v, u)
           tier == IF u.min_tier \in Tier THEN u.min_tier ELSE "high"
<1>1. u \in Url /\ (u.templates => u.merge)
  BY DEF Written
<1>2. /\ a \in View /\ a.held = {} /\ a.merge = u.merge
      /\ a.templates = (u.merge /\ u.templates) /\ a.flagged = u.flagged
      /\ a.dipP = ~u.dip_p /\ a.minTier = tier
  BY <1>1, AskedType, Zenon DEF Scoped
<1>3. a.templates = u.templates
  BY <1>1, <1>2 DEF Url
<1>4. r = syncMergeSimilarSqlForFamilyScope(a)
  BY ReadAsked
<1> HIDE DEF a, r
<1>5. r \in View /\ SameButMerge(r, a) /\ mergeSimilarSqlForUrl(r) = mergeSimilarSqlForUrl(a)
  BY <1>2, <1>4, SyncType, SyncKeepsPreference
<1>6. mergeSimilarSqlForUrl(a) = u.merge
  BY <1>2 DEF mergeSimilarSqlForUrl
<1>7. /\ mergeSimilarSqlForUrl(r) = u.merge
      /\ r.templates = u.templates /\ r.flagged = u.flagged /\ r.dipP = ~u.dip_p
      /\ r.minTier = tier
  BY <1>2, <1>3, <1>5, <1>6, Zenon DEF SameButMerge
<1>8. (IF r.minTier = "high" THEN Nothing ELSE r.minTier)
        = IF u.min_tier \in Tier \ {"high"} THEN u.min_tier ELSE Nothing
  BY <1>7
<1>9. (u.merge /\ u.templates) = u.templates /\ (~(~u.dip_p)) = u.dip_p
  BY <1>1 DEF Url
<1>10. Toggles(r) = EntryToggles(u)
  BY <1>7, <1>8, <1>9, Zenon DEF Toggles, EntryToggles
<1> QED
  BY <1>7, <1>10, Zenon DEF r

-----------------------------------------------------------------------------
(* The invariant                                                             *)

(* The history, whose current entry always has the preferences of the page.  *)
HistoryOK ==
  /\ entries \in Seq(Url) /\ Len(entries) \in 1..MaxEntries
  /\ at \in 1..Len(entries)
  /\ \A k \in 1..Len(entries): Written(entries[k])
  /\ EntryToggles(entries[at]) = Toggles(view)

StateOK ==
  /\ Scoped(view) /\ Pinned(view) /\ drawn \in View
  /\ current \in Window /\ shown \in 0..Windows /\ ready \in BOOLEAN
  /\ shown = 0 => ~view.resolved

(* What is known of a page with panels.                                      *)
ScreenOK ==
  ready =>
    /\ shown \in Window
    /\ Resolved(view, shown)
    /\ Visible([drawn EXCEPT !.section = view.section]) = Visible(view)
    /\ entries[at] = UrlOf(view, current)

LoadsOK == pending \subseteq Window /\ clicks \in 0..MaxClicks

Inv == HistoryOK /\ StateOK /\ ScreenOK /\ LoadsOK

LEMMA WindowType ==
  /\ Window \subseteq 0..Windows /\ 0 \notin Window
  /\ \A w \in 0..Windows: w # 0 => w \in Window
  BY PageAssumption DEF Window

LEMMA WindowOfType ==
  ASSUME NEW u \in Url
  PROVE  WindowOf(u) \in Window
  BY PageAssumption DEF Url, WindowOf, Window

(* replaceState: entry k becomes the current one and has the page's URL.     *)
LEMMA ReplacedHistory ==
  ASSUME HistoryOK, NEW k \in 1..Len(entries), at' = k, Scoped(view'),
         NEW i \in Window, entries' = [entries EXCEPT ![k] = UrlOf(view', i)]
  PROVE  HistoryOK' /\ entries'[at'] = UrlOf(view', i)
<1>1. Written(UrlOf(view', i)) /\ EntryToggles(UrlOf(view', i)) = Toggles(view')
  BY UrlOfType
<1>2. /\ entries' \in Seq(Url) /\ Len(entries') = Len(entries)
      /\ \A j \in 1..Len(entries): entries'[j] = IF j = k THEN UrlOf(view', i) ELSE entries[j]
  BY <1>1 DEF HistoryOK, Written
<1> QED
  BY <1>1, <1>2 DEF HistoryOK

(* renderDoc leaves a state that its document resolves, drawn.               *)
LEMMA RenderDocStep ==
  ASSUME NEW v, Scoped(v), NEW w \in Window, RenderDoc(v, w)
  PROVE  /\ Scoped(view') /\ Pinned(view') /\ Toggles(view') = Toggles(v)
         /\ drawn' \in View /\ shown' = w /\ ready' = TRUE
         /\ Resolved(view', shown')
         /\ Visible([drawn' EXCEPT !.section = view'.section]) = Visible(view')
<1>1. /\ view' = Rendered(v, w) /\ drawn' = Panels(v, w) /\ shown' = w /\ ready' = TRUE
  BY DEF RenderDoc
<1>2. drawn' \in View
  BY <1>1, PanelsType DEF Scoped
<1> QED
  BY <1>1, <1>2, RenderedType, RenderedToggles

(* renderDoc, then writeViewerStateToUrl in entry k.                         *)
LEMMA RenderedStep ==
  ASSUME Inv, NEW v, Scoped(v), NEW w \in Window, RenderDoc(v, w),
         NEW k \in 1..Len(entries), at' = k, current' \in Window,
         entries' = [entries EXCEPT ![k] = UrlOf(view', current')], LoadsOK'
  PROVE  Inv' /\ Toggles(view') = Toggles(v)
<1>1. /\ Scoped(view') /\ Pinned(view') /\ Toggles(view') = Toggles(v)
      /\ drawn' \in View /\ shown' = w /\ ready' = TRUE
      /\ Resolved(view', shown')
      /\ Visible([drawn' EXCEPT !.section = view'.section]) = Visible(view')
  BY RenderDocStep
<1>2. HistoryOK' /\ entries'[at'] = UrlOf(view', current')
  BY <1>1, ReplacedHistory DEF Inv
<1>3. shown' # 0 /\ shown' \in 0..Windows
  BY <1>1, WindowType
<1> QED
  BY <1>1, <1>2, <1>3 DEF Inv, StateOK, ScreenOK

(* A page that starts from a URL that a page has written.                    *)
LEMMA BootStep ==
  ASSUME NEW u, Written(u), Boot(u)
  PROVE  /\ StateOK' /\ ScreenOK' /\ pending' \subseteq Window
         /\ Toggles(view') = EntryToggles(u)
<1>1. u \in Url /\ WindowOf(u) \in Window
  BY WindowOfType DEF Written
<1>2. /\ view' = readViewerStateFromUrl(Fresh, u) /\ current' = WindowOf(u)
      /\ shown' = 0 /\ ready' = FALSE /\ drawn' = Fresh /\ pending' = {WindowOf(u)}
  BY DEF Boot
<1>3. Scoped(view') /\ Pinned(view')
  BY <1>1, <1>2, FreshView, ReadType
<1>4. Toggles(view') = EntryToggles(u)
  BY <1>2, FreshView, ReadToggles DEF Fresh
<1>5. ~view'.resolved
  BY <1>1, <1>2, FreshView, ReadResolved DEF Fresh
<1>6. 0 \in 0..Windows
  BY PageAssumption
<1> QED
  BY <1>1, <1>2, <1>3, <1>4, <1>5, <1>6, FreshView DEF StateOK, ScreenOK

-----------------------------------------------------------------------------
(* The steps                                                                 *)

(* Only the user's controls, and Back and Forward, change the preferences.   *)
Kept == Toggles(view') = Toggles(view)

LEMMA ClickType ==
  ASSUME Inv, Click
  PROVE  clicks' \in 0..MaxClicks
  BY PageAssumption DEF Inv, LoadsOK, Click

LEMMA SetViewerSectionStep ==
  ASSUME Inv, NEW id \in Section, SetViewerSection(id)
  PROVE  Inv' /\ Kept
<1> DEFINE v == SetSection(view, id)
<1>1. /\ Scoped(view) /\ Pinned(view) /\ view \in View
  BY DEF Inv, StateOK, Scoped
<1>2. /\ ready /\ shown \in Window /\ LoadsOK' /\ current' = current /\ at' = at
      /\ entries' = [entries EXCEPT ![at] = UrlOf(view', current)]
      /\ id = "latency" => shown \in Histograms
  BY ClickType DEF SetViewerSection, Control, ReplaceUrl, Inv, ScreenOK, LoadsOK
<1>3. Scoped(v) /\ Pinned(v) /\ v.section = id
  BY <1>1, SetSectionType
<1>4. Toggles(v) = Toggles(view)
  BY <1>1, SetSectionToggles
<1>5. /\ at \in 1..Len(entries) /\ current \in Window
  BY DEF Inv, HistoryOK, StateOK
<1>6. CASE id # "ash" /\ HasAshFilters(view)
  <2>1. RenderDoc(v, shown)
    BY <1>6 DEF SetViewerSection
  <2> HIDE DEF v
  <2> QED
    BY <1>2, <1>3, <1>4, <1>5, <2>1, RenderedStep DEF Kept
<1>7. CASE ~(id # "ash" /\ HasAshFilters(view))
  <2>1. view' = v /\ drawn' = drawn /\ shown' = shown /\ ready' = ready
    BY <1>7 DEF SetViewerSection
  <2>2. HistoryOK' /\ entries'[at'] = UrlOf(view', current')
    <3> HIDE DEF v
    <3> QED
      BY <1>2, <1>3, <1>5, <2>1, ReplacedHistory DEF Inv
  <2>3. v = [view EXCEPT !.section = id]
    BY <1>1, <1>2, <1>7, SetSectionIdle DEF Inv, ScreenOK, Resolved
  <2>3a. v.section = id
    BY <1>3
  <2> HIDE DEF v
  <2>4. Resolved(v, shown)
    BY <1>1, <1>2, <2>3, SectionType DEF Inv, ScreenOK, Resolved
  <2>5. Visible([drawn EXCEPT !.section = v.section]) = Visible(v)
    <3>1. drawn \in View /\ Visible([drawn EXCEPT !.section = view.section]) = Visible(view)
      BY <1>2 DEF Inv, StateOK, ScreenOK
    <3>2. Visible([drawn EXCEPT !.section = id]) = Visible([view EXCEPT !.section = id])
      <4> DEFINE x == [drawn EXCEPT !.section = view.section]
                 y == [drawn EXCEPT !.section = id]
                 z == [view EXCEPT !.section = id]
      <4>1. /\ x = [drawn EXCEPT !.section = view.section] /\ Visible(x) = Visible(view)
            /\ y = [drawn EXCEPT !.section = id] /\ z = [view EXCEPT !.section = id]
        BY <3>1
      <4> HIDE DEF x, y, z
      <4>2. Visible(y) = Visible(z)
        BY <1>1, <3>1, <4>1, SameScreen
      <4> QED
        BY <4>2 DEF y, z
    <3> QED
      BY <2>3, <2>3a, <3>2
  <2>6. shown = 0 => ~v.resolved
    BY <1>2, WindowType
  <2> QED
    BY <1>2, <1>3, <1>4, <1>5, <2>1, <2>2, <2>4, <2>5, <2>6
       DEF Inv, StateOK, ScreenOK, Kept
<1> QED
  BY <1>6, <1>7

LEMMA LinkType ==
  ASSUME NEW link \in LinkTo
  PROVE  /\ link.query \in Qid \cup {Nothing} /\ link.canonicalize \in BOOLEAN
         /\ link.node \in NodeId \cup {Nothing} /\ link.table \in TableId \cup {Nothing}
         /\ link.canonicalize => link.query # Nothing
  BY PageAssumption DEF LinkTo

LEMMA NavigatedType ==
  ASSUME NEW v \in View, NEW link \in LinkTo
  PROVE  LET n == Navigated(v, link)
         IN /\ Scoped(n) /\ n.section = "ash"
            /\ n.query = link.query /\ n.canonicalize = link.canonicalize
            /\ n.node = link.node /\ n.table = link.table
            /\ n.templates = v.templates /\ n.flagged = v.flagged
            /\ n.dipP = v.dipP /\ n.minTier = v.minTier
            /\ mergeSimilarSqlForUrl(n) = mergeSimilarSqlForUrl(v)
            /\ Toggles(n) = Toggles(v)
<1> DEFINE resolved == v.resolved /\ link.query # Nothing
           ash == "ash"
           a == [v EXCEPT !.query = link.query, !.canonicalize = link.canonicalize,
                          !.node = link.node, !.table = link.table, !.resolved = resolved]
           s == syncMergeSimilarSqlForFamilyScope(a)
           n == [s EXCEPT !.section = ash]
<1>1. Navigated(v, link) = n
  BY DEF Navigated, View
<1>2. resolved \in BOOLEAN /\ ash \in Section
  BY DEF View
<1> HIDE DEF resolved
<1>3. /\ a \in View /\ a.query = link.query /\ a.canonicalize = link.canonicalize
      /\ a.node = link.node /\ a.table = link.table
      /\ a.held = v.held /\ a.merge = v.merge /\ a.templates = v.templates
      /\ a.flagged = v.flagged /\ a.dipP = v.dipP /\ a.minTier = v.minTier
  BY <1>2, LinkType DEF View
<1> HIDE DEF a
<1>4. /\ s \in View /\ SameButMerge(s, a)
      /\ mergeSimilarSqlForUrl(s) = mergeSimilarSqlForUrl(a)
  BY <1>3, SyncType, SyncKeepsPreference
<1> HIDE DEF s, ash
<1>5. /\ n \in View /\ n.section = ash
      /\ n.query = s.query /\ n.canonicalize = s.canonicalize
      /\ n.node = s.node /\ n.table = s.table
      /\ n.held = s.held /\ n.merge = s.merge /\ n.templates = s.templates
      /\ n.flagged = s.flagged /\ n.dipP = s.dipP /\ n.minTier = s.minTier
  BY <1>2, <1>4 DEF View
<1> HIDE DEF n
<1>6. /\ mergeSimilarSqlForUrl(a) = mergeSimilarSqlForUrl(v)
      /\ mergeSimilarSqlForUrl(n) = mergeSimilarSqlForUrl(s)
  BY <1>3, <1>5 DEF mergeSimilarSqlForUrl
<1>7. /\ n.query = link.query /\ n.canonicalize = link.canonicalize
      /\ n.node = link.node /\ n.table = link.table
      /\ n.templates = v.templates /\ n.flagged = v.flagged
      /\ n.dipP = v.dipP /\ n.minTier = v.minTier
      /\ mergeSimilarSqlForUrl(n) = mergeSimilarSqlForUrl(v)
  BY <1>3, <1>4, <1>5, <1>6 DEF SameButMerge
<1>8. Toggles(n) = Toggles(v)
  BY <1>7 DEF Toggles
<1>9. n.section = "ash"
  BY <1>5 DEF ash
<1>10. Scoped(n)
  BY <1>5, <1>7, <1>9, LinkType DEF Scoped
<1> QED
  BY <1>1, <1>7, <1>8, <1>9, <1>10

LEMMA NavigateStep ==
  ASSUME Inv, NEW link \in LinkTo, Navigate(link)
  PROVE  Inv' /\ Kept
<1> DEFINE v == Navigated(view, link)
<1>1. /\ view \in View /\ current \in Window /\ HistoryOK
      /\ ready /\ shown \in Window
  BY DEF Inv, StateOK, ScreenOK, Scoped, Navigate, Control
<1>2. /\ RenderDoc(v, shown) /\ current' = current /\ LoadsOK'
      /\ entries' = Append(SubSeq(entries, 1, at), UrlOf(view', current))
      /\ at' = at + 1 /\ at < MaxEntries
  BY ClickType DEF Navigate, Control, Inv, LoadsOK
<1>3. Scoped(v) /\ Toggles(v) = Toggles(view)
  BY <1>1, NavigatedType
<1> HIDE DEF v
<1>4. /\ Scoped(view') /\ Pinned(view') /\ Toggles(view') = Toggles(v)
      /\ drawn' \in View /\ shown' = shown /\ ready' = TRUE
      /\ Resolved(view', shown')
      /\ Visible([drawn' EXCEPT !.section = view'.section]) = Visible(view')
  BY <1>1, <1>2, <1>3, RenderDocStep
<1>5. HistoryOK' /\ entries'[at'] = UrlOf(view', current)
  <2> DEFINE u == UrlOf(view', current)
  <2>1. Written(u) /\ EntryToggles(u) = Toggles(view')
    BY <1>1, <1>4, UrlOfType
  <2>2. entries' = Append(SubSeq(entries, 1, at), u)
    BY <1>2
  <2> HIDE DEF u
  <2>3. /\ entries \in Seq(Url) /\ at \in 1..Len(entries) /\ u \in Url
        /\ \A k \in 1..Len(entries): Written(entries[k])
    BY <1>1, <2>1 DEF HistoryOK, Written
  <2>4. /\ entries' \in Seq(Url) /\ Len(entries') = at + 1 /\ entries'[at + 1] = u
        /\ \A k \in 1..at: entries'[k] = entries[k]
    BY <2>2, <2>3
  <2>5. Len(entries') \in 1..MaxEntries
    BY <1>2, <2>3, <2>4, PageAssumption
  <2>6. \A k \in 1..Len(entries'): Written(entries'[k])
    BY <2>1, <2>3, <2>4
  <2>7. at' \in 1..Len(entries') /\ entries'[at'] = u
    BY <1>2, <2>3, <2>4
  <2> QED
    BY <2>1, <2>4, <2>5, <2>6, <2>7 DEF HistoryOK, u
<1>6. shown' # 0 /\ shown' \in 0..Windows
  BY <1>1, <1>4, WindowType
<1> QED
  BY <1>1, <1>2, <1>3, <1>4, <1>5, <1>6 DEF Inv, StateOK, ScreenOK, Kept

LEMMA HrefType ==
  ASSUME NEW v \in View, NEW link \in LinkTo
  PROVE  LET u == Href(v, link)
         IN /\ Written(u) /\ EntryToggles(u) = Toggles(v)
            /\ u.view = "ash" /\ u.query = link.query
            /\ u.canonicalize = link.canonicalize
            /\ u.node = link.node /\ u.table_id = link.table
            /\ u.merge = Toggles(v).merge /\ u.templates = Toggles(v).templates
            /\ u.flagged = Toggles(v).flagged /\ u.dip_p = Toggles(v).dip_p
            /\ u.min_tier = Toggles(v).min_tier
<1> DEFINE ash == "ash"
           none == 0
           u == MakeUrl(ash, none, link.query, link.canonicalize, link.node, link.table,
                        Toggles(v))
<1>1. Href(v, link) = u
  BY DEF Href
<1>2. none \in 0..Windows /\ ash \in Section
  BY PageAssumption
<1> HIDE DEF ash, none
<1>3. /\ Written(u) /\ EntryToggles(u) = Toggles(v)
      /\ u.view = ash /\ u.query = link.query
      /\ u.canonicalize = link.canonicalize
      /\ u.node = link.node /\ u.table_id = link.table
      /\ u.merge = Toggles(v).merge /\ u.templates = Toggles(v).templates
      /\ u.flagged = Toggles(v).flagged /\ u.dip_p = Toggles(v).dip_p
      /\ u.min_tier = Toggles(v).min_tier
  <2>1. /\ link.query \in Qid \cup {Nothing} /\ link.canonicalize \in BOOLEAN
        /\ link.node \in NodeId \cup {Nothing} /\ link.table \in TableId \cup {Nothing}
    BY LinkType
  <2> QED
    BY <1>2, <2>1, MakeUrlType, SMTT(60)
<1> QED
  BY <1>1, <1>3, Zenon DEF ash

LEMMA OpenInNewTabStep ==
  ASSUME Inv, NEW link \in LinkTo, OpenInNewTab(link)
  PROVE  Inv' /\ Kept
<1> DEFINE u == Href(view, link)
<1>1. view \in View
  BY DEF Inv, StateOK, Scoped
<1>2. Written(u) /\ EntryToggles(u) = Toggles(view)
  BY <1>1, HrefType
<1>3. /\ Boot(u) /\ entries' = <<UrlOf(view', current')>> /\ at' = 1
      /\ clicks' \in 0..MaxClicks
  BY ClickType DEF OpenInNewTab
<1> HIDE DEF u
<1>4. StateOK' /\ ScreenOK' /\ pending' \subseteq Window /\ Toggles(view') = EntryToggles(u)
  BY <1>2, <1>3, BootStep
<1>5. HistoryOK'
  <2> DEFINE w == UrlOf(view', current')
  <2>1. Written(w) /\ EntryToggles(w) = Toggles(view')
    BY <1>4, UrlOfType DEF StateOK
  <2>2. entries' = <<w>>
    BY <1>3
  <2> HIDE DEF w
  <2>3. entries' \in Seq(Url) /\ Len(entries') = 1 /\ entries'[1] = w
    BY <2>1, <2>2 DEF Written
  <2> QED
    BY <1>3, <2>1, <2>3, PageAssumption DEF HistoryOK
<1> QED
  BY <1>2, <1>3, <1>4, <1>5 DEF Inv, LoadsOK, Kept

LEMMA ReloadStep ==
  ASSUME Inv, Reload
  PROVE  Inv' /\ Kept
<1>1. /\ Written(entries[at]) /\ EntryToggles(entries[at]) = Toggles(view)
      /\ HistoryOK /\ at \in 1..Len(entries)
  BY DEF Inv, HistoryOK
<1>2. /\ Boot(entries[at]) /\ entries' = [entries EXCEPT ![at] = UrlOf(view', current')]
      /\ at' = at /\ clicks' \in 0..MaxClicks
  BY ClickType DEF Reload
<1>3. /\ StateOK' /\ ScreenOK' /\ pending' \subseteq Window
      /\ Toggles(view') = EntryToggles(entries[at])
  BY <1>1, <1>2, BootStep
<1>4. HistoryOK'
  BY <1>1, <1>2, <1>3, ReplacedHistory DEF StateOK
<1> QED
  BY <1>1, <1>2, <1>3, <1>4 DEF Inv, LoadsOK, Kept

(* What a control of the panels finds.                                       *)
LEMMA ControlType ==
  ASSUME Inv, Control, ReplaceUrl(view', current)
  PROVE  /\ Scoped(view) /\ Pinned(view) /\ view \in View /\ drawn \in View
         /\ ready = TRUE /\ shown \in Window /\ shown # 0 /\ current \in Window
         /\ current' = current /\ at' = at /\ at \in 1..Len(entries) /\ HistoryOK
         /\ entries' = [entries EXCEPT ![at] = UrlOf(view', current)]
         /\ LoadsOK'
  BY ClickType, WindowType
     DEF Inv, HistoryOK, StateOK, ScreenOK, LoadsOK, Scoped, Control, ReplaceUrl

LEMMA ToggleMergeStep ==
  ASSUME Inv, ToggleMerge
  PROVE  Inv'
<1> DEFINE merge == ~view.merge
           c == [view EXCEPT !.merge = merge]
           s == syncMergeSimilarSqlForFamilyScope(c)
           templates == s.templates /\ s.merge
           v == [s EXCEPT !.templates = templates]
<1>1. /\ Control /\ ReplaceUrl(view', current)
      /\ RenderDoc([s EXCEPT !.templates = @ /\ s.merge], shown)
  BY DEF ToggleMerge, Inv, StateOK, Scoped, View
<1>2. /\ Scoped(view) /\ view \in View /\ shown \in Window
      /\ current \in Window /\ current' = current /\ at' = at /\ at \in 1..Len(entries)
      /\ entries' = [entries EXCEPT ![at] = UrlOf(view', current)] /\ LoadsOK'
  BY <1>1, ControlType
<1>3. merge \in BOOLEAN
  BY <1>2 DEF View
<1> HIDE DEF merge
<1>4. /\ c \in View /\ c.section = view.section /\ c.query = view.query
      /\ c.canonicalize = view.canonicalize /\ c.node = view.node /\ c.table = view.table
  BY <1>2, <1>3 DEF View
<1> HIDE DEF c
<1>5. s \in View /\ SameButMerge(s, c)
  BY <1>4, SyncType
<1> HIDE DEF s
<1>6. templates \in BOOLEAN
  BY <1>5 DEF View
<1>7. [s EXCEPT !.templates = @ /\ s.merge] = v
  BY <1>5 DEF View
<1> HIDE DEF templates
<1>8. /\ v \in View /\ v.section = s.section /\ v.query = s.query
      /\ v.canonicalize = s.canonicalize /\ v.node = s.node /\ v.table = s.table
  BY <1>5, <1>6 DEF View
<1>9. RenderDoc(v, shown)
  BY <1>1, <1>7
<1> HIDE DEF v
<1>10. Scoped(v)
  BY <1>2, <1>4, <1>5, <1>8 DEF Scoped, SameButMerge, HasAshFilters
<1> QED
  BY <1>2, <1>9, <1>10, RenderedStep

LEMMA ToggleTemplatesStep ==
  ASSUME Inv, ToggleTemplates
  PROVE  Inv'
<1> DEFINE templates == ~view.templates
           v == [view EXCEPT !.templates = templates]
<1>1. Control /\ ReplaceUrl(view', current) /\ RenderDoc([view EXCEPT !.templates = ~@], shown)
  BY DEF ToggleTemplates
<1>2. /\ Scoped(view) /\ view \in View /\ shown \in Window
      /\ current \in Window /\ current' = current /\ at' = at /\ at \in 1..Len(entries)
      /\ entries' = [entries EXCEPT ![at] = UrlOf(view', current)] /\ LoadsOK'
  BY <1>1, ControlType
<1>3. templates \in BOOLEAN
  BY <1>2 DEF View
<1>4. [view EXCEPT !.templates = ~@] = v
  BY <1>2 DEF View
<1> HIDE DEF templates
<1>5. /\ v \in View /\ v.section = view.section /\ v.query = view.query
      /\ v.canonicalize = view.canonicalize /\ v.node = view.node /\ v.table = view.table
  BY <1>2, <1>3 DEF View
<1>6. RenderDoc(v, shown)
  BY <1>1, <1>4
<1> HIDE DEF v
<1>7. Scoped(v)
  BY <1>2, <1>5 DEF Scoped, HasAshFilters
<1> QED
  BY <1>2, <1>6, <1>7, RenderedStep

LEMMA SetLatencyStep ==
  ASSUME Inv, NEW tier \in Tier, NEW flagged \in BOOLEAN, NEW dipP \in BOOLEAN,
         SetLatency(tier, flagged, dipP)
  PROVE  Inv'
<1> DEFINE v == [view EXCEPT !.minTier = tier, !.flagged = flagged, !.dipP = dipP]
           d == [drawn EXCEPT !.minTier = tier, !.flagged = flagged, !.dipP = dipP]
           x == [drawn EXCEPT !.section = view.section]
           y == [d EXCEPT !.section = v.section]
<1>1. /\ Control /\ ReplaceUrl(view', current)
      /\ view' = v /\ drawn' = d /\ shown' = shown /\ ready' = ready
  BY DEF SetLatency
<1>2. /\ Scoped(view) /\ Pinned(view) /\ view \in View /\ drawn \in View
      /\ ready = TRUE /\ shown \in Window /\ shown # 0
      /\ current \in Window /\ current' = current /\ at' = at /\ at \in 1..Len(entries)
      /\ entries' = [entries EXCEPT ![at] = UrlOf(view', current)] /\ HistoryOK /\ LoadsOK'
  BY <1>1, ControlType
<1>3. Visible(x) = Visible(view) /\ Resolved(view, shown)
  BY <1>2 DEF Inv, ScreenOK
<1>4. /\ v \in View /\ v.section = view.section /\ v.query = view.query
      /\ v.canonicalize = view.canonicalize /\ v.node = view.node /\ v.table = view.table
      /\ v.held = view.held /\ v.merge = view.merge /\ v.resolved = view.resolved
      /\ v.templates = view.templates
      /\ v.flagged = flagged /\ v.dipP = dipP /\ v.minTier = tier
  BY <1>2 DEF View
<1>5. /\ d \in View /\ d.query = drawn.query
      /\ d.canonicalize = drawn.canonicalize /\ d.node = drawn.node /\ d.table = drawn.table
      /\ d.held = drawn.held /\ d.merge = drawn.merge /\ d.resolved = drawn.resolved
      /\ d.templates = drawn.templates
      /\ d.flagged = flagged /\ d.dipP = dipP /\ d.minTier = tier
  BY <1>2 DEF View
<1>6. view.section \in Section
  BY <1>2 DEF View
<1>7. /\ x \in View /\ x.section = view.section /\ x.query = drawn.query
      /\ x.canonicalize = drawn.canonicalize /\ x.node = drawn.node /\ x.table = drawn.table
      /\ x.held = drawn.held /\ x.merge = drawn.merge /\ x.resolved = drawn.resolved
      /\ x.templates = drawn.templates
  BY <1>2, <1>6, SectionType
<1> HIDE DEF v, d, x
<1>7a. y = [d EXCEPT !.section = view.section]
  BY <1>4
<1> HIDE DEF y
<1>8. /\ y \in View /\ y.section = view.section /\ y.query = d.query
      /\ y.canonicalize = d.canonicalize /\ y.node = d.node /\ y.table = d.table
      /\ y.held = d.held /\ y.merge = d.merge /\ y.resolved = d.resolved
      /\ y.templates = d.templates
      /\ y.flagged = d.flagged /\ y.dipP = d.dipP /\ y.minTier = d.minTier
  BY <1>5, <1>6, <1>7a DEF View
<1>9. /\ x.query = view.query /\ x.canonicalize = view.canonicalize
      /\ x.node = view.node /\ x.table = view.table /\ x.resolved = view.resolved
      /\ x.held = view.held /\ x.merge = view.merge
      /\ (x.templates /\ mergeSimilarSqlForUrl(x)) = (view.templates /\ mergeSimilarSqlForUrl(view))
  BY <1>2, <1>3, <1>7, VisibleSame
<1>10. /\ mergeSimilarSqlForUrl(y) = mergeSimilarSqlForUrl(x)
       /\ mergeSimilarSqlForUrl(v) = mergeSimilarSqlForUrl(view)
       /\ y.templates = x.templates
  BY <1>4, <1>5, <1>7, <1>8 DEF mergeSimilarSqlForUrl
<1>11. (y.templates /\ mergeSimilarSqlForUrl(y)) = (v.templates /\ mergeSimilarSqlForUrl(v))
  BY <1>4, <1>9, <1>10, Zenon
<1>12. /\ y.section = v.section /\ y.query = v.query /\ y.canonicalize = v.canonicalize
       /\ y.node = v.node /\ y.table = v.table /\ y.resolved = v.resolved
       /\ y.flagged = v.flagged /\ y.dipP = v.dipP /\ y.minTier = v.minTier
       /\ y.held = v.held /\ y.merge = v.merge
  BY <1>4, <1>5, <1>7, <1>8, <1>9, Zenon
<1>13. Visible(y) = Visible(v)
  BY <1>4, <1>8, <1>11, <1>12, VisibleEqual
<1>14. Scoped(v) /\ Pinned(v) /\ Resolved(v, shown)
  BY <1>2, <1>3, <1>4 DEF Scoped, Pinned, Resolved, FamilyActive, HasAshFilters
<1>15. HistoryOK' /\ entries'[at'] = UrlOf(view', current)
  BY <1>1, <1>2, <1>14, ReplacedHistory
<1>16. Visible([drawn' EXCEPT !.section = view'.section]) = Visible(view')
  BY <1>1, <1>13 DEF y
<1>17. StateOK'
  BY <1>1, <1>2, <1>5, <1>14, WindowType DEF StateOK
<1>18. ScreenOK'
  BY <1>1, <1>2, <1>14, <1>15, <1>16 DEF ScreenOK
<1> QED
  BY <1>2, <1>15, <1>17, <1>18 DEF Inv

LEMMA ChangeLatencyStep ==
  ASSUME Inv, ChangeLatency
  PROVE  Inv'
<1> DEFINE flagged == ~view.flagged
           dipP == ~view.dipP
<1>1. /\ view.minTier \in Tier /\ view.flagged \in BOOLEAN /\ view.dipP \in BOOLEAN
      /\ flagged \in BOOLEAN /\ dipP \in BOOLEAN
  BY DEF Inv, StateOK, Scoped, View
<1>2. \/ \E tier \in Tier: SetLatency(tier, view.flagged, view.dipP)
      \/ SetLatency(view.minTier, flagged, view.dipP)
      \/ SetLatency(view.minTier, view.flagged, dipP)
  BY DEF ChangeLatency
<1> HIDE DEF flagged, dipP
<1> QED
  BY <1>1, <1>2, SetLatencyStep

LEMMA ShowSnapshotAtStep ==
  ASSUME Inv, NEW i \in Window, ShowSnapshotAt(i)
  PROVE  Inv' /\ Kept
<1>1. /\ view' = view /\ current' = i /\ ready' = FALSE /\ pending' = pending \cup {i}
      /\ shown' = shown /\ drawn' = drawn /\ clicks' \in 0..MaxClicks
      /\ entries' = [entries EXCEPT ![at] = UrlOf(view', i)] /\ at' = at
  BY ClickType DEF ShowSnapshotAt, StartLoad, ReplaceUrl
<1>2. HistoryOK /\ at \in 1..Len(entries) /\ Scoped(view)
  BY DEF Inv, HistoryOK, StateOK
<1>3. HistoryOK'
  BY <1>1, <1>2, ReplacedHistory
<1> QED
  BY <1>1, <1>3 DEF Inv, StateOK, ScreenOK, LoadsOK, Kept

LEMMA PopStateStep ==
  ASSUME Inv, NEW position \in 1..Len(entries), PopState(position)
  PROVE  Inv' /\ (view.held = {} => Toggles(view') = EntryToggles(entries[at']))
<1> DEFINE u == entries[position]
           v == readViewerStateFromUrl(view, u)
<1>1. /\ Written(u) /\ u \in Url /\ WindowOf(u) \in Window
      /\ HistoryOK /\ Scoped(view) /\ view \in View /\ Pinned(view)
  BY WindowOfType DEF Inv, HistoryOK, StateOK, Scoped, Written
<1>2. /\ clicks' \in 0..MaxClicks /\ at' = position
      /\ IF WindowOf(u) # current THEN StartLoad(v, WindowOf(u))
         ELSE /\ IF shown # 0 THEN RenderDoc(v, shown)
                 ELSE view' = v /\ UNCHANGED <<shown, ready, drawn>>
              /\ UNCHANGED <<current, pending>>
      /\ entries' = IF WindowOf(u) = current /\ shown = 0 THEN entries
                    ELSE [entries EXCEPT ![position] = UrlOf(view', current')]
  BY ClickType DEF PopState
<1>3. Scoped(v) /\ Pinned(v) /\ (view.held = {} => Toggles(v) = EntryToggles(u))
  BY <1>1, ReadType, ReadToggles
<1>4. shown = 0 => ~view.resolved /\ view.held = {} /\ ~v.resolved /\ ready = FALSE
  <2> SUFFICES ASSUME shown = 0 PROVE ~view.resolved /\ view.held = {} /\ ~v.resolved /\ ready = FALSE
    OBVIOUS
  <2>1. ~view.resolved
    BY DEF Inv, StateOK
  <2>2. view.held = {}
    BY <1>1, <2>1 DEF Pinned, FamilyActive
  <2>3. ~v.resolved
    BY <1>1, <2>1, ReadResolved
  <2>4. ready = FALSE
    BY WindowType DEF Inv, ScreenOK, StateOK
  <2> QED
    BY <2>1, <2>2, <2>3, <2>4
<1>5. /\ shown \in 0..Windows /\ drawn \in View /\ current \in Window /\ LoadsOK
  BY DEF Inv, StateOK
<1> HIDE DEF v, u
<1>6. entries[at'] = u
  BY <1>2 DEF u
<1>7. CASE WindowOf(u) # current
  <2>1. /\ view' = v /\ current' = WindowOf(u) /\ ready' = FALSE
        /\ pending' = pending \cup {WindowOf(u)} /\ shown' = shown /\ drawn' = drawn
        /\ entries' = [entries EXCEPT ![position] = UrlOf(view', current')]
    BY <1>2, <1>7 DEF StartLoad
  <2>2. HistoryOK'
    BY <1>1, <1>2, <1>3, <2>1, ReplacedHistory
  <2>3. StateOK' /\ ScreenOK' /\ LoadsOK'
    BY <1>1, <1>2, <1>3, <1>4, <1>5, <2>1 DEF StateOK, ScreenOK, LoadsOK
  <2> QED
    BY <1>3, <1>6, <2>1, <2>2, <2>3 DEF Inv
<1>8. CASE WindowOf(u) = current /\ shown # 0
  <2>1. /\ RenderDoc(v, shown) /\ current' = current /\ LoadsOK' /\ shown \in Window
        /\ entries' = [entries EXCEPT ![position] = UrlOf(view', current')]
    BY <1>2, <1>5, <1>8, WindowType DEF LoadsOK
  <2>2. Inv' /\ Toggles(view') = Toggles(v)
    BY <1>2, <1>3, <1>5, <2>1, RenderedStep
  <2> QED
    BY <1>3, <1>6, <2>2
<1>9. CASE WindowOf(u) = current /\ shown = 0
  <2>1. /\ view' = v /\ shown' = shown /\ ready' = FALSE /\ drawn' = drawn
        /\ current' = current /\ pending' = pending /\ entries' = entries
    BY <1>2, <1>4, <1>9
  <2>2. HistoryOK'
    BY <1>1, <1>2, <1>3, <1>4, <1>6, <1>9, <2>1 DEF HistoryOK
  <2>3. StateOK' /\ ScreenOK' /\ LoadsOK'
    BY <1>2, <1>3, <1>4, <1>5, <1>9, <2>1 DEF StateOK, ScreenOK, LoadsOK
  <2> QED
    BY <1>3, <1>6, <2>1, <2>2, <2>3 DEF Inv
<1> QED
  BY <1>7, <1>8, <1>9

LEMMA BackStep ==
  ASSUME Inv, Back \/ Forward
  PROVE  Inv' /\ (view.held = {} => Toggles(view') = EntryToggles(entries[at']))
<1>1. at \in 1..Len(entries) /\ Len(entries) \in Nat
  BY DEF Inv, HistoryOK
<1>2. PICK position \in 1..Len(entries): PopState(position)
  BY <1>1 DEF Back, Forward
<1> QED
  BY <1>2, PopStateStep

LEMMA LoadDoneStep ==
  ASSUME Inv, NEW i \in pending, LoadDone(i)
  PROVE  Inv' /\ Kept
<1>1. /\ i \in Window /\ Scoped(view) /\ at \in 1..Len(entries) /\ current \in Window
  BY DEF Inv, LoadsOK, HistoryOK, StateOK
<1>2. /\ RenderDoc(view, i) /\ current' = current /\ at' = at
      /\ entries' = [entries EXCEPT ![at] = UrlOf(view', current')] /\ LoadsOK'
  BY DEF LoadDone, ReplaceUrl, Inv, LoadsOK
<1> QED
  BY <1>1, <1>2, RenderedStep DEF Kept

LEMMA LoadFailsStep ==
  ASSUME Inv, NEW i \in pending, LoadFails(i)
  PROVE  Inv' /\ Kept
  BY DEF LoadFails, Inv, HistoryOK, StateOK, ScreenOK, LoadsOK, Kept

LEMMA StutterStep ==
  ASSUME Inv, UNCHANGED vars
  PROVE  Inv' /\ Kept
  BY DEF vars, Inv, HistoryOK, StateOK, ScreenOK, LoadsOK, Kept

LEMMA InvInit == Init => Inv
<1> SUFFICES ASSUME Init PROVE Inv
  OBVIOUS
<1>1. PICK u \in Links:
        LET v == readViewerStateFromUrl(Fresh, u)
        IN /\ view = v /\ current = WindowOf(u)
           /\ shown = 0 /\ ready = FALSE /\ drawn = Fresh /\ pending = {WindowOf(u)}
           /\ entries = <<UrlOf(v, WindowOf(u))>> /\ at = 1 /\ clicks = 0
  BY DEF Init
<1>2. u \in Url /\ WindowOf(u) \in Window
  BY PageAssumption, WindowOfType
<1>3. Scoped(view) /\ Pinned(view) /\ ~view.resolved
  BY <1>1, <1>2, FreshView, ReadType, ReadResolved DEF Fresh
<1> DEFINE w == UrlOf(view, current)
<1>4. /\ current \in Window /\ shown = 0 /\ ready = FALSE /\ drawn \in View
      /\ pending \subseteq Window /\ entries = <<w>> /\ at = 1 /\ clicks = 0
  BY <1>1, <1>2, FreshView
<1>5. Written(w) /\ EntryToggles(w) = Toggles(view)
  BY <1>3, <1>4, UrlOfType
<1> HIDE DEF w
<1>6. entries \in Seq(Url) /\ Len(entries) = 1 /\ entries[1] = w
  BY <1>4, <1>5 DEF Written
<1>7. HistoryOK
  BY <1>4, <1>5, <1>6, PageAssumption DEF HistoryOK
<1>8. StateOK
  <2>1. shown \in 0..Windows
    BY <1>4, PageAssumption
  <2> QED
    BY <1>3, <1>4, <2>1 DEF StateOK
<1>9. ScreenOK
  BY <1>4 DEF ScreenOK
<1>10. LoadsOK
  BY <1>4, PageAssumption DEF LoadsOK
<1> QED
  BY <1>7, <1>8, <1>9, <1>10 DEF Inv

LEMMA InvStep ==
  ASSUME Inv, [Next]_vars
  PROVE  /\ Inv'
         /\ Kept \/ ToggleMerge \/ ToggleTemplates \/ ChangeLatency \/ Back \/ Forward
<1>1. CASE \E id \in Section: SetViewerSection(id)
  BY <1>1, SetViewerSectionStep
<1>2. CASE \E link \in LinkTo: Navigate(link)
  BY <1>2, NavigateStep
<1>3. CASE \E link \in LinkTo: OpenInNewTab(link)
  BY <1>3, OpenInNewTabStep
<1>4. CASE Reload
  BY <1>4, ReloadStep
<1>5. CASE ToggleMerge
  BY <1>5, ToggleMergeStep
<1>6. CASE ToggleTemplates
  BY <1>6, ToggleTemplatesStep
<1>7. CASE ChangeLatency
  BY <1>7, ChangeLatencyStep
<1>8. CASE \E i \in Window: ShowSnapshotAt(i)
  BY <1>8, ShowSnapshotAtStep
<1>9. CASE Back \/ Forward
  BY <1>9, BackStep
<1>10. CASE \E i \in pending: LoadDone(i)
  BY <1>10, LoadDoneStep
<1>11. CASE \E i \in pending: LoadFails(i)
  BY <1>11, LoadFailsStep
<1>12. CASE UNCHANGED vars
  BY <1>12, StutterStep
<1> QED
  BY <1>1, <1>2, <1>3, <1>4, <1>5, <1>6, <1>7, <1>8, <1>9, <1>10, <1>11, <1>12 DEF Next

-----------------------------------------------------------------------------
(* Addresses and links                                                       *)

LEMMA RenderedIdle ==
  ASSUME NEW v, Scoped(v), Pinned(v), NEW w \in Window, Resolved(v, w)
  PROVE  Rendered(v, w) = v
<1>1. v \in View /\ v.section \in Section
  BY DEF Scoped, View
<1>2. [v EXCEPT !.resolved = v.canonicalize /\ v.query \in Known[w]] = v
  BY <1>1 DEF Resolved, View
<1>3. Panels(v, w) = v
  BY <1>1, <1>2, SyncIdle DEF Panels
<1>4. Rendered(v, w) = SetSection(v, v.section)
  BY <1>3 DEF Rendered, Resolved
<1>5. SetSection(v, v.section) = [v EXCEPT !.section = v.section]
  BY <1>1, SetSectionIdle DEF Resolved, Scoped
<1> QED
  BY <1>1, <1>4, <1>5 DEF View

(* A new page takes section, filters and preferences from the address.       *)
LEMMA ReadFresh ==
  ASSUME NEW v \in View, NEW u, Written(u),
         u.merge = Toggles(v).merge, u.templates = Toggles(v).templates,
         u.flagged = Toggles(v).flagged, u.dip_p = Toggles(v).dip_p,
         u.min_tier = Toggles(v).min_tier
  PROVE  LET r == readViewerStateFromUrl(Fresh, u)
         IN /\ Scoped(r) /\ r.section = u.view
            /\ r.flagged = v.flagged /\ r.dipP = v.dipP /\ r.minTier = v.minTier
            /\ mergeSimilarSqlForUrl(r) = mergeSimilarSqlForUrl(v)
            /\ (r.templates /\ mergeSimilarSqlForUrl(r))
                 = (v.templates /\ mergeSimilarSqlForUrl(v))
            /\ u.view = "ash" =>
                 /\ r.query = u.query /\ r.node = u.node /\ r.table = u.table_id
                 /\ r.canonicalize = (u.query # Nothing /\ u.canonicalize)
<1> DEFINE a == Asked(Fresh, u)
           r == readViewerStateFromUrl(Fresh, u)
           merge == mergeSimilarSqlForUrl(v)
           mergeR == mergeSimilarSqlForUrl(r)
<1>1. Fresh \in View /\ Fresh.held = {} /\ u \in Url
  BY FreshView DEF Fresh, Written
<1>2. /\ a \in View /\ a.section = u.view
      /\ u.view = "ash" =>
           /\ a.query = u.query /\ a.node = u.node /\ a.table = u.table_id
           /\ a.canonicalize = (u.query # Nothing /\ u.canonicalize)
  BY <1>1, AskedType, Zenon DEF Scoped
<1>3. Scoped(r)
  BY <1>1, ReadType
<1>4. mergeR = u.merge /\ r.templates = u.templates /\ r.flagged = u.flagged
      /\ r.dipP = ~u.dip_p /\ r.minTier = IF u.min_tier \in Tier THEN u.min_tier ELSE "high"
  BY <1>1, ReadToggles, Zenon
<1>5. r = syncMergeSimilarSqlForFamilyScope(a)
  BY ReadAsked
<1> HIDE DEF a, r
<1>6. SameButMerge(r, a)
  BY <1>2, <1>5, SyncType
<1>7. /\ u.merge = merge /\ u.templates = (merge /\ v.templates) /\ u.flagged = v.flagged
      /\ u.dip_p = ~v.dipP /\ u.min_tier = IF v.minTier = "high" THEN Nothing ELSE v.minTier
  BY TogglesType, Zenon
<1>8. v.minTier \in Tier /\ v.dipP \in BOOLEAN /\ v.templates \in BOOLEAN /\ merge \in BOOLEAN
  BY PreferenceType DEF View
<1>9. r.minTier = v.minTier
  BY <1>4, <1>7, <1>8, PageAssumption
<1>10. r.dipP = v.dipP
  <2>1. (~(~v.dipP)) = v.dipP
    BY <1>8
  <2> QED
    BY <1>4, <1>7, <2>1, Zenon
<1> HIDE DEF merge, mergeR
<1>11. (r.templates /\ mergeR) = (v.templates /\ merge)
  <2>1. ((merge /\ v.templates) /\ merge) = (v.templates /\ merge)
    BY <1>8
  <2> QED
    BY <1>4, <1>7, <2>1, Zenon
<1>12. mergeR = merge /\ r.flagged = v.flagged
  BY <1>4, <1>7
<1>13. r.section = u.view
       /\ (u.view = "ash" =>
             /\ r.query = u.query /\ r.node = u.node /\ r.table = u.table_id
             /\ r.canonicalize = (u.query # Nothing /\ u.canonicalize))
  BY <1>2, <1>6, Zenon DEF SameButMerge
<1> QED
  BY <1>3, <1>9, <1>10, <1>11, <1>12, <1>13, Zenon DEF merge, mergeR, r

LEMMA InvReload == Inv => ReloadKeeps
<1> SUFFICES ASSUME Inv, ready, shown = current
             PROVE  Visible(Rendered(readViewerStateFromUrl(Fresh, entries[at]), shown))
                      = Visible(view)
  BY DEF ReloadKeeps
<1> DEFINE u == entries[at]
           r == readViewerStateFromUrl(Fresh, u)
<1>1. /\ Scoped(view) /\ Pinned(view) /\ view \in View
      /\ shown \in Window /\ current \in Window /\ Resolved(view, shown)
      /\ u = UrlOf(view, current)
  BY DEF Inv, StateOK, ScreenOK, Scoped
<1>2. Rendered(view, shown) = view
  BY <1>1, RenderedIdle
<1> HIDE DEF u
<1>3. /\ Written(u) /\ u.view = view.section
      /\ u.merge = Toggles(view).merge /\ u.templates = Toggles(view).templates
      /\ u.flagged = Toggles(view).flagged /\ u.dip_p = Toggles(view).dip_p
      /\ u.min_tier = Toggles(view).min_tier
      /\ view.section = "ash" =>
           /\ u.query = view.query /\ u.node = view.node /\ u.table_id = view.table
           /\ u.canonicalize = view.canonicalize
  BY <1>1, UrlOfType, Zenon
<1>4. /\ Scoped(r) /\ r.section = view.section
      /\ r.flagged = view.flagged /\ r.dipP = view.dipP /\ r.minTier = view.minTier
      /\ mergeSimilarSqlForUrl(r) = mergeSimilarSqlForUrl(view)
      /\ (r.templates /\ mergeSimilarSqlForUrl(r))
           = (view.templates /\ mergeSimilarSqlForUrl(view))
      /\ view.section = "ash" =>
           /\ r.query = u.query /\ r.node = u.node /\ r.table = u.table_id
           /\ r.canonicalize = (u.query # Nothing /\ u.canonicalize)
  BY <1>1, <1>3, ReadFresh, Zenon
<1> HIDE DEF r
<1>5. /\ r.query = view.query /\ r.canonicalize = view.canonicalize
      /\ r.node = view.node /\ r.table = view.table
  <2>1. CASE view.section = "ash"
    <3>1. (view.query # Nothing /\ view.canonicalize) = view.canonicalize
      BY <1>1 DEF Scoped, View
    <3> QED
      BY <1>3, <1>4, <2>1, <3>1, Zenon
  <2>2. CASE view.section # "ash"
    BY <1>1, <1>4, <2>2 DEF Scoped, View, HasAshFilters
  <2> QED
    BY <2>1, <2>2
<1>6. Visible(Rendered(r, shown)) = Visible(Rendered(view, shown))
  BY <1>1, <1>4, <1>5, RenderedSame
<1> QED
  BY <1>2, <1>6 DEF r, u

LEMMA InvLink == Inv => LinkAsClick
<1> SUFFICES ASSUME Inv, ready, NEW link \in LinkTo
             PROVE  Visible(Rendered(Navigated(view, link), shown))
                      = Visible(Rendered(readViewerStateFromUrl(Fresh, Href(view, link)), shown))
  BY DEF LinkAsClick
<1> DEFINE n == Navigated(view, link)
           u == Href(view, link)
           r == readViewerStateFromUrl(Fresh, u)
<1>1. view \in View /\ shown \in Window
  BY DEF Inv, StateOK, ScreenOK, Scoped
<1>2. /\ Scoped(n) /\ n.section = "ash"
      /\ n.query = link.query /\ n.canonicalize = link.canonicalize
      /\ n.node = link.node /\ n.table = link.table
      /\ n.templates = view.templates /\ n.flagged = view.flagged
      /\ n.dipP = view.dipP /\ n.minTier = view.minTier
      /\ mergeSimilarSqlForUrl(n) = mergeSimilarSqlForUrl(view)
  BY <1>1, NavigatedType, Zenon
<1>3. /\ Written(u) /\ u.view = "ash" /\ u.query = link.query
      /\ u.canonicalize = link.canonicalize
      /\ u.node = link.node /\ u.table_id = link.table
      /\ u.merge = Toggles(view).merge /\ u.templates = Toggles(view).templates
      /\ u.flagged = Toggles(view).flagged /\ u.dip_p = Toggles(view).dip_p
      /\ u.min_tier = Toggles(view).min_tier
  BY <1>1, HrefType, Zenon
<1> HIDE DEF n, u
<1>4. /\ Scoped(r) /\ r.section = "ash"
      /\ r.flagged = view.flagged /\ r.dipP = view.dipP /\ r.minTier = view.minTier
      /\ mergeSimilarSqlForUrl(r) = mergeSimilarSqlForUrl(view)
      /\ (r.templates /\ mergeSimilarSqlForUrl(r))
           = (view.templates /\ mergeSimilarSqlForUrl(view))
      /\ r.query = u.query /\ r.node = u.node /\ r.table = u.table_id
      /\ r.canonicalize = (u.query # Nothing /\ u.canonicalize)
  BY <1>1, <1>3, ReadFresh, Zenon
<1> HIDE DEF r
<1>5. r.canonicalize = link.canonicalize
  <2>1. (link.query # Nothing /\ link.canonicalize) = link.canonicalize
    BY LinkType
  <2> QED
    BY <1>3, <1>4, <2>1, Zenon
<1>6. /\ n.query = r.query /\ n.canonicalize = r.canonicalize /\ n.node = r.node
      /\ n.table = r.table /\ n.section = r.section
      /\ n.flagged = r.flagged /\ n.dipP = r.dipP /\ n.minTier = r.minTier
      /\ mergeSimilarSqlForUrl(n) = mergeSimilarSqlForUrl(r)
  BY <1>2, <1>3, <1>4, <1>5
<1>7. (n.templates /\ mergeSimilarSqlForUrl(n)) = (r.templates /\ mergeSimilarSqlForUrl(r))
  BY <1>2, <1>4, Zenon
<1>8. Visible(Rendered(n, shown)) = Visible(Rendered(r, shown))
  BY <1>1, <1>2, <1>4, <1>6, <1>7, RenderedSame
<1> QED
  BY <1>8 DEF n, r, u

-----------------------------------------------------------------------------
(* The theorems                                                              *)

LEMMA Invariance == Spec => []Inv
<1>1. Inv /\ [Next]_vars => Inv'
  BY InvStep
<1> QED
  BY InvInit, <1>1, PTL DEF Spec

(* The page's variables, the screen and the history keep their types: no     *)
(* sequence of clicks, loads and reloads leads to a URL that cannot be read  *)
(* (app.js:262-372).                                                         *)
THEOREM TypeCorrect == Spec => []TypeOK
<1>1. Inv => TypeOK
  BY DEF Inv, HistoryOK, StateOK, LoadsOK, Scoped, TypeOK
<1> QED
  BY Invariance, <1>1, PTL

(* Merge is pinned exactly while the page stands for a resolved family.      *)
(* (app.js:306-325)                                                          *)
THEOREM PinnedByFamily == Spec => []MergePinnedOnlyByFamily
<1>1. Inv => MergePinnedOnlyByFamily
  BY DEF Inv, StateOK, Scoped, Pinned, FamilyActive, MergePinnedOnlyByFamily
<1> QED
  BY Invariance, <1>1, PTL

(* The tables on the screen are those of the controls (app.js:374-443).      *)
THEOREM ScreenTrue == Spec => []ScreenShowsControls
<1>1. Inv => ScreenShowsControls
  BY DEF Inv, ScreenOK, ScreenShowsControls
<1> QED
  BY Invariance, <1>1, PTL

(* The address of a page leads back to it (CHANGELOG.md:9).                  *)
THEOREM AddressLeadsBack == Spec => []ReloadKeeps
  BY Invariance, InvReload, PTL

(* A link leads where a click on it does (app.js:1770-1866).                 *)
THEOREM LinkLeadsWhereClickDoes == Spec => []LinkAsClick
  BY Invariance, InvLink, PTL

(* Only the controls, and Back and Forward, change the preferences; Back and *)
(* Forward restore those of the entry (CHANGELOG.md:9).                      *)
THEOREM ControlsStay == Spec => ControlsKept
<1> DEFINE A == /\ Toggles(view') # Toggles(view) =>
                     ToggleMerge \/ ToggleTemplates \/ ChangeLatency \/ Back \/ Forward
                /\ (Back \/ Forward) /\ view.held = {} =>
                     Toggles(view') = EntryToggles(entries[at'])
<1>1. Inv /\ [Next]_vars => [A]_vars
  <2> SUFFICES ASSUME Inv, [Next]_vars PROVE A
    OBVIOUS
  <2>1. Kept \/ ToggleMerge \/ ToggleTemplates \/ ChangeLatency \/ Back \/ Forward
    BY InvStep
  <2>2. (Back \/ Forward) /\ view.held = {} => Toggles(view') = EntryToggles(entries[at'])
    BY BackStep
  <2> QED
    BY <2>1, <2>2 DEF Kept
<1> QED
  BY Invariance, <1>1, PTL DEF Spec, ControlsKept

-----------------------------------------------------------------------------
(* Tooltips, for any texts and bounds                                        *)

TipTypes ==
  /\ tip \in [Kinds -> Text \cup {Nowhere}] /\ showTimer \in [Kinds -> Text \cup {Nowhere}]
  /\ hideTimer \in [Kinds -> BOOLEAN]
  /\ frames \in Seq(Text) /\ followers \in Seq(NodeText)

(* The only timer that will show something shows what the pointer is on; the *)
(* newest listener is its; and its tables are wired.                         *)
TimersOfPointed ==
  over \in Text =>
    /\ \A k \in Kinds: showTimer[k] \in {over, Nowhere} /\ (k # KindOf(over) => showTimer[k] = Nowhere)
    /\ over \in NodeText => followers # <<>> /\ followers[Len(followers)] = over
    /\ over \in QueryText => ~unwired

TipInv == TipTypes /\ TimersOfPointed /\ PointedIsDrawnLast

(* The two kinds, and which of them a text is.                               *)
LEMMA KindsOfText ==
  /\ Kinds = {"hover", "query"} /\ "hover" # "query"
  /\ \A text: KindOf(text) \in Kinds
  /\ \A text \in Text: KindOf(text) = "hover" <=> text \in NodeText
  /\ \A text \in Text: KindOf(text) = "query" <=> text \in QueryText
  /\ Nowhere \notin Text /\ OnTip \notin Text /\ NodeText \subseteq Text /\ QueryText \subseteq Text
BY TooltipsAssumption DEF Kinds, KindOf, Text

LEMMA TipInvInit == TooltipsInit => TipInv
<1> SUFFICES ASSUME TooltipsInit PROVE TipInv
  OBVIOUS
<1>1. over \notin Text
  BY KindsOfText DEF TooltipsInit
<1>2. TipTypes
  BY DEF TooltipsInit, TipTypes
<1> QED BY <1>1, <1>2 DEF TipInv, TimersOfPointed, PointedIsDrawnLast

(* Nothing is promised of what the pointer is not on.                        *)
LEMMA PointerAway ==
  ASSUME TipTypes', (over \notin Text)'
  PROVE  TipInv'
BY DEF TipInv, TimersOfPointed, PointedIsDrawnLast

(* The pointer comes to something.                                           *)
LEMMA EnterKeeps ==
  ASSUME TipInv, NEW text \in Text, Enter(text)
  PROVE  TipInv'
<1> DEFINE k == KindOf(text)
           other == CHOOSE o \in Kinds: o # k
<1>1. k \in Kinds /\ other \in Kinds /\ other # k
  BY KindsOfText DEF Kinds
<1>2. /\ over' = text /\ tip' = [tip EXCEPT ![other] = Nowhere]
      /\ showTimer' = [o \in Kinds |-> IF o = k THEN text ELSE Nowhere]
      /\ hideTimer' = [o \in Kinds |-> FALSE]
      /\ followers' = IF k = "hover" THEN Append(followers, text) ELSE followers
      /\ frames' = frames /\ unwired' = unwired /\ (k = "query" => ~unwired)
  BY DEF Enter
<1> HIDE DEF other
<1>3. followers' \in Seq(NodeText) /\ (text \in NodeText => followers' # <<>> /\ followers'[Len(followers')] = text)
  <2>1. CASE text \in NodeText
    <3>1. followers' = Append(followers, text) /\ followers \in Seq(NodeText)
      BY <1>2, <2>1, KindsOfText DEF TipInv, TipTypes
    <3> QED BY <2>1, <3>1
  <2>2. CASE text \notin NodeText
    BY <1>2, <2>2, KindsOfText DEF TipInv, TipTypes
  <2> QED BY <2>1, <2>2
<1>4. TipTypes'
  <2>1. tip' \in [Kinds -> Text \cup {Nowhere}]
    BY <1>2 DEF TipInv, TipTypes
  <2>2. showTimer' \in [Kinds -> Text \cup {Nowhere}] /\ hideTimer' \in [Kinds -> BOOLEAN]
    BY <1>2
  <2> QED BY <1>2, <1>3, <2>1, <2>2 DEF TipInv, TipTypes
<1>5. TimersOfPointed'
  BY <1>1, <1>2, <1>3, KindsOfText DEF TimersOfPointed
<1>6. PointedIsDrawnLast'
  <2>1. showTimer'[k] = text /\ ~hideTimer'[k] /\ text # Nowhere
    BY <1>1, <1>2, KindsOfText
  <2> QED BY <1>2, <2>1 DEF PointedIsDrawnLast
<1> QED BY <1>4, <1>5, <1>6 DEF TipInv

(* A frame is asked for: by what is pointed at, or while nothing is.         *)
LEMMA ShowTimerKeeps ==
  ASSUME TipInv, NEW k \in Kinds, ShowTimerFires(k)
  PROVE  TipInv'
<1> DEFINE text == showTimer[k]
           n == Len(frames)
<1>1. /\ text # Nowhere /\ frames' = Append(frames, text)
      /\ showTimer' = [showTimer EXCEPT ![k] = Nowhere]
      /\ UNCHANGED <<over, tip, hideTimer, followers, unwired, dismissed>>
  BY DEF ShowTimerFires
<1>2. text \in Text /\ frames \in Seq(Text)
  BY <1>1 DEF TipInv, TipTypes
<1> HIDE DEF text
<1>3. /\ n \in Nat /\ DOMAIN frames = 1..n /\ DOMAIN frames' = 1..(n + 1)
      /\ frames'[n + 1] = text /\ frames' \in Seq(Text)
  BY <1>1, <1>2
<1>4. TipTypes'
  BY <1>1, <1>3 DEF TipInv, TipTypes
<1>5. CASE over \notin Text
  BY <1>1, <1>4, <1>5, PointerAway
<1>6. CASE over \in Text
  <2>1. text = over /\ k = KindOf(over)
    BY <1>1, <1>6 DEF TipInv, TimersOfPointed, text
  <2>2. showTimer' = [o \in Kinds |-> Nowhere]
    BY <1>1, <1>6, <2>1 DEF TipInv, TipTypes, TimersOfPointed
  <2>3. TimersOfPointed'
    BY <1>1, <2>2 DEF TipInv, TimersOfPointed
  <2>4. PointedIsDrawnLast'
    <3> DEFINE waiting == {i \in DOMAIN frames': KindOf(frames'[i]) = k}
    <3>1. n + 1 \in waiting /\ \A i \in waiting: i <= n + 1 /\ i \in Nat
      BY <1>3, <2>1
    <3> HIDE DEF waiting
    <3>2. \A i \in waiting: (\A j \in waiting: j <= i) => i = n + 1
      BY <1>3, <3>1
    <3>3. ~dismissed => ~hideTimer'[k]
      BY <1>1, <1>6, <2>1 DEF TipInv, PointedIsDrawnLast
    <3>4. over' = over /\ dismissed' = dismissed
      BY <1>1
    <3> QED BY <1>3, <2>1, <3>1, <3>2, <3>3, <3>4 DEF PointedIsDrawnLast, waiting
  <2> QED BY <1>4, <2>3, <2>4 DEF TipInv
<1> QED BY <1>5, <1>6

(* A frame is drawn: what is last remains last.                              *)
LEMMA FrameKeeps ==
  ASSUME TipInv, AnimationFrame
  PROVE  TipInv'
<1> DEFINE text == Head(frames)
           n == Len(frames)
<1>1. /\ frames # <<>> /\ tip' = [tip EXCEPT ![KindOf(text)] = text] /\ frames' = Tail(frames)
      /\ UNCHANGED <<over, showTimer, hideTimer, followers, unwired, dismissed>>
  BY DEF AnimationFrame
<1>2. frames \in Seq(Text)
  BY DEF TipInv, TipTypes
<1>3. /\ n \in Nat /\ n > 0 /\ text = frames[1] /\ text \in Text
      /\ DOMAIN frames = 1..n /\ DOMAIN frames' = 1..(n - 1) /\ frames' \in Seq(Text)
      /\ \A i \in 1..(n - 1): frames'[i] = frames[i + 1]
  BY <1>1, <1>2
<1> HIDE DEF text, n
<1>4. TipTypes'
  <2>1. tip' \in [Kinds -> Text \cup {Nowhere}]
    BY <1>1, <1>3 DEF TipInv, TipTypes
  <2> QED BY <1>1, <1>3, <2>1 DEF TipInv, TipTypes
<1>5. CASE over \notin Text
  BY <1>1, <1>4, <1>5, PointerAway
<1>6. CASE over \in Text
  <2>1. TimersOfPointed'
    BY <1>1 DEF TipInv, TimersOfPointed
  <2>2. PointedIsDrawnLast'
    <3> SUFFICES ASSUME ~dismissed PROVE PointedIsDrawnLast'
      BY <1>1 DEF PointedIsDrawnLast
    <3> DEFINE k == KindOf(over)
               old == {i \in DOMAIN frames: KindOf(frames[i]) = k}
               new == {i \in DOMAIN frames': KindOf(frames'[i]) = k}
    <3>1. /\ ~hideTimer[k]
          /\ showTimer[k] = Nowhere =>
               IF old = {} THEN tip[k] = over
               ELSE \A i \in old: (\A j \in old: j <= i) => frames[i] = over
      BY <1>6 DEF TipInv, PointedIsDrawnLast
    <3>2. \A i: i \in old <=> i \in 1..n /\ KindOf(frames[i]) = k
      BY <1>3
    <3>3. \A i: i \in new <=> i \in 1..(n - 1) /\ KindOf(frames[i + 1]) = k
      BY <1>3
    <3>4. k \in Kinds /\ tip \in [Kinds -> Text \cup {Nowhere}]
      BY KindsOfText DEF TipInv, TipTypes
    <3> HIDE DEF k, old, new
    <3>5. \A i \in new: i + 1 \in old /\ i \in 1..(n - 1) /\ frames'[i] = frames[i + 1]
      BY <1>3, <3>2, <3>3
    <3>6. \A i \in old: i = 1 \/ (i - 1 \in new /\ i - 1 + 1 = i)
      BY <1>3, <3>2, <3>3
    <3>7. ASSUME showTimer[k] = Nowhere, new = {}
          PROVE  tip'[k] = over
      <4>1. CASE old = {}
        <5>1. KindOf(text) # k
          BY <1>3, <3>2, <4>1
        <5> QED BY <1>1, <3>1, <3>4, <3>7, <4>1, <5>1
      <4>2. CASE old # {}
        <5>1. \A i \in old: i = 1
          BY <3>6, <3>7
        <5>2. 1 \in old /\ frames[1] = over
          BY <3>1, <3>7, <4>2, <5>1
        <5>3. KindOf(text) = k /\ text = over
          BY <1>3, <3>2, <5>2
        <5> QED BY <1>1, <3>4, <5>3
      <4> QED BY <4>1, <4>2
    <3>8. ASSUME showTimer[k] = Nowhere, NEW i \in new, \A j \in new: j <= i
          PROVE  frames'[i] = over
      <4>1. i + 1 \in old /\ i \in 1..(n - 1) /\ frames'[i] = frames[i + 1]
        BY <3>5
      <4>2. \A j \in old: j <= i + 1
        <5> SUFFICES ASSUME NEW j \in old PROVE j <= i + 1
          OBVIOUS
        <5>1. CASE j = 1
          BY <1>3, <4>1, <5>1
        <5>2. CASE j - 1 \in new /\ j - 1 + 1 = j
          <6>1. j - 1 <= i /\ j \in Int
            BY <1>3, <3>2, <3>8, <5>2
          <6> QED BY <1>3, <4>1, <6>1
        <5> QED BY <3>6, <5>1, <5>2
      <4> QED BY <3>1, <3>8, <4>1, <4>2
    <3>9. over' = over /\ showTimer' = showTimer /\ hideTimer' = hideTimer
      BY <1>1
    <3> QED BY <3>1, <3>7, <3>8, <3>9 DEF PointedIsDrawnLast, k, new
  <2> QED BY <1>4, <2>1, <2>2 DEF TipInv
<1> QED BY <1>5, <1>6

(* A timer hides, tables are wired, the pointer moves: not what it is on.    *)
LEMMA HideTimerKeeps ==
  ASSUME TipInv, NEW k \in Kinds, HideTimerFires(k)
  PROVE  TipInv'
<1>1. /\ hideTimer[k] /\ hideTimer' = [hideTimer EXCEPT ![k] = FALSE]
      /\ tip' = [tip EXCEPT ![k] = Nowhere]
      /\ UNCHANGED <<over, showTimer, frames, followers, unwired, dismissed>>
  BY DEF HideTimerFires
<1>2. TipTypes'
  BY <1>1 DEF TipInv, TipTypes
<1>3. TimersOfPointed'
  BY <1>1 DEF TipInv, TimersOfPointed
<1>4. PointedIsDrawnLast'
  <2> SUFFICES ASSUME over \in Text, ~dismissed PROVE PointedIsDrawnLast'
    BY <1>1 DEF PointedIsDrawnLast
  <2>1. KindOf(over) # k
    BY <1>1 DEF TipInv, PointedIsDrawnLast
  <2>2. KindOf(over) \in Kinds
    BY KindsOfText
  <2>3. tip'[KindOf(over)] = tip[KindOf(over)] /\ hideTimer'[KindOf(over)] = hideTimer[KindOf(over)]
    BY <1>1, <2>1, <2>2 DEF TipInv, TipTypes
  <2> QED BY <1>1, <2>3 DEF TipInv, PointedIsDrawnLast
<1> QED BY <1>2, <1>3, <1>4 DEF TipInv

LEMMA ObserveKeeps ==
  ASSUME TipInv, Observe
  PROVE  TipInv'
<1>1. /\ unwired /\ frames = <<>> /\ ~unwired'
      /\ tip' = [k \in Kinds |-> IF k \in {"query"} THEN Nowhere ELSE tip[k]]
      /\ showTimer' = [k \in Kinds |-> IF k \in {"query"} THEN Nowhere ELSE showTimer[k]]
      /\ hideTimer' = [k \in Kinds |-> k \notin {"query"} /\ hideTimer[k]]
      /\ UNCHANGED <<over, frames, followers, dismissed>>
  BY DEF Observe, HideImmediate
<1>2. TipTypes'
  BY <1>1 DEF TipInv, TipTypes
<1>3. CASE over \notin Text
  BY <1>1, <1>2, <1>3, PointerAway
<1>4. CASE over \in Text
  <2>1. KindOf(over) \in Kinds /\ KindOf(over) # "query"
    BY <1>1, <1>4, KindsOfText DEF TipInv, TimersOfPointed
  <2>2. /\ tip'[KindOf(over)] = tip[KindOf(over)] /\ hideTimer'[KindOf(over)] = hideTimer[KindOf(over)]
        /\ showTimer'[KindOf(over)] = showTimer[KindOf(over)]
    BY <1>1, <2>1 DEF TipInv, TipTypes
  <2>3. TimersOfPointed'
    BY <1>1, <1>4 DEF TipInv, TimersOfPointed
  <2>4. PointedIsDrawnLast'
    BY <1>1, <2>2 DEF TipInv, PointedIsDrawnLast
  <2> QED BY <1>2, <2>3, <2>4 DEF TipInv
<1> QED BY <1>3, <1>4

LEMMA MoveKeeps ==
  ASSUME TipInv, Move
  PROVE  TipInv'
<1>1. /\ followers # <<>> /\ tip' = [tip EXCEPT !["hover"] = followers[Len(followers)]]
      /\ UNCHANGED <<over, showTimer, hideTimer, frames, followers, unwired, dismissed>>
  BY DEF Move
<1>2. followers[Len(followers)] \in Text
  <2>1. followers \in Seq(NodeText)
    BY DEF TipInv, TipTypes
  <2>2. followers[Len(followers)] \in NodeText
    BY <1>1, <2>1
  <2> QED BY <2>2, KindsOfText
<1>3. TipTypes'
  BY <1>1, <1>2 DEF TipInv, TipTypes
<1>4. TimersOfPointed'
  BY <1>1 DEF TipInv, TimersOfPointed
<1>5. PointedIsDrawnLast'
  <2> SUFFICES ASSUME over \in Text, ~dismissed PROVE PointedIsDrawnLast'
    BY <1>1 DEF PointedIsDrawnLast
  <2>1. CASE over \in NodeText
    <3>1. tip'[KindOf(over)] = over
      BY <1>1, <2>1, KindsOfText DEF TipInv, TipTypes, TimersOfPointed
    <3> QED BY <1>1, <3>1 DEF TipInv, PointedIsDrawnLast
  <2>2. CASE over \notin NodeText
    <3>1. KindOf(over) \in Kinds /\ KindOf(over) # "hover"
      BY <2>2, KindsOfText
    <3>2. tip'[KindOf(over)] = tip[KindOf(over)]
      BY <1>1, <3>1 DEF TipInv, TipTypes
    <3> QED BY <1>1, <3>2 DEF TipInv, PointedIsDrawnLast
  <2> QED BY <2>1, <2>2
<1> QED BY <1>3, <1>4, <1>5 DEF TipInv

LEMMA TipInvNext == TipInv /\ [TooltipsNext]_tooltipVars => TipInv'
<1> SUFFICES ASSUME TipInv, [TooltipsNext]_tooltipVars PROVE TipInv'
  OBVIOUS
<1>1. CASE UNCHANGED tooltipVars
  BY <1>1 DEF tooltipVars, TipInv, TipTypes, TimersOfPointed, PointedIsDrawnLast
<1>2. CASE Leave
  <2>1. over' \notin Text
    BY <1>2, KindsOfText DEF Leave
  <2>2. TipTypes'
    <3>1. followers' \in Seq(NodeText)
      <4>1. over \in Text /\ followers' = IF KindOf(over) = "hover"
                                           THEN SubSeq(followers, 1, Len(followers) - 1) ELSE followers
        BY <1>2 DEF Leave
      <4>2. followers \in Seq(NodeText)
        BY DEF TipInv, TipTypes
      <4>3. KindOf(over) = "hover" => SubSeq(followers, 1, Len(followers) - 1) \in Seq(NodeText)
        <5> SUFFICES ASSUME KindOf(over) = "hover"
                     PROVE  SubSeq(followers, 1, Len(followers) - 1) \in Seq(NodeText)
          OBVIOUS
        <5>1. followers # <<>>
          BY <4>1, KindsOfText DEF TipInv, TimersOfPointed
        <5> QED BY <4>2, <5>1
      <4> QED BY <4>1, <4>2, <4>3
    <3> QED BY <1>2, <3>1 DEF Leave, TipInv, TipTypes
  <2> QED BY <2>1, <2>2, PointerAway
<1>3. CASE EnterTip \/ LeaveTip
  <2>1. over' \notin Text
    BY <1>3, KindsOfText DEF EnterTip, LeaveTip
  <2>2. TipTypes'
    BY <1>3 DEF EnterTip, LeaveTip, TipInv, TipTypes
  <2> QED BY <2>1, <2>2, PointerAway
<1>4. CASE ScrollOrResize
  <2>1. TipTypes'
    BY <1>4 DEF ScrollOrResize, HideImmediate, TipInv, TipTypes
  <2>2. TimersOfPointed'
    BY <1>4, KindsOfText DEF ScrollOrResize, HideImmediate, TipInv, TimersOfPointed
  <2>3. PointedIsDrawnLast'
    BY <1>4 DEF ScrollOrResize, PointedIsDrawnLast
  <2> QED BY <2>1, <2>2, <2>3 DEF TipInv
<1>5. CASE Rerender
  <2>1. over' \notin Text
    BY <1>5, KindsOfText DEF Rerender
  <2>2. TipTypes'
    BY <1>5 DEF Rerender, TipInv, TipTypes
  <2> QED BY <2>1, <2>2, PointerAway
<1> QED BY <1>1, <1>2, <1>3, <1>4, <1>5, EnterKeeps, MoveKeeps, ObserveKeeps,
           ShowTimerKeeps, HideTimerKeeps, FrameKeeps DEF TooltipsNext

(* Timers, frames and listeners left behind by whatever the pointer was on   *)
(* before never have the last word over what it rests on (app.js:2648-3018): *)
(* what PointedIsShown adds is that timers and frames run.                   *)
THEOREM PointedDrawnLast == TooltipsSpec => []PointedIsDrawnLast
<1>1. TipInv => PointedIsDrawnLast
  BY DEF TipInv
<1> QED BY <1>1, TipInvInit, TipInvNext, PTL DEF TooltipsSpec
=============================================================================
