------------------------------- MODULE MCPage -------------------------------
(* Page and Tooltips for TLC.  Two windows: the older one resolves both ids  *)
(* and has histograms, the newer one resolves one id and has none.  Pages    *)
(* are opened plain, with a tab and its controls, with a family that the     *)
(* older window resolves, and with parameters that do not fit each other.    *)
(* The tooltips are those of a plain page before the first click; what       *)
(* clicks do to them is Rerender.                                            *)
EXTENDS Page, Tooltips

CONSTANTS q1, q2, node1, table1, null, chip1, chip2, sql1, sql2, onTip

MCQid        == {q1, q2}
MCKnown      == <<{q1, q2}, {q1}>>
MCHistograms == {1}
MCTier       == {"high", "all"}

Plain == MakeUrl("pgss", 0, null, FALSE, null, null, Toggles(Fresh))
MCLinks ==
  {Plain,
   [Plain EXCEPT !.view = "latency", !.t = 1, !.merge = TRUE, !.templates = TRUE,
                 !.dip_p = TRUE],
   [Plain EXCEPT !.view = "ash", !.t = 1, !.query = q2, !.canonicalize = TRUE,
                 !.node = node1, !.templates = TRUE, !.flagged = TRUE],
   [Plain EXCEPT !.view = "tablets", !.query = q1, !.canonicalize = TRUE,
                 !.merge = TRUE, !.min_tier = "all"]}

PageInit == Init /\ TooltipsInit

PageNext ==
  \/ Next /\ events = 0 /\ UNCHANGED tooltipVars
  \/ TooltipsNext /\ ready /\ clicks = 0 /\ entries[at] = Plain /\ UNCHANGED vars

PageSpec == PageInit /\ [][PageNext]_<<vars, tooltipVars>> /\ TooltipsFairness
=============================================================================
