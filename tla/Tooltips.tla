------------------------------ MODULE Tooltips ------------------------------
(* The two tooltips of the page (web/app.js): that of node names, which      *)
(* follows the pointer, and that of queries, which can be entered.  Each is  *)
(* shown by a timer and then an animation frame, and hidden by a timer; a    *)
(* frame cannot be taken back.  Delays are not modelled: timers that run at  *)
(* the same time fire in any order.                                          *)
EXTENDS Integers, Sequences

CONSTANTS
  NodeText, QueryText,  \* what can be pointed at, by the text it shows
  OnTip,                \* the pointer is on the query tooltip
  Nowhere,              \* null; the pointer is on none of them
  MaxEvents,            \* bound: events of pointer, wheel and page
  MaxFrames             \* bound: animation frames that wait

Kinds == {"hover", "query"}
Text  == NodeText \cup QueryText

ASSUME TooltipsAssumption ==
  /\ NodeText \cap QueryText = {} /\ OnTip # Nowhere
  /\ {OnTip, Nowhere} \cap Text = {}
  /\ {MaxEvents, MaxFrames} \subseteq Nat

VARIABLES
  over,       \* what the pointer is on
  tip,        \* kind -> text on the screen
  showTimer,  \* kind -> text that its timer will show
  hideTimer,  \* kind -> is its timer running?
  frames,     \* texts of the waiting animation frames, oldest first
  followers,  \* mousemove listeners on the document, by their text
  unwired,    \* the tables are new and their query cells not observed yet
  dismissed,  \* ghost: tooltips were put away after the pointer came here
  events

tooltipVars ==
  <<over, tip, showTimer, hideTimer, frames, followers, unwired, dismissed, events>>

TooltipsInit ==
  /\ over = Nowhere
  /\ tip = [k \in Kinds |-> Nowhere]
  /\ showTimer = [k \in Kinds |-> Nowhere]
  /\ hideTimer = [k \in Kinds |-> FALSE]
  /\ frames = <<>> /\ followers = <<>>
  /\ unwired = FALSE /\ dismissed = FALSE
  /\ events = 0

KindOf(text) == IF text \in NodeText THEN "hover" ELSE "query"
Event == events < MaxEvents /\ events' = events + 1

(* hideHoverTooltipImmediate, hideQueryTooltipImmediate                      *)
HideImmediate(kinds) ==
  /\ tip' = [k \in Kinds |-> IF k \in kinds THEN Nowhere ELSE tip[k]]
  /\ showTimer' = [k \in Kinds |-> IF k \in kinds THEN Nowhere ELSE showTimer[k]]
  /\ hideTimer' = [k \in Kinds |-> k \notin kinds /\ hideTimer[k]]

Enter_HidePending(text) ==
  LET k == KindOf(text)
      other == CHOOSE o \in Kinds: o # k
  IN /\ over = Nowhere /\ (k = "query" => ~unwired)
     /\ Event
     /\ over' = text /\ dismissed' = FALSE
     /\ tip' = [tip EXCEPT ![other] = Nowhere]
     /\ showTimer' = [o \in Kinds |-> IF o = k THEN text ELSE Nowhere]
     /\ hideTimer' = [hideTimer EXCEPT ![other] = FALSE]
     /\ followers' = IF k = "hover" THEN Append(followers, text) ELSE followers
     /\ UNCHANGED <<frames, unwired>>

(* Without a new timer while one runs.                                       *)
Enter_TimerRuns(text) ==
  LET k == KindOf(text)
      other == CHOOSE o \in Kinds: o # k
  IN /\ over = Nowhere /\ (k = "query" => ~unwired)
     /\ Event
     /\ over' = text /\ dismissed' = FALSE
     /\ tip' = [tip EXCEPT ![other] = Nowhere]
     /\ showTimer' = [o \in Kinds |-> IF o # k THEN Nowhere
                                      ELSE IF showTimer[k] # Nowhere THEN showTimer[k] ELSE text]
     /\ hideTimer' = [o \in Kinds |-> FALSE]
     /\ followers' = IF k = "hover" THEN Append(followers, text) ELSE followers
     /\ UNCHANGED <<frames, unwired>>

(* mouseenter.  A query cell has its listeners from the first time that its  *)
(* size was observed.                                                        *)
Enter(text) ==
  LET k == KindOf(text)
      other == CHOOSE o \in Kinds: o # k
  IN /\ over = Nowhere /\ (k = "query" => ~unwired)
     /\ Event
     /\ over' = text /\ dismissed' = FALSE
     /\ tip' = [tip EXCEPT ![other] = Nowhere]
     /\ showTimer' = [o \in Kinds |-> IF o = k THEN text ELSE Nowhere]
     /\ hideTimer' = [o \in Kinds |-> FALSE]
     /\ followers' = IF k = "hover" THEN Append(followers, text) ELSE followers
     /\ UNCHANGED <<frames, unwired>>

(* mouseleave                                                                *)
Leave ==
  /\ over \in Text
  /\ Event
  /\ LET k == KindOf(over)
     IN /\ showTimer' = [showTimer EXCEPT ![k] = Nowhere]
        /\ hideTimer' = [hideTimer EXCEPT ![k] = TRUE]
        /\ followers' = IF k = "hover" THEN SubSeq(followers, 1, Len(followers) - 1)
                        ELSE followers
  /\ over' = Nowhere
  /\ UNCHANGED <<tip, frames, unwired, dismissed>>

(* From the query to its tooltip, to read or copy the text.                  *)
EnterTip ==
  /\ over = Nowhere /\ tip["query"] # Nowhere
  /\ Event
  /\ over' = OnTip
  /\ hideTimer' = [hideTimer EXCEPT !["query"] = FALSE]
  /\ UNCHANGED <<tip, showTimer, frames, followers, unwired, dismissed>>

LeaveTip ==
  /\ over = OnTip
  /\ Event
  /\ over' = Nowhere
  /\ hideTimer' = [hideTimer EXCEPT !["query"] = TRUE]
  /\ UNCHANGED <<tip, showTimer, frames, followers, unwired, dismissed>>

(* mousemove: the newest listener has the last word.                         *)
Move ==
  /\ followers # <<>> /\ tip["hover"] # Nowhere
  /\ tip' = [tip EXCEPT !["hover"] = followers[Len(followers)]]
  /\ UNCHANGED <<over, showTimer, hideTimer, frames, followers, unwired, dismissed, events>>

ScrollOrResize ==
  /\ Event
  /\ HideImmediate(Kinds)
  /\ dismissed' = TRUE
  /\ UNCHANGED <<over, frames, followers, unwired>>

(* renderDoc: what the pointer was on is gone, without a mouseleave.         *)
Rerender ==
  /\ Event
  /\ over' = IF over \in Text THEN Nowhere ELSE over
  /\ unwired' = TRUE /\ dismissed' = TRUE
  /\ UNCHANGED <<tip, showTimer, hideTimer, frames, followers>>

(* The observer of a removed query cell finds it not truncated; that of a new*)
(* one wires it.  Observers run after the frames that wait.                  *)
Observe ==
  /\ unwired /\ frames = <<>>
  /\ unwired' = FALSE
  /\ HideImmediate({"query"})
  /\ UNCHANGED <<over, frames, followers, dismissed, events>>

ShowTimerFires(k) ==
  /\ showTimer[k] # Nowhere /\ Len(frames) < MaxFrames
  /\ frames' = Append(frames, showTimer[k])
  /\ showTimer' = [showTimer EXCEPT ![k] = Nowhere]
  /\ UNCHANGED <<over, tip, hideTimer, followers, unwired, dismissed, events>>

HideTimerFires(k) ==
  /\ hideTimer[k]
  /\ hideTimer' = [hideTimer EXCEPT ![k] = FALSE]
  /\ tip' = [tip EXCEPT ![k] = Nowhere]
  /\ UNCHANGED <<over, showTimer, frames, followers, unwired, dismissed, events>>

AnimationFrame ==
  /\ frames # <<>>
  /\ tip' = [tip EXCEPT ![KindOf(Head(frames))] = Head(frames)]
  /\ frames' = Tail(frames)
  /\ UNCHANGED <<over, showTimer, hideTimer, followers, unwired, dismissed, events>>

TooltipsNext ==
  \/ \E text \in Text: Enter(text)
  \/ Leave
  \/ EnterTip
  \/ LeaveTip
  \/ Move
  \/ ScrollOrResize
  \/ Rerender
  \/ Observe
  \/ \E k \in Kinds: ShowTimerFires(k)
  \/ \E k \in Kinds: HideTimerFires(k)
  \/ AnimationFrame

(* The browser runs timers that are due, frames and observers.               *)
TooltipsFairness ==
  /\ \A k \in Kinds: WF_tooltipVars(ShowTimerFires(k)) /\ WF_tooltipVars(HideTimerFires(k))
  /\ WF_tooltipVars(AnimationFrame)
  /\ WF_tooltipVars(Observe)

TooltipsSpec == TooltipsInit /\ [][TooltipsNext]_tooltipVars /\ TooltipsFairness

-----------------------------------------------------------------------------
(* Properties                                                                *)

(* Once the timer of what the pointer rests on has run, it is the last of its*)
(* kind to be drawn: by the newest frame that waits, or it is drawn already  *)
(* and no frame will draw over it.  And no timer will hide it, whatever else *)
(* the pointer came from and left behind (app.js:2648-3018).                 *)
PointedIsDrawnLast ==
  over \in Text /\ ~dismissed =>
    LET k == KindOf(over)
        waiting == {i \in DOMAIN frames: KindOf(frames[i]) = k}
    IN /\ ~hideTimer[k]
       /\ showTimer[k] = Nowhere =>
            IF waiting = {} THEN tip[k] = over
            ELSE \A i \in waiting: (\A j \in waiting: j <= i) => frames[i] = over

(* The tooltip of what the pointer rests on comes and stays, however fast    *)
(* the pointer came from something else: no timer or frame of what was there *)
(* before hides or replaces it (app.js:2648-3018).  Scrolling and new tables *)
(* put it away until the pointer comes again.                                *)
PointedIsShown ==
  \A text \in Text:
    <>[](over = text /\ ~dismissed) => <>[](tip[KindOf(text)] = text)
=============================================================================
