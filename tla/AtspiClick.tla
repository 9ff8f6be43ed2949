------------------------------ MODULE AtspiClick ------------------------------
(***************************************************************************)
(* AtspiDriver.capture_next_click: the caller listens to presses and to    *)
(* changes of the focus, and waits for the first event that is a choice of *)
(* the user's; the dispatch thread of the registry looks at each event     *)
(* when its turn comes, when the screen may show something else already.   *)
(***************************************************************************)
EXTENDS Naturals, Sequences, FiniteSets

CONSTANTS
  Components,          \* objects of the tested application that can be operated
  MaxScreenEvents      \* bound on clicks and on changes of the focus and the screen

(* What can be clicked: a component, a frame or a label that belongs to    *)
(* none, a window of the harness, and its capture dialog.                  *)
Frame == "frame"
Harness == "harness"
Dialog == "dialog"
Nothing == "nothing"
Own == {Harness, Dialog}
Things == Components \cup {Frame} \cup Own

(* An event: its kind, its source (none, or an object that is defunct by   *)
(* the time), and what was at the place its two details name: what was     *)
(* clicked. The details of a change of the focus are 1 and 0, which reads  *)
(* as the corner of the desktop.                                           *)
Sources == Things \cup {Nothing, "defunct"}
Events == [kind : {"press", "focus"}, source : Sources, of : Things]

VARIABLES
  state,               \* of the caller: idle, arming, waiting, leaving, ended
  listening,           \* events listened to
  focused,             \* what has the focus
  baseline,            \* what had it when the capture began
  changed,             \* the screen shows other things than were clicked
  queue,               \* events on their way
  handling,            \* the result of the event at hand, or Nothing
  outcome,             \* none, timeout, error or a component
  clicked,             \* what the user clicked while the press was listened to
  first,               \* what the first event that counts comes to
  strayed,             \* the focus moved without a click on a component, or the
                       \* harness was clicked and not recognised
  events

callerVars == <<state, listening, baseline>>
screen == <<focused, changed, clicked, strayed, events>>
vars == <<callerVars, screen, queue, handling, outcome, first>>

Init ==
  /\ state = "idle" /\ listening = {} /\ baseline = Nothing
  /\ focused \in Components \cup {Nothing} /\ changed = FALSE /\ queue = <<>> /\ handling = Nothing
  /\ outcome = "none" /\ clicked = {} /\ first = Nothing /\ strayed = FALSE /\ events = 0

-----------------------------------------------------------------------------
(* The caller *)

Arm ==
  /\ state = "idle" /\ state' = "arming" /\ baseline' = focused
  /\ UNCHANGED <<listening, screen, queue, handling, outcome, first>>

Listen ==
  /\ state = "arming"
  /\ listening' = listening \cup {IF listening = {} THEN "press" ELSE "focus"}
  /\ state' = IF listening = {} THEN "arming" ELSE "waiting"
  /\ UNCHANGED <<baseline, screen, queue, handling, outcome, first>>

(* Mutant of Finish: a later result replaces an earlier one. *)
FinishAlways(result) == outcome' = result

(* finish: the first result stays, whichever thread has it.                *)
Finish(result) == outcome' = IF outcome = "none" THEN result ELSE outcome

Done ==
  /\ state = "waiting" /\ outcome # "none" /\ state' = "leaving"
  /\ UNCHANGED <<listening, baseline, screen, queue, handling, outcome, first>>

TimeOut ==
  /\ state = "waiting" /\ Finish("timeout") /\ state' = "leaving"
  /\ UNCHANGED <<listening, baseline, screen, queue, handling, first>>

(* An event that is being handled is handled to its end.                   *)
StopListening ==
  /\ state = "leaving" /\ listening # {}
  /\ listening' = listening \ {IF "press" \in listening THEN "press" ELSE "focus"}
  /\ UNCHANGED <<state, baseline, screen, queue, handling, outcome, first>>

Return ==
  /\ state = "leaving" /\ listening = {} /\ state' = "ended"
  /\ UNCHANGED <<listening, baseline, screen, queue, handling, outcome, first>>

-----------------------------------------------------------------------------
(* The dispatch thread *)

(* Events without a source, of the capture dialog, and of what had the     *)
(* focus at the beginning do not count.                                    *)
Counts(e) == e.source \notin {Nothing, Dialog} /\ (baseline # Nothing => e.source # baseline)

(* The object at the point of the event, or an error. At the corner of the *)
(* desktop anything may lie, and under the windows of the harness, which   *)
(* are not searched.                                                       *)
AtPoint(e) ==
  IF changed \/ e.kind = "focus" \/ e.of \in Own THEN Components \cup {"error"}
  ELSE {IF e.of \in Components THEN e.of ELSE "error"}

(* Mutant of Snapshot: the source is not looked at. *)
SnapshotAtPoint(e) == AtPoint(e)

(* capture_click_snapshot: the source if it can be operated, an error if   *)
(* it is the harness; otherwise what lies at the point of the event.       *)
Snapshot(e) ==
  IF e.source \in Components THEN {e.source} ELSE IF e.source = Harness THEN {"error"} ELSE AtPoint(e)

Handle ==
  /\ queue # <<>> /\ handling = Nothing
  /\ LET e == Head(queue)
     IN IF e.kind \in listening /\ Counts(e)
        THEN /\ handling' \in Snapshot(e)
             /\ first' = IF first = Nothing THEN handling' ELSE first
             /\ strayed' = (strayed \/ (e.source \notin Components /\ (e.kind = "focus" \/ e.of \in Own)))
        ELSE UNCHANGED <<handling, first, strayed>>
  /\ queue' = Tail(queue)
  /\ UNCHANGED <<callerVars, focused, changed, clicked, events, outcome>>

Handled ==
  /\ handling # Nothing /\ handling' = Nothing /\ Finish(handling)
  /\ UNCHANGED <<callerVars, screen, queue, first>>

-----------------------------------------------------------------------------
(* The user and the tested application *)

Counted == events < MaxScreenEvents /\ events' = events + 1

(* A press names what was clicked, the frame around it or nothing; what is *)
(* clicked takes the focus or does not.                                    *)
Click(t) ==
  /\ Counted
  /\ \E source \in {t, Nothing, "defunct"} \cup (IF t \in Own THEN {} ELSE {Frame}), takes \in BOOLEAN :
       LET press == [kind |-> "press", source |-> source, of |-> t]
           focus == [kind |-> "focus", source |-> t, of |-> t]
       IN /\ queue' = Append(queue, press) \o IF takes /\ focused # t THEN <<focus>> ELSE <<>>
          /\ focused' = IF takes THEN t ELSE focused
  /\ clicked' = clicked \cup {t}
  /\ UNCHANGED <<callerVars, changed, strayed, handling, outcome, first>>

MoveFocus(t) ==
  /\ Counted /\ t # focused /\ focused' = t /\ queue' = Append(queue, [kind |-> "focus", source |-> t, of |-> t])
  /\ strayed' = TRUE
  /\ UNCHANGED <<callerVars, changed, clicked, handling, outcome, first>>

ChangeScreen ==
  /\ Counted /\ ~changed /\ changed' = TRUE
  /\ UNCHANGED <<callerVars, focused, clicked, strayed, queue, handling, outcome, first>>

-----------------------------------------------------------------------------
Caller == Arm \/ Listen \/ Done \/ TimeOut \/ StopListening \/ Return
Dispatch == Handle \/ Handled
World == (\E t \in Things : Click(t) \/ MoveFocus(t)) \/ ChangeScreen

Next == Caller \/ Dispatch \/ World

Spec == Init /\ [][Next]_vars

-----------------------------------------------------------------------------
(* Properties *)

TypeOK ==
  /\ state \in {"idle", "arming", "waiting", "leaving", "ended"} /\ listening \subseteq {"press", "focus"}
  /\ focused \in Things \cup {Nothing} /\ baseline \in Things \cup {Nothing} /\ changed \in BOOLEAN
  /\ queue \in Seq(Events) /\ handling \in Components \cup {Nothing, "error"}
  /\ outcome \in Components \cup {"none", "timeout", "error"} /\ clicked \subseteq Things
  /\ first \in Components \cup {Nothing, "error"} /\ strayed \in BOOLEAN /\ events \in 0 .. MaxScreenEvents

(* The first event that counts decides, unless the time was over before    *)
(* it was handled, and no later one changes that. What is captured is      *)
(* something the user clicked, as long as the screen stays as it was       *)
(* clicked, the focus is moved by clicks on components alone and clicks on *)
(* the harness can be told.                                                *)
CapturesClicked ==
  /\ outcome \notin {"none", "timeout"} => outcome = first
  /\ outcome \in Components /\ ~strayed /\ ~changed => outcome \in clicked
=============================================================================
