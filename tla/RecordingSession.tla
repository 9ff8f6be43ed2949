-------------------------- MODULE RecordingSession --------------------------
(***************************************************************************)
(* recording/session.py: the observations of independent adapters are      *)
(* correlated into the interactions a test author will replay.             *)
(*                                                                         *)
(* A user makes gestures on the objects of one window. Each adapter turns  *)
(* a gesture into observations and delivers them, in its own order and at  *)
(* its own pace, to RecordingSession.observe, which holds the session's    *)
(* lock from beginning to end. Timestamps are those of the gesture; the    *)
(* 0.2 s, correlation_window (0.75 s) and 3.0 s of the code are the        *)
(* constants DualWindow, CorrWindow and DupWindow.                         *)
(***************************************************************************)
EXTENDS Integers, Sequences, FiniteSets

CONSTANTS
  Objects, Kind,        \* the objects and the interaction family of each
  NoObject,
  Values, NoValue,      \* texts, items of a selector, tabs
  Adapters,             \* session.adapters
  AtspiFrameworks,      \* framework of a target AT-SPI's hit test returns
  Calm,                 \* the user waits until all observations arrived
  Gaps,                 \* ticks between two gestures
  MaxGestures,
  DualWindow, CorrWindow, DupWindow

Kinds == {"button", "check", "field", "selector", "tabs", "menu", "item"}
Frameworks == {"javafx", "atspi"}

ASSUME ObjectsAssumption ==
  Kind \in [Objects -> Kinds] /\ NoObject \notin Objects /\ NoValue \notin Values
ASSUME AdaptersAssumption ==
  /\ Adapters \in Seq(Frameworks)
  /\ AtspiFrameworks \subseteq Frameworks
ASSUME WindowsAssumption ==
  /\ {DualWindow, CorrWindow, DupWindow, MaxGestures} \cup Gaps \subseteq Nat
  /\ DualWindow <= CorrWindow

VARIABLES
  phase,          \* of the session's life; active is derived from it
  attached,       \* adapters that are started
  faulty,         \* adapters whose stop() raised
  feed,           \* observations each adapter has not delivered yet
  interactions,   \* _interactions
  pending,        \* _pending: <<>> or <<interaction>>
  menu,           \* _menu_context
  popup,          \* _popup_selection_context
  owners,         \* _captured_menu_owners
  gestures,       \* what the user did
  ui              \* the menu or popup the user has open

transcript == <<interactions, pending>>
contexts == <<menu, popup, owners>>
user == <<gestures, ui>>
vars == <<phase, attached, faulty, feed, transcript, contexts, user>>

NoMenu == [owner |-> NoObject, since |-> 0, absorbed |-> {}]
NoPopup == [owner |-> NoObject, fw |-> "javafx", since |-> 0,
            committed |-> FALSE, value |-> NoValue, at |-> 0]

Active == phase \notin {"stopped", "abandoned"}

Init ==
  /\ phase = "starting" /\ attached = {} /\ faulty = {}
  /\ feed = [a \in Frameworks |-> <<>>]
  /\ interactions = <<>> /\ pending = <<>>
  /\ menu = NoMenu /\ popup = NoPopup /\ owners = {}
  /\ gestures = <<>> /\ ui = NoObject

-----------------------------------------------------------------------------
(* The pending interaction. "of" is its evidence and resulting changes:    *)
(* the gestures whose observations it accounts for.                        *)

Last == pending[1]

Fresh(action, value, o) ==
  [action |-> action, obj |-> o.obj, fw |-> o.fw, value |-> value,
   started |-> o.at, completed |-> o.at, menu |-> NoObject, of |-> {o.gesture}]

AnyTarget(o) == pending # <<>>
SameLogicalTarget(o) == pending # <<>> /\ Last.obj = o.obj
SameTarget(o) == SameLogicalTarget(o) /\ Last.fw = o.fw

PreferredFramework(o) == IF o.fw = "javafx" THEN "javafx" ELSE Last.fw

Latest(s, t) == IF s > t THEN s ELSE t

Detached(i, context) == i

(* _attach_menu_context_to_pending *)
Attached(i, context) ==
  IF context.owner = NoObject THEN i
  ELSE [i EXCEPT !.menu = context.owner, !.of = @ \cup context.absorbed]

(* Mutants: adapters compared by framework; texts treated as clicks. *)
CorrelatesWithinFramework(action, value, o) ==
  /\ SameTarget(o)
  /\ action \in {"click", "right_click", "select_item"} /\ Last.action = action
  /\ action = "select_item" => Last.value = value
  /\ o.at - Last.completed \in -DualWindow .. DualWindow

CorrelatesTexts(action, value, o) ==
  /\ SameLogicalTarget(o)
  /\ Last.action = action
  /\ action = "select_item" => Last.value = value
  /\ o.at - Last.completed \in -DualWindow .. DualWindow

(* Two adapters report one physical click or selection. *)
Correlates(action, value, o) ==
  /\ SameLogicalTarget(o)
  /\ action \in {"click", "right_click", "select_item"} /\ Last.action = action
  /\ action = "select_item" => Last.value = value
  /\ o.at - Last.completed \in -DualWindow .. DualWindow

Coalesces(action, o) ==
  /\ SameTarget(o)
  /\ action = "set_text" /\ Last.action = "set_text"
  /\ o.at - Last.completed <= CorrWindow

Replace(i) == pending' = <<i>> /\ UNCHANGED interactions

(* Mutant: the new interaction is recorded before the pending one. *)
BeginOutOfTurn(action, value, o, context) ==
  \/ /\ Correlates(action, value, o) \/ Coalesces(action, o)
     /\ Replace([Last EXCEPT !.value = value, !.completed = Latest(@, o.at),
                             !.of = @ \cup {o.gesture}])
  \/ /\ ~ Correlates(action, value, o) /\ ~ Coalesces(action, o)
     /\ LET i == Attached(Fresh(action, value, o), context) IN
          /\ pending' = IF pending = <<>> THEN <<i>> ELSE pending
          /\ interactions' = IF pending = <<>> THEN interactions ELSE Append(interactions, i)

Begin(action, value, o, context) ==
  \/ /\ Correlates(action, value, o)
     /\ Replace(Attached([Last EXCEPT !.fw = PreferredFramework(o),
                                      !.completed = Latest(@, o.at),
                                      !.of = @ \cup {o.gesture}], context))
  \/ /\ Coalesces(action, o)
     /\ Replace([Last EXCEPT !.value = value, !.completed = o.at,
                             !.of = @ \cup {o.gesture}])
  \/ /\ ~ Correlates(action, value, o) /\ ~ Coalesces(action, o)
     /\ interactions' = interactions \o pending
     /\ pending' = <<Attached(Fresh(action, value, o), context)>>

MergeAction(o, context) ==
  Replace(Attached([Last EXCEPT !.action = IF o.detail = "activate" THEN @ ELSE o.detail,
                                !.fw = PreferredFramework(o),
                                !.completed = o.at,
                                !.of = @ \cup {o.gesture}], context))

PromotedForAtspi(action, property) ==
  IF action # "click" \/ property # "checked" THEN action ELSE "toggle"

Promoted(action, property) ==
  IF action # "click" \/ property \notin {"checked", "selected"} THEN action
  ELSE IF property = "checked" THEN "toggle" ELSE "select"

AddDelta(o) ==
  \/ /\ SameTarget(o)
     /\ Replace([Last EXCEPT !.action = Promoted(@, o.detail),
                             !.completed = o.at, !.of = @ \cup {o.gesture}])
  \/ ~ SameTarget(o) /\ UNCHANGED transcript

-----------------------------------------------------------------------------
(* Popup selectors: opening one is a context, selecting in it commits. *)

WithinCommit(o) == popup.committed /\ popup.owner = o.obj /\ o.at - popup.at <= DupWindow

Continues(o) == popup.owner = o.obj /\ ~ popup.committed

Commit(value, o) ==
  /\ \/ /\ WithinCommit(o) /\ popup.value = value
        /\ UNCHANGED <<transcript, popup>>
     \/ /\ ~ (WithinCommit(o) /\ popup.value = value)
        /\ popup' = [owner |-> o.obj, committed |-> TRUE, value |-> value, at |-> o.at,
                     fw |-> IF Continues(o) THEN popup.fw ELSE o.fw,
                     since |-> IF Continues(o) THEN popup.since ELSE o.at]
        /\ Begin("select_item", value, o, NoMenu)
  /\ UNCHANGED <<menu, owners>>

-----------------------------------------------------------------------------
(* observe(PointerInteraction) *)

MenuOpen == menu.owner # NoObject
MenuRelated(o) == Kind[o.obj] \in {"menu", "item"}

TabHeader(o) == o.fw = "javafx" /\ Kind[o.obj] = "tabs"
Selection(o) == o.value # NoValue /\ Kind[o.obj] = "selector"

(* A release that still resolves to the open selector, or to the control   *)
(* its popup covers.                                                       *)
MissesPopup(o) ==
  /\ popup.owner # NoObject /\ ~ popup.committed
  /\ \/ o.obj = popup.owner
     \/ /\ o.fw = "javafx" /\ popup.fw = "javafx" /\ ~ MenuRelated(o)
        /\ o.at - popup.since <= CorrWindow

MissesMenu(o) == ~ MenuRelated(o) /\ o.fw = "javafx" /\ o.at - menu.since <= CorrWindow

PassesPopup(o) == ~ TabHeader(o) /\ ~ Selection(o) /\ ~ WithinCommit(o) /\ ~ MissesPopup(o)
PassesMenu(o) == PassesPopup(o) /\ (MenuOpen => ~ MenuRelated(o) /\ ~ MissesMenu(o))

ClickOf(o) == IF o.detail = "secondary" THEN "right_click" ELSE "click"

IgnorePointer(o) ==
  /\ TabHeader(o) \/ (~ Selection(o) /\ WithinCommit(o))
  /\ UNCHANGED <<transcript, contexts>>

SelectInPopup(o) == Selection(o) /\ Commit(o.value, o)

CancelPopup(o) ==
  /\ ~ TabHeader(o) /\ ~ Selection(o) /\ MissesPopup(o)
  /\ popup' = NoPopup
  /\ UNCHANGED <<transcript, menu, owners>>

ChooseFromMenu(o) ==
  /\ PassesPopup(o) /\ MenuOpen /\ Kind[o.obj] = "item"
  /\ Begin(ClickOf(o), NoValue, o, menu)
  /\ menu' = NoMenu /\ popup' = NoPopup
  /\ UNCHANGED owners

TraverseMenu(o) ==
  /\ PassesPopup(o) /\ MenuOpen
  /\ Kind[o.obj] = "menu" \/ MissesMenu(o)
  /\ popup' = NoPopup
  /\ UNCHANGED <<transcript, menu, owners>>

(* The pending click of the last CorrWindow becomes the menu's opener. *)
Absorbs(o) == pending # <<>> /\ Last.action \in {"click", "right_click"}
                             /\ o.at - Last.completed <= CorrWindow

OpenMenu(o) ==
  /\ PassesMenu(o) /\ Kind[o.obj] = "menu"
  /\ \/ Absorbs(o) /\ pending' = <<>> /\ menu' = [owner |-> o.obj, since |-> o.at, absorbed |-> Last.of]
     \/ ~ Absorbs(o) /\ UNCHANGED pending /\ menu' = [owner |-> o.obj, since |-> o.at, absorbed |-> {}]
  /\ owners' = owners \cup {o.obj}
  /\ popup' = NoPopup
  /\ UNCHANGED interactions

OpenSelector(o) ==
  /\ PassesMenu(o) /\ Kind[o.obj] = "selector" /\ o.detail = "primary"
  /\ popup' = [NoPopup EXCEPT !.owner = o.obj, !.fw = o.fw, !.since = o.at]
  /\ menu' = NoMenu
  /\ UNCHANGED <<transcript, owners>>

Click(o) ==
  /\ PassesMenu(o) /\ Kind[o.obj] # "menu"
  /\ Kind[o.obj] = "selector" => o.detail = "secondary"
  /\ Begin(ClickOf(o), NoValue, o, NoMenu)
  /\ menu' = NoMenu /\ popup' = NoPopup
  /\ UNCHANGED owners

ObservePointer(o) ==
  \/ IgnorePointer(o) \/ SelectInPopup(o) \/ CancelPopup(o)
  \/ ChooseFromMenu(o) \/ TraverseMenu(o) \/ OpenMenu(o)
  \/ OpenSelector(o) \/ Click(o)

-----------------------------------------------------------------------------
(* observe(TextChanged | ActionFired | StateChanged) *)

ObserveText(o) == Begin("set_text", o.value, o, NoMenu) /\ UNCHANGED contexts

(* The echo of a selection, or of a menu that opened. *)
EchoedAction(o) ==
  \/ popup.owner = o.obj
  \/ Kind[o.obj] = "selector" /\ SameLogicalTarget(o) /\ Last.action = "select_item"
  \/ MenuOpen /\ Kind[o.obj] = "menu"

ObserveAction(o) ==
  \/ EchoedAction(o) /\ UNCHANGED <<transcript, contexts>>
  \/ /\ ~ EchoedAction(o)
     /\ LET terminal == MenuOpen /\ Kind[o.obj] = "item"
            context == IF terminal THEN menu ELSE NoMenu
        IN /\ \/ SameLogicalTarget(o) /\ MergeAction(o, context)
              \/ ~ SameLogicalTarget(o) /\ Begin(o.detail, NoValue, o, context)
           /\ menu' = IF terminal THEN NoMenu ELSE menu
     /\ UNCHANGED <<popup, owners>>

ObserveState(o) ==
  \/ /\ o.detail = "tab_selection"
     /\ Begin("select_item", o.value, o, NoMenu)
     /\ UNCHANGED contexts
  \/ /\ o.detail = "value" /\ popup.owner = o.obj
     /\ Commit(o.value, o)
  \/ /\ o.detail # "tab_selection" /\ ~ (o.detail = "value" /\ popup.owner = o.obj)
     /\ AddDelta(o)
     /\ UNCHANGED contexts

(* Mutant: a stopped session still listens. *)
ObserveAfterStop(a) ==
  /\ feed[a] # <<>>
  /\ feed' = [feed EXCEPT ![a] = Tail(@)]
  /\ LET o == Head(feed[a]) IN
       \/ o.type = "pointer" /\ ObservePointer(o)
       \/ o.type = "text" /\ ObserveText(o)
       \/ o.type = "action" /\ ObserveAction(o)
       \/ o.type = "state" /\ ObserveState(o)
  /\ UNCHANGED <<phase, attached, faulty, user>>

(* observe: an adapter thread delivers its next observation. *)
Observe(a) ==
  /\ feed[a] # <<>>
  /\ feed' = [feed EXCEPT ![a] = Tail(@)]
  /\ LET o == Head(feed[a]) IN
       \/ ~ Active /\ UNCHANGED <<transcript, contexts>>
       \/ Active /\ o.type = "pointer" /\ ObservePointer(o)
       \/ Active /\ o.type = "text" /\ ObserveText(o)
       \/ Active /\ o.type = "action" /\ ObserveAction(o)
       \/ Active /\ o.type = "state" /\ ObserveState(o)
  /\ UNCHANGED <<phase, attached, faulty, user>>

-----------------------------------------------------------------------------
(* start and stop. The adapters start in order and stop in reverse, and a  *)
(* stop drains what the adapter still has to deliver unless it raises.     *)

Position(a) == CHOOSE i \in DOMAIN Adapters : Adapters[i] = a

StartAdapter ==
  /\ phase = "starting"
  /\ \E i \in DOMAIN Adapters :
       /\ attached = {Adapters[j] : j \in 1 .. i - 1}
       /\ attached' = attached \cup {Adapters[i]}
       /\ phase' = IF i = Len(Adapters) THEN "recording" ELSE "starting"
  /\ UNCHANGED <<faulty, feed, transcript, contexts, user>>

StartFails ==
  /\ phase = "starting"
  /\ phase' = "failing"
  /\ UNCHANGED <<attached, faulty, feed, transcript, contexts, user>>

RequestStop ==
  /\ phase = "recording"
  /\ phase' = "stopping"
  /\ UNCHANGED <<attached, faulty, feed, transcript, contexts, user>>

(* Mutant: an adapter is detached with observations left. *)
StopUndrained(a) ==
  /\ phase \in {"stopping", "failing"}
  /\ a \in attached /\ \A b \in attached : Position(b) <= Position(a)
  /\ attached' = attached \ {a}
  /\ UNCHANGED <<phase, faulty, feed, transcript, contexts, user>>

StopAdapter(a) ==
  /\ phase \in {"stopping", "failing"}
  /\ a \in attached /\ \A b \in attached : Position(b) <= Position(a)
  /\ attached' = attached \ {a}
  /\ \/ feed[a] = <<>> /\ UNCHANGED faulty
     \/ faulty' = faulty \cup {a}
  /\ UNCHANGED <<phase, feed, transcript, contexts, user>>

FinishStop ==
  /\ phase = "stopping" /\ attached = {}
  /\ phase' = "stopped"
  /\ menu' = NoMenu /\ popup' = NoPopup
  /\ interactions' = interactions \o pending /\ pending' = <<>>
  /\ UNCHANGED <<attached, faulty, feed, owners, user>>

(* A session that failed to start is inactive; nothing is flushed. *)
Abandon ==
  /\ phase = "failing" /\ attached = {}
  /\ phase' = "abandoned"
  /\ UNCHANGED <<attached, faulty, feed, transcript, contexts, user>>

-----------------------------------------------------------------------------
(* The user, and what each adapter reports of a gesture. *)

Openers == {"open_menu", "open_selector"}

Gesture(what, kind, values, open) ==
  {[what |-> what, obj |-> x, value |-> v] :
     x \in {y \in Objects : Kind[y] = kind /\ open}, v \in values}

Possible ==
  Gesture("click", "button", {NoValue}, TRUE)
  \cup Gesture("right_click", "button", {NoValue}, TRUE)
  \cup Gesture("check", "check", {NoValue}, TRUE)
  \cup Gesture("type", "field", Values, TRUE)
  \cup Gesture("switch_tab", "tabs", Values, TRUE)
  \cup Gesture("open_menu", "menu", {NoValue}, TRUE)
  \cup Gesture("open_selector", "selector", {NoValue}, TRUE)
  \cup Gesture("choose", "item", {NoValue}, ui \in Objects /\ Kind[ui] = "menu")
  \cup {[what |-> "dismiss", obj |-> ui, value |-> NoValue] : x \in {ui} \cap Objects}
  \cup {g \in Gesture("pick", "selector", Values, TRUE)
              \cup Gesture("pick_by_key", "selector", Values, TRUE) : g.obj = ui}

(* JavaFxRecorder: the scene's release filter runs first, then the control *)
(* changes its property, then its action fires. The tab selection comes    *)
(* from the JavaFX automation agent.                                       *)
Event(g, n, fw, type, detail, value) ==
  [type |-> type, obj |-> g.obj, fw |-> fw, at |-> g.at,
   detail |-> detail, value |-> value, gesture |-> n]

Reported(a, g, n, fw) ==
  LET framework == IF a = "javafx" THEN "javafx" ELSE fw
      button == IF g.what = "right_click" THEN "secondary" ELSE "primary"
      picked == IF framework = "javafx" /\ g.what = "pick" THEN g.value ELSE NoValue
      pointer == Event(g, n, framework, "pointer", button, picked)
      text == Event(g, n, a, "text", "text", g.value)
      state(property) == Event(g, n, framework, "state", property, g.value)
      fired(action) == Event(g, n, framework, "action", action, NoValue)
  IN CASE g.what = "type" -> <<text>>
       [] g.what = "check" /\ a = "javafx" -> <<pointer, state("selected"), fired("activate")>>
       [] g.what = "check" /\ a = "atspi" -> <<pointer, state("checked"), fired("toggle")>>
       [] g.what \in {"click", "choose"} /\ a = "javafx" -> <<pointer, fired("activate")>>
       [] g.what = "pick" /\ a = "javafx" -> <<pointer, state("value"), fired("activate")>>
       [] g.what = "pick_by_key" /\ a = "javafx" -> <<state("value"), fired("activate")>>
       [] g.what = "pick_by_key" /\ a = "atspi" -> <<>>
       [] g.what = "dismiss" -> <<>>
       [] g.what = "switch_tab" /\ a = "javafx" -> <<pointer, state("tab_selection")>>
       [] OTHER -> <<pointer>>

Gesticulate ==
  /\ attached # {} /\ Len(gestures) < MaxGestures
  /\ Calm => \A a \in DOMAIN feed : feed[a] = <<>>
  /\ \E g \in Possible, gap \in Gaps, fw \in AtspiFrameworks :
       LET n == Len(gestures) + 1
           at == IF gestures = <<>> THEN 0 ELSE gestures[n - 1].at + gap
           made == [what |-> g.what, obj |-> g.obj, value |-> g.value, at |-> at,
                      by |-> attached]
       IN /\ gestures' = Append(gestures, made)
          /\ ui' = IF g.what \in Openers /\ ui # g.obj THEN g.obj ELSE NoObject
          /\ feed' = [a \in DOMAIN feed |->
                        IF a \in attached THEN feed[a] \o Reported(a, made, n, fw) ELSE feed[a]]
  /\ UNCHANGED <<phase, attached, faulty, transcript, contexts>>

(* The session is over and no adapter thread is left delivering. *)
Terminated ==
  /\ ~ Active /\ \A a \in DOMAIN feed : feed[a] = <<>>
  /\ UNCHANGED vars

Next ==
  \/ \E a \in DOMAIN feed : Observe(a) \/ StopAdapter(a)
  \/ StartAdapter \/ StartFails \/ RequestStop \/ FinishStop \/ Abandon
  \/ Gesticulate
  \/ Terminated

Spec == Init /\ [][Next]_vars

-----------------------------------------------------------------------------
(* Properties *)

Phases == {"starting", "recording", "stopping", "failing", "stopped", "abandoned"}
Actions == {"click", "right_click", "toggle", "select", "activate", "select_item", "set_text"}
Details == {"primary", "secondary", "text", "value", "selected", "checked", "tab_selection",
            "activate", "toggle"}
Done == {"click", "right_click", "check", "type", "switch_tab", "open_menu", "open_selector",
         "choose", "dismiss", "pick", "pick_by_key"}

Interaction ==
  [action : Actions, obj : Objects, fw : Frameworks, value : Values \cup {NoValue},
   started : Nat, completed : Nat, menu : Objects \cup {NoObject},
   of : SUBSET (1 .. MaxGestures)]

Observation ==
  {o \in [type : {"pointer", "text", "action", "state"}, obj : Objects, fw : Frameworks,
          at : Nat, detail : Details, value : Values \cup {NoValue}, gesture : 1 .. MaxGestures] :
     /\ o.type = "action" => o.detail \in {"activate", "toggle"}
     /\ o.type = "state" /\ o.detail = "value" => o.value # NoValue}

(* The state has the shape the correlator relies on: at most one pending   *)
(* interaction, a menu context only of a captured owner, a commit only     *)
(* inside a popup context and only of a value.                             *)
TypeOK ==
  /\ phase \in Phases
  /\ attached \subseteq Frameworks /\ faulty \subseteq Frameworks
  /\ feed \in [Frameworks -> Seq(Observation)]
  /\ interactions \in Seq(Interaction)
  /\ pending \in Seq(Interaction) /\ Len(pending) <= 1
  /\ menu \in [owner : owners \cup {NoObject}, since : Nat, absorbed : SUBSET (1 .. MaxGestures)]
  /\ popup \in [owner : Objects \cup {NoObject}, fw : Frameworks, since : Nat,
                committed : BOOLEAN, value : Values \cup {NoValue}, at : Nat]
  /\ popup.committed => popup.owner # NoObject /\ popup.value # NoValue
  /\ owners \subseteq Objects
  /\ gestures \in Seq([what : Done, obj : Objects, value : Values \cup {NoValue},
                        at : Nat, by : SUBSET Frameworks])
  /\ Len(gestures) <= MaxGestures
  /\ ui \in Objects \cup {NoObject}

(* The session ended and every adapter was drained. *)
Complete == phase = "stopped" /\ faulty = {}

AccountsFor(n) == {i \in DOMAIN interactions : n \in interactions[i].of}

IsOpener(n) == gestures[n].what \in Openers
Recordable(n) == ~ IsOpener(n) /\ gestures[n].what # "dismiss"
Since(m, n) == gestures[n].at - gestures[m].at

(* What the correlator deliberately does not record: a click within        *)
(* CorrWindow after a menu or popup was opened (and a selection by key in  *)
(* a popup whose opening was lost that way), a click that a menu absorbed  *)
(* as its opener, the same item selected again within DupWindow.           *)
Swallowed(n) ==
  /\ gestures[n].what \in {"click", "right_click", "check", "open_selector"}
  /\ \E m \in 1 .. n - 1 : IsOpener(m) /\ Since(m, n) <= CorrWindow

Absorbed(n) ==
  /\ gestures[n].what \in {"click", "right_click", "choose"}
  /\ \E m \in n + 1 .. Len(gestures) : \E k \in n .. m - 1 :
       /\ gestures[m].what = "open_menu" /\ Since(k, m) <= CorrWindow
       /\ gestures[k].obj = gestures[n].obj

Picks == {"pick", "pick_by_key"}

Repeated(n) ==
  /\ gestures[n].what \in Picks
  /\ \E m \in 1 .. n - 1 :
       /\ gestures[m].what \in Picks /\ Since(m, n) <= DupWindow
       /\ gestures[m].obj = gestures[n].obj /\ gestures[m].value = gestures[n].value

(* Opened again after a dismissal nothing reported: the second opening     *)
(* cancels the context of the first.                                       *)
Reopened(n) ==
  \E m \in 1 .. n - 1, k \in 1 .. n - 1 :
    /\ m < k /\ gestures[m].what = "open_selector" /\ gestures[k].what = "open_selector"
    /\ \A j \in m .. k : gestures[j].what \notin Picks

Shadowed(n) ==
  \/ Swallowed(n) \/ Absorbed(n) \/ Repeated(n)
  \/ /\ gestures[n].what = "pick_by_key"
     /\ \/ Reopened(n)
        \/ \E m \in 1 .. n - 1 : gestures[m].what = "open_selector" /\ Swallowed(m)

Expected ==
  [click |-> "click", right_click |-> "right_click", choose |-> "click", check |-> "select",
   type |-> "set_text"]

(* With the native agent alone, every gesture that is not an opener and    *)
(* not in the shadow of one becomes exactly one interaction on its object, *)
(* with the action and the value the author will replay.                   *)
Faithful ==
  Complete => \A n \in DOMAIN gestures : Recordable(n) /\ ~ Shadowed(n) =>
    \E i \in DOMAIN interactions :
      /\ AccountsFor(n) = {i}
      /\ interactions[i].obj = gestures[n].obj
      /\ interactions[i].action = IF gestures[n].what \in DOMAIN Expected
                                  THEN Expected[gestures[n].what] ELSE "select_item"
      /\ gestures[n].what \in Picks \cup {"switch_tab"} =>
           interactions[i].value = gestures[n].value

(* With one adapter the interactions follow each other as the gestures     *)
(* did, so that replaying the list replays the session.                    *)
InOrder ==
  \A i, j \in DOMAIN (interactions \o pending) :
    LET t == interactions \o pending IN
    i < j => t[i].started <= t[j].started /\ t[i].completed <= t[j].completed

(* A menu item is recorded with the menu it was chosen from. *)
ChoicesKnowTheirMenu ==
  Complete => \A n \in DOMAIN gestures : gestures[n].what = "choose" =>
    \A i \in AccountsFor(n) :
      interactions[i].obj = gestures[n].obj =>
        \E m \in 1 .. n : gestures[m].what = "open_menu" /\ gestures[m].obj = interactions[i].menu

(* No interaction mixes gestures on different objects, however the         *)
(* adapters' feeds interleave: only an opener a menu absorbed is foreign.  *)
OneObject(i) ==
  i.menu = NoObject =>
    \A n \in i.of : n \in DOMAIN gestures /\ gestures[n].obj = i.obj

OneObjectPerStep ==
  /\ \A i \in DOMAIN interactions : OneObject(interactions[i])
  /\ \A i \in DOMAIN pending : OneObject(pending[i])

(* The last text recorded for a field is the text the user left in it,     *)
(* however late an adapter reports the texts before it.                    *)
LastTextWins ==
  Complete => \A n \in DOMAIN gestures :
    gestures[n].what = "type"
    /\ (\A m \in DOMAIN gestures : m > n => gestures[m].obj # gestures[n].obj)
      => \E i \in DOMAIN interactions :
           /\ interactions[i].obj = gestures[n].obj
           /\ interactions[i].value = gestures[n].value
           /\ \A j \in DOMAIN interactions : j > i => interactions[j].obj # gestures[n].obj

(* What one adapter heard is recorded, whatever becomes of the other: a    *)
(* stop drains every adapter whose stop() does not raise before it flushes *)
(* and returns. Clicks are exempt once a menu was opened: the late report  *)
(* of the opening absorbs whatever click is pending when it arrives, a     *)
(* choice made in that very menu included.                                 *)
HeardIsRecorded ==
  phase = "stopped" => \A n \in DOMAIN gestures :
    /\ Recordable(n) /\ ~ (gestures[n].by \subseteq faulty)
    /\ gestures[n].what = "type" \/ ~ \E m \in DOMAIN gestures : IsOpener(m)
    => AccountsFor(n) # {}

(* An interaction that left the pending place is never rewritten, and what *)
(* a session returned is final: an adapter that did not stop in time may   *)
(* deliver its observations, to no effect.                                 *)
RecordedIsFinal ==
  [][/\ Len(interactions) <= Len(interactions')
     /\ \A i \in DOMAIN interactions : interactions'[i] = interactions[i]
     /\ ~ Active => UNCHANGED <<transcript, contexts>>]_vars

(* For a user who waits until a gesture was reported, the reports of both  *)
(* adapters about a click become one interaction that carries the native   *)
(* identity, and no click is recorded twice, one that a menu absorbed      *)
(* included. A click in the shadow of an opener is exempt: its native      *)
(* report is swallowed, so there is nothing to correlate with.             *)
SeenByAll(n) == gestures[n].by = {Adapters[i] : i \in DOMAIN Adapters}

Clicks == {"click", "right_click", "choose"}

ClicksRecordedOnce ==
  Complete => \A n \in DOMAIN gestures :
    SeenByAll(n) /\ ~ Swallowed(n) /\ gestures[n].what \in Clicks =>
    /\ Cardinality(AccountsFor(n)) <= 1
    /\ ~ Absorbed(n) => \E i \in AccountsFor(n) :
         /\ interactions[i].obj = gestures[n].obj /\ interactions[i].fw = "javafx"
         /\ interactions[i].action = Expected[gestures[n].what]

(* The same for a selection in a popup: the pointer, the value and the     *)
(* action reports of two adapters become one select_item of that value.    *)
SelectionsRecordedOnce ==
  Complete => \A n \in DOMAIN gestures :
    SeenByAll(n) /\ gestures[n].what = "pick" /\ ~ Shadowed(n) =>
    \E i \in DOMAIN interactions :
      /\ AccountsFor(n) = {i} /\ interactions[i].obj = gestures[n].obj
      /\ interactions[i].action = "select_item" /\ interactions[i].fw = "javafx"
      /\ interactions[i].value = gestures[n].value

(* The documentation's readings.                                           *)
(* java-agent/README.md: when both adapters report one physical            *)
(* interaction, one action is retained.                                    *)
BothAdaptersOneAction ==
  Complete => \A n \in DOMAIN gestures : Cardinality(AccountsFor(n)) <= 1

(* The comment in _start_menu_context: what a menu absorbs is the right    *)
(* click on its invoking object.                                           *)
OnlyOpenersAreAbsorbed ==
  \A n \in menu.absorbed : gestures[n].what = "right_click"
=============================================================================
