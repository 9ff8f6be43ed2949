----------------------- MODULE RecordingSessionProofs -----------------------
(***************************************************************************)
(* The correlator of recording/session.py never mixes two objects in one   *)
(* interaction, never rewrites what it recorded, ends with the last text   *)
(* of every field, loses nothing an adapter heard, records what the native *)
(* agent reports alone exactly, and the reports of both adapters once when *)
(* the user waits for them: for every set of objects and values, every     *)
(* number of gestures, every size of the time windows and every            *)
(* interleaving of the adapters.                                           *)
(***************************************************************************)
EXTENDS RecordingSession, FiniteSetTheorems, TLAPS

(* The two parts of TypeOK an observation can disturb. *)
Contexts ==
  /\ menu \in [owner : owners \cup {NoObject}, since : Nat, absorbed : SUBSET (1 .. MaxGestures)]
  /\ popup \in [owner : Objects \cup {NoObject}, fw : Frameworks, since : Nat,
                committed : BOOLEAN, value : Values \cup {NoValue}, at : Nat]
  /\ popup.committed => popup.owner # NoObject /\ popup.value # NoValue
  /\ owners \subseteq Objects

Transcript ==
  /\ interactions \in Seq(Interaction)
  /\ pending \in Seq(Interaction) /\ Len(pending) <= 1
  /\ OneObjectPerStep

(* What an adapter still has to deliver is about the gesture it names. *)
Traced(o) == o.gesture \in DOMAIN gestures /\ gestures[o.gesture].obj = o.obj

FeedTraced == \A a \in Frameworks : \A i \in DOMAIN feed[a] : Traced(feed[a][i])

IInv == TypeOK /\ OneObjectPerStep /\ FeedTraced

Grows ==
  /\ Len(interactions) <= Len(interactions')
  /\ \A i \in DOMAIN interactions : interactions'[i] = interactions[i]

Context == [owner : Objects \cup {NoObject}, since : Nat, absorbed : SUBSET (1 .. MaxGestures)]

-----------------------------------------------------------------------------
(* The shapes in which the transcript changes. *)

LEMMA ReplaceKeeps ==
  ASSUME Transcript, UNCHANGED gestures, NEW i \in Interaction, OneObject(i), Replace(i)
  PROVE  Transcript' /\ Grows
  BY DEF Transcript, Replace, OneObjectPerStep, OneObject, Grows

LEMMA FlushKeeps ==
  ASSUME Transcript, UNCHANGED gestures, interactions' = interactions \o pending
  PROVE  /\ interactions' \in Seq(Interaction) /\ Grows
         /\ \A i \in DOMAIN interactions' : OneObject(interactions'[i])
<1>1. interactions' \in Seq(Interaction) /\ Len(interactions') = Len(interactions) + Len(pending)
  BY DEF Transcript
<1>2. \A i \in DOMAIN interactions : interactions'[i] = interactions[i]
  BY DEF Transcript
<1>3. ASSUME NEW i \in DOMAIN interactions' PROVE OneObject(interactions'[i])
  <2>1. CASE i <= Len(interactions)
    BY <1>1, <1>2, <1>3, <2>1 DEF Transcript, OneObjectPerStep
  <2>2. CASE i > Len(interactions)
    <3>1. i - Len(interactions) \in DOMAIN pending /\ interactions'[i] = pending[i - Len(interactions)]
      BY <1>1, <1>3, <2>2 DEF Transcript
    <3>2. QED BY <3>1 DEF Transcript, OneObjectPerStep
  <2>3. QED BY <1>1, <1>3, <2>1, <2>2 DEF Transcript
<1>4. QED BY <1>1, <1>2, <1>3 DEF Grows, Transcript

LEMMA BeginKeeps ==
  ASSUME Transcript, UNCHANGED gestures,
         NEW o \in Observation, Traced(o),
         NEW action \in Actions, NEW value \in Values \cup {NoValue}, NEW context \in Context,
         Begin(action, value, o, context)
  PROVE  Transcript' /\ Grows
<1> DEFINE merged == [Last EXCEPT !.fw = PreferredFramework(o), !.completed = Latest(@, o.at),
                                  !.of = @ \cup {o.gesture}]
<1> DEFINE texted == [Last EXCEPT !.value = value, !.completed = o.at, !.of = @ \cup {o.gesture}]
<1> DEFINE fresh == Fresh(action, value, o)
<1>1. CASE Correlates(action, value, o) /\ Replace(Attached(merged, context))
  <2>1. Last \in Interaction /\ OneObject(Last) /\ Last.obj = o.obj
    BY <1>1 DEF Correlates, SameLogicalTarget, Transcript, OneObjectPerStep, Last
  <2>2. merged \in Interaction /\ OneObject(merged)
    BY <2>1 DEF Interaction, Observation, OneObject, PreferredFramework, Latest, Traced, Frameworks
  <2>3. Attached(merged, context) \in Interaction /\ OneObject(Attached(merged, context))
    <3> HIDE DEF merged
    <3> QED BY <2>2 DEF Attached, Interaction, OneObject, Context
  <2>4. QED BY <1>1, <2>3, ReplaceKeeps
<1>2. CASE Coalesces(action, o) /\ Replace(texted)
  <2>1. Last \in Interaction /\ OneObject(Last) /\ Last.obj = o.obj
    BY <1>2 DEF Coalesces, SameTarget, SameLogicalTarget, Transcript, OneObjectPerStep, Last
  <2>2. texted \in Interaction /\ OneObject(texted)
    BY <2>1 DEF Interaction, Observation, OneObject, Traced
  <2>3. QED BY <1>2, <2>2, ReplaceKeeps
<1>3. CASE /\ interactions' = interactions \o pending
           /\ pending' = <<Attached(fresh, context)>>
  <2>1. fresh \in Interaction /\ OneObject(fresh)
    BY DEF Fresh, Interaction, Observation, OneObject, Traced
  <2>2. Attached(fresh, context) \in Interaction /\ OneObject(Attached(fresh, context))
    <3> HIDE DEF fresh
    <3> QED BY <2>1 DEF Attached, Interaction, OneObject, Context
  <2>3. QED
    BY <1>3, <2>2, FlushKeeps DEF Transcript, OneObjectPerStep, OneObject
<1>4. QED BY <1>1, <1>2, <1>3 DEF Begin

LEMMA MergeKeeps ==
  ASSUME Transcript, UNCHANGED gestures,
         NEW o \in Observation, Traced(o), o.type = "action", NEW context \in Context,
         SameLogicalTarget(o), MergeAction(o, context)
  PROVE  Transcript' /\ Grows
<1> DEFINE merged == [Last EXCEPT !.action = IF o.detail = "activate" THEN @ ELSE o.detail,
                                  !.fw = PreferredFramework(o), !.completed = o.at,
                                  !.of = @ \cup {o.gesture}]
<1>1. Last \in Interaction /\ OneObject(Last) /\ Last.obj = o.obj
  BY DEF SameLogicalTarget, Transcript, OneObjectPerStep, Last
<1>2. merged \in Interaction /\ OneObject(merged)
  BY <1>1 DEF Interaction, Observation, OneObject, PreferredFramework, Traced, Actions, Frameworks
<1>3. Attached(merged, context) \in Interaction /\ OneObject(Attached(merged, context))
  <2> HIDE DEF merged
  <2> QED BY <1>2 DEF Attached, Interaction, OneObject, Context
<1>4. QED BY <1>3, ReplaceKeeps DEF MergeAction

LEMMA AddDeltaKeeps ==
  ASSUME Transcript, UNCHANGED gestures, NEW o \in Observation, Traced(o), AddDelta(o)
  PROVE  Transcript' /\ Grows
<1> DEFINE grown == [Last EXCEPT !.action = Promoted(@, o.detail), !.completed = o.at,
                                 !.of = @ \cup {o.gesture}]
<1>1. CASE SameTarget(o) /\ Replace(grown)
  <2>1. Last \in Interaction /\ OneObject(Last) /\ Last.obj = o.obj
    BY <1>1 DEF SameTarget, SameLogicalTarget, Transcript, OneObjectPerStep, Last
  <2>2. grown \in Interaction /\ OneObject(grown)
    BY <2>1 DEF Interaction, Observation, OneObject, Traced, Promoted, Actions
  <2>3. QED BY <1>1, <2>2, ReplaceKeeps
<1>2. CASE UNCHANGED transcript
  BY <1>2 DEF transcript, Transcript, OneObjectPerStep, OneObject, Grows
<1>3. QED BY <1>1, <1>2 DEF AddDelta

LEMMA StutterKeeps ==
  ASSUME Transcript, UNCHANGED gestures, UNCHANGED transcript
  PROVE  Transcript' /\ Grows
  BY DEF transcript, Transcript, OneObjectPerStep, OneObject, Grows

LEMMA NoMenuIsContext == NoMenu \in Context /\ NoMenu.owner = NoObject
  BY DEF NoMenu, Context

LEMMA NoPopupIsContext ==
  NoPopup \in [owner : Objects \cup {NoObject}, fw : Frameworks, since : Nat,
               committed : BOOLEAN, value : Values \cup {NoValue}, at : Nat]
  BY DEF NoPopup, Frameworks

LEMMA CommitKeeps ==
  ASSUME Transcript, Contexts, UNCHANGED gestures, NEW o \in Observation, Traced(o),
         o.value # NoValue, Commit(o.value, o)
  PROVE  Transcript' /\ Grows /\ Contexts'
<1>1. o.value \in Values \cup {NoValue} /\ o.obj \in Objects /\ o.at \in Nat /\ o.fw \in Frameworks
  BY DEF Observation
<1>2. CASE UNCHANGED <<transcript, popup>>
  BY <1>2, StutterKeeps DEF Commit, Contexts
<1>3. CASE /\ popup' = [owner |-> o.obj, committed |-> TRUE, value |-> o.value, at |-> o.at,
                        fw |-> IF Continues(o) THEN popup.fw ELSE o.fw,
                        since |-> IF Continues(o) THEN popup.since ELSE o.at]
           /\ Begin("select_item", o.value, o, NoMenu)
  <2>1. Transcript' /\ Grows
    BY <1>1, <1>3, BeginKeeps, NoMenuIsContext DEF Actions
  <2>2. Contexts'
    BY <1>1, <1>3, ObjectsAssumption DEF Commit, Contexts
  <2>3. QED BY <2>1, <2>2
<1>4. QED BY <1>2, <1>3 DEF Commit

-----------------------------------------------------------------------------
(* observe *)

LEMMA PointerKeeps ==
  ASSUME Transcript, Contexts, UNCHANGED gestures, NEW o \in Observation, Traced(o),
         ObservePointer(o)
  PROVE  Transcript' /\ Grows /\ Contexts'
<1>1. o.obj \in Objects /\ o.at \in Nat /\ o.fw \in Frameworks
  BY DEF Observation
<1>2. menu \in Context
  BY DEF Contexts, Context
<1>3. ClickOf(o) \in Actions
  BY DEF ClickOf, Actions
<1>4. CASE IgnorePointer(o)
  BY <1>4, StutterKeeps DEF IgnorePointer, contexts, Contexts
<1>5. CASE SelectInPopup(o)
  BY <1>5, CommitKeeps DEF SelectInPopup, Selection
<1>6. CASE CancelPopup(o)
  BY <1>6, StutterKeeps, NoPopupIsContext DEF CancelPopup, Contexts, NoPopup
<1>7. CASE ChooseFromMenu(o)
  <2>1. Transcript' /\ Grows
    BY <1>2, <1>3, <1>7, BeginKeeps DEF ChooseFromMenu
  <2>2. Contexts'
    BY <1>7, NoPopupIsContext DEF ChooseFromMenu, Contexts, NoPopup, NoMenu
  <2>3. QED BY <2>1, <2>2
<1>8. CASE TraverseMenu(o)
  BY <1>8, StutterKeeps, NoPopupIsContext DEF TraverseMenu, Contexts, NoPopup
<1>9. CASE OpenMenu(o)
  <2>1. Transcript' /\ Grows
    <3>1. interactions' = interactions /\ gestures' = gestures
      BY <1>9 DEF OpenMenu
    <3>2. pending' = <<>> \/ pending' = pending
      BY <1>9 DEF OpenMenu
    <3>3. OneObjectPerStep'
      BY <3>1, <3>2 DEF Transcript, OneObjectPerStep, OneObject
    <3>4. Grows
      BY <3>1 DEF Transcript, Grows
    <3>5. pending' \in Seq(Interaction) /\ Len(pending') <= 1
      <4>1. CASE pending' = <<>>
        BY <4>1
      <4>2. CASE pending' = pending
        BY <4>2 DEF Transcript
      <4>3. QED BY <3>2, <4>1, <4>2
    <3>6. interactions' \in Seq(Interaction)
      BY <3>1 DEF Transcript
    <3>7. QED BY <3>3, <3>4, <3>5, <3>6 DEF Transcript
  <2>2. pending # <<>> => Last \in Interaction
    BY DEF Transcript, Last
  <2>3. menu' \in [owner : owners' \cup {NoObject}, since : Nat, absorbed : SUBSET (1 .. MaxGestures)]
    BY <1>1, <1>9, <2>2 DEF OpenMenu, Absorbs, Interaction
  <2>4. Contexts'
    BY <1>1, <1>9, <2>3, NoPopupIsContext DEF OpenMenu, Contexts, NoPopup
  <2>5. QED BY <2>1, <2>4
<1>10. CASE OpenSelector(o)
  <2>1. popup' \in [owner : Objects \cup {NoObject}, fw : Frameworks, since : Nat,
                    committed : BOOLEAN, value : Values \cup {NoValue}, at : Nat]
        /\ ~ popup'.committed
    BY <1>1, <1>10 DEF OpenSelector, NoPopup
  <2>2. Contexts'
    BY <1>10, <2>1 DEF OpenSelector, Contexts, NoMenu
  <2>3. QED BY <1>10, <2>2, StutterKeeps DEF OpenSelector
<1>11. CASE Click(o)
  <2>1. Transcript' /\ Grows
    BY <1>3, <1>11, BeginKeeps, NoMenuIsContext DEF Click
  <2>2. Contexts'
    BY <1>11, NoPopupIsContext DEF Click, Contexts, NoPopup, NoMenu
  <2>3. QED BY <2>1, <2>2
<1>12. QED
  BY <1>4, <1>5, <1>6, <1>7, <1>8, <1>9, <1>10, <1>11 DEF ObservePointer

LEMMA TextKeeps ==
  ASSUME Transcript, Contexts, UNCHANGED gestures, NEW o \in Observation, Traced(o),
         ObserveText(o)
  PROVE  Transcript' /\ Grows /\ Contexts'
<1>1. o.value \in Values \cup {NoValue}
  BY DEF Observation
<1>2. Transcript' /\ Grows
  BY <1>1, BeginKeeps, NoMenuIsContext DEF ObserveText, Actions
<1>3. QED BY <1>2 DEF ObserveText, contexts, Contexts

LEMMA ActionKeeps ==
  ASSUME Transcript, Contexts, UNCHANGED gestures, NEW o \in Observation, Traced(o),
         o.type = "action", ObserveAction(o)
  PROVE  Transcript' /\ Grows /\ Contexts'
<1> DEFINE terminal == MenuOpen /\ Kind[o.obj] = "item"
<1> DEFINE context == IF terminal THEN menu ELSE NoMenu
<1>1. context \in Context
  BY NoMenuIsContext DEF Contexts, Context
<1>2. o.detail \in Actions
  BY DEF Observation, Actions
<1>3. CASE UNCHANGED <<transcript, contexts>>
  BY <1>3, StutterKeeps DEF contexts, Contexts
<1>4. CASE /\ \/ SameLogicalTarget(o) /\ MergeAction(o, context)
              \/ ~ SameLogicalTarget(o) /\ Begin(o.detail, NoValue, o, context)
           /\ menu' = IF terminal THEN NoMenu ELSE menu
           /\ UNCHANGED <<popup, owners>>
  <2>1. Transcript' /\ Grows
    <3> HIDE DEF context
    <3> QED BY <1>1, <1>2, <1>4, MergeKeeps, BeginKeeps
  <2>2. Contexts'
    BY <1>4 DEF Contexts, NoMenu
  <2>3. QED BY <2>1, <2>2
<1>5. QED BY <1>3, <1>4 DEF ObserveAction

LEMMA StateKeeps ==
  ASSUME Transcript, Contexts, UNCHANGED gestures, NEW o \in Observation, Traced(o),
         o.type = "state", ObserveState(o)
  PROVE  Transcript' /\ Grows /\ Contexts'
<1>1. CASE Begin("select_item", o.value, o, NoMenu) /\ UNCHANGED contexts
  <2>1. o.value \in Values \cup {NoValue}
    BY DEF Observation
  <2>2. Transcript' /\ Grows
    BY <1>1, <2>1, BeginKeeps, NoMenuIsContext DEF Actions
  <2>3. QED BY <1>1, <2>2 DEF contexts, Contexts
<1>2. CASE o.detail = "value" /\ Commit(o.value, o)
  <2>1. o.value # NoValue
    BY <1>2 DEF Observation
  <2>2. QED BY <1>2, <2>1, CommitKeeps
<1>3. CASE AddDelta(o) /\ UNCHANGED contexts
  BY <1>3, AddDeltaKeeps DEF contexts, Contexts
<1>4. QED BY <1>1, <1>2, <1>3 DEF ObserveState

LEMMA ObserveKeeps ==
  ASSUME IInv, NEW a \in Frameworks, Observe(a)
  PROVE  IInv' /\ Grows
<1>1. feed[a] \in Seq(Observation) /\ feed[a] # <<>>
  BY DEF IInv, TypeOK, Observe
<1>2. PICK o : o = Head(feed[a])
  OBVIOUS
<1>3. o \in Observation /\ Traced(o)
  BY <1>1, <1>2 DEF IInv, FeedTraced
<1>4. Transcript /\ Contexts
  BY DEF IInv, TypeOK, Transcript, Contexts
<1>5. UNCHANGED <<phase, attached, faulty, gestures, ui>>
  BY DEF Observe, user
<1>6. Transcript' /\ Grows /\ Contexts'
  <2>1. CASE UNCHANGED <<transcript, contexts>>
    BY <1>4, <1>5, <2>1, StutterKeeps DEF contexts, Contexts
  <2>2. CASE ObservePointer(o)
    BY <1>3, <1>4, <1>5, <2>2, PointerKeeps
  <2>3. CASE ObserveText(o)
    BY <1>3, <1>4, <1>5, <2>3, TextKeeps
  <2>4. CASE o.type = "action" /\ ObserveAction(o)
    BY <1>3, <1>4, <1>5, <2>4, ActionKeeps
  <2>5. CASE o.type = "state" /\ ObserveState(o)
    BY <1>3, <1>4, <1>5, <2>5, StateKeeps
  <2>6. QED BY <1>2, <2>1, <2>2, <2>3, <2>4, <2>5 DEF Observe
<1>7. feed' \in [Frameworks -> Seq(Observation)]
  BY <1>1 DEF IInv, TypeOK, Observe
<1>8. FeedTraced'
  <2>1. ASSUME NEW b \in Frameworks, NEW i \in DOMAIN feed'[b]
        PROVE  \E j \in DOMAIN feed[b] : feed'[b][i] = feed[b][j]
    <3>1. CASE b = a
      <4>1. feed'[a] = Tail(feed[a])
        BY DEF Observe, IInv, TypeOK
      <4>2. i + 1 \in DOMAIN feed[a] /\ feed'[a][i] = feed[a][i + 1]
        BY <1>1, <2>1, <3>1, <4>1
      <4>3. QED BY <3>1, <4>2
    <3>2. CASE b # a
      BY <2>1, <3>2 DEF Observe, IInv, TypeOK
    <3>3. QED BY <3>1, <3>2
  <2>2. QED BY <1>5, <2>1 DEF IInv, FeedTraced, Traced
<1>9. QED
  BY <1>5, <1>6, <1>7, <1>8 DEF IInv, TypeOK, Transcript, Contexts

-----------------------------------------------------------------------------
(* The user *)

MadeType == [what : Done, obj : Objects, value : Values \cup {NoValue}, at : Nat,
             by : SUBSET Frameworks]

LEMMA GestureType ==
  ASSUME NEW what, NEW kind, NEW values, NEW open, NEW g \in Gesture(what, kind, values, open)
  PROVE  g.what = what /\ g.obj \in Objects /\ g.value \in values
  BY DEF Gesture

LEMMA PossibleType ==
  ASSUME ui \in Objects \cup {NoObject}, NEW g \in Possible
  PROVE  /\ g.what \in Done /\ g.obj \in Objects /\ g.value \in Values \cup {NoValue}
         /\ g.what \in {"pick", "pick_by_key"} => g.value \in Values
<1>1. CASE \E kind, open : \E what \in Done \ {"pick", "pick_by_key"} :
             \E values \in {Values, {NoValue}} : g \in Gesture(what, kind, values, open)
  <2>1. PICK kind, open : \E what \in Done \ {"pick", "pick_by_key"} :
          \E values \in {Values, {NoValue}} : g \in Gesture(what, kind, values, open)
    BY <1>1
  <2>2. PICK what \in Done \ {"pick", "pick_by_key"}, values \in {Values, {NoValue}} :
          g \in Gesture(what, kind, values, open)
    BY <2>1
  <2>3. g.what = what /\ g.obj \in Objects /\ g.value \in values
    BY <2>2, GestureType
  <2>4. QED BY <2>3
<1>2. CASE g \in {[what |-> "dismiss", obj |-> ui, value |-> NoValue] : x \in {ui} \cap Objects}
  <2>1. ui \in Objects
    BY <1>2, ObjectsAssumption
  <2>2. g = [what |-> "dismiss", obj |-> ui, value |-> NoValue]
    BY <1>2
  <2>3. QED BY <2>1, <2>2 DEF Done
<1>3. CASE \E what \in {"pick", "pick_by_key"} : g \in Gesture(what, "selector", Values, TRUE)
  <2>1. PICK what \in {"pick", "pick_by_key"} : g \in Gesture(what, "selector", Values, TRUE)
    BY <1>3
  <2>2. g.what = what /\ g.obj \in Objects /\ g.value \in Values
    BY <2>1, GestureType
  <2>3. QED BY <2>2 DEF Done
<1>4. QED
  <2>1. "click" \in Done \ {"pick", "pick_by_key"} /\ "right_click" \in Done \ {"pick", "pick_by_key"}
        /\ "check" \in Done \ {"pick", "pick_by_key"} /\ "type" \in Done \ {"pick", "pick_by_key"}
        /\ "switch_tab" \in Done \ {"pick", "pick_by_key"}
        /\ "open_menu" \in Done \ {"pick", "pick_by_key"}
        /\ "open_selector" \in Done \ {"pick", "pick_by_key"}
        /\ "choose" \in Done \ {"pick", "pick_by_key"}
    BY DEF Done
  <2>2. QED BY <1>1, <1>2, <1>3, <2>1, Zenon DEF Possible

LEMMA TupleType ==
  ASSUME NEW S, NEW x \in S, NEW y \in S, NEW z \in S
  PROVE  <<>> \in Seq(S) /\ <<x>> \in Seq(S) /\ <<x, y>> \in Seq(S) /\ <<x, y, z>> \in Seq(S)
  OBVIOUS

LEMMA TupleElements ==
  ASSUME NEW x, NEW y, NEW z, NEW r \in {<<>>, <<x>>, <<x, y>>, <<x, y, z>>}
  PROVE  \A i \in DOMAIN r : r[i] \in {x, y, z}
<1>1. CASE r = <<>>         BY <1>1
<1>2. CASE r = <<x>>        BY <1>2
<1>3. CASE r = <<x, y>>     BY <1>3
<1>4. CASE r = <<x, y, z>>  BY <1>4
<1>5. QED BY <1>1, <1>2, <1>3, <1>4

(* r is a sequence of observations of gesture n, whose record is g. *)
Reports(r, n, g) ==
  /\ r \in Seq(Observation)
  /\ \A i \in DOMAIN r : r[i].gesture = n /\ r[i].obj = g.obj

LEMMA ReportedType ==
  ASSUME NEW g \in MadeType, NEW n \in 1 .. MaxGestures, NEW a \in Frameworks,
         NEW fw \in Frameworks,
         g.what \in {"pick", "pick_by_key"} => g.value # NoValue
  PROVE  Reports(Reported(a, g, n, fw), n, g)
<1> DEFINE About == {o \in Observation : o.gesture = n /\ o.obj = g.obj}
<1>1. \A f \in Frameworks : \A d \in {"primary", "secondary"} : \A v \in {g.value, NoValue} :
        Event(g, n, f, "pointer", d, v) \in About
  BY DEF Event, Observation, MadeType, Details
<1>2. \A f \in Frameworks : Event(g, n, f, "text", "text", g.value) \in About
  BY DEF Event, Observation, MadeType, Details
<1>3. \A f \in Frameworks : \A d \in {"checked", "selected", "tab_selection"} :
        Event(g, n, f, "state", d, g.value) \in About
  BY DEF Event, Observation, MadeType, Details
<1>4. g.what \in {"pick", "pick_by_key"} =>
        \A f \in Frameworks : Event(g, n, f, "state", "value", g.value) \in About
  BY DEF Event, Observation, MadeType, Details
<1>5. \A f \in Frameworks : \A d \in {"activate", "toggle"} :
        Event(g, n, f, "action", d, NoValue) \in About
  BY DEF Event, Observation, MadeType, Details
<1>6. \E x, y, z \in About : Reported(a, g, n, fw) \in {<<>>, <<x>>, <<x, y>>, <<x, y, z>>}
  <2> HIDE DEF About
  <2>1. PICK f \in Frameworks : f = IF a = "javafx" THEN "javafx" ELSE fw
    BY DEF Frameworks
  <2>2. PICK d \in {"primary", "secondary"} : d = IF g.what = "right_click" THEN "secondary" ELSE "primary"
    OBVIOUS
  <2>3. PICK v \in {g.value, NoValue} :
          v = IF f = "javafx" /\ g.what = "pick" THEN g.value ELSE NoValue
    OBVIOUS
  <2>4. PICK p \in About : p = Event(g, n, f, "pointer", d, v)
    BY <1>1
  <2>5. PICK t \in About : t = Event(g, n, a, "text", "text", g.value)
    BY <1>2
  <2>6. Reported(a, g, n, fw) =
          CASE g.what = "type" -> <<t>>
            [] g.what = "check" /\ a = "javafx" ->
                 <<p, Event(g, n, f, "state", "selected", g.value),
                   Event(g, n, f, "action", "activate", NoValue)>>
            [] g.what = "check" /\ a = "atspi" ->
                 <<p, Event(g, n, f, "state", "checked", g.value), Event(g, n, f, "action", "toggle", NoValue)>>
            [] g.what \in {"click", "choose"} /\ a = "javafx" ->
                 <<p, Event(g, n, f, "action", "activate", NoValue)>>
            [] g.what = "pick" /\ a = "javafx" ->
                 <<p, Event(g, n, f, "state", "value", g.value), Event(g, n, f, "action", "activate", NoValue)>>
            [] g.what = "pick_by_key" /\ a = "javafx" ->
                 <<Event(g, n, f, "state", "value", g.value), Event(g, n, f, "action", "activate", NoValue)>>
            [] g.what = "pick_by_key" /\ a = "atspi" -> <<>>
            [] g.what = "dismiss" -> <<>>
            [] g.what = "switch_tab" /\ a = "javafx" ->
                 <<p, Event(g, n, f, "state", "tab_selection", g.value)>>
            [] OTHER -> <<p>>
    BY <2>1, <2>2, <2>3, <2>4, <2>5 DEF Reported
  <2>7. QED BY <1>3, <1>4, <1>5, <2>6
<1>7. PICK x, y, z \in About : Reported(a, g, n, fw) \in {<<>>, <<x>>, <<x, y>>, <<x, y, z>>}
  BY <1>6
<1>8. /\ x \in Observation /\ y \in Observation /\ z \in Observation
      /\ \A o \in {x, y, z} : o.gesture = n /\ o.obj = g.obj
  OBVIOUS
<1>9. PICK r : r = Reported(a, g, n, fw)
  OBVIOUS
<1>10. r \in Seq(Observation)
  BY <1>7, <1>8, <1>9, TupleType
<1>11. \A i \in DOMAIN r : r[i] \in {x, y, z}
  BY <1>7, <1>9, TupleElements
<1>12. QED BY <1>8, <1>9, <1>10, <1>11 DEF Reports

LEMMA GesticulateKeeps == IInv /\ Gesticulate => IInv'
<1> SUFFICES ASSUME IInv, Gesticulate PROVE IInv'
  OBVIOUS
<1>1. PICK g \in Possible, gap \in Gaps, fw \in AtspiFrameworks :
        LET n == Len(gestures) + 1
            at == IF gestures = <<>> THEN 0 ELSE gestures[n - 1].at + gap
            made == [what |-> g.what, obj |-> g.obj, value |-> g.value, at |-> at,
                     by |-> attached]
        IN /\ gestures' = Append(gestures, made)
           /\ ui' = IF g.what \in Openers /\ ui # g.obj THEN g.obj ELSE NoObject
           /\ feed' = [a \in DOMAIN feed |->
                         IF a \in attached THEN feed[a] \o Reported(a, made, n, fw) ELSE feed[a]]
  BY DEF Gesticulate
<1>2. PICK n : n = Len(gestures) + 1
  OBVIOUS
<1>3. PICK made : made = [what |-> g.what, obj |-> g.obj, value |-> g.value,
                          at |-> IF gestures = <<>> THEN 0 ELSE gestures[n - 1].at + gap,
                          by |-> attached]
  OBVIOUS
<1>4. gestures \in Seq(MadeType) /\ n \in 1 .. MaxGestures
  <2>1. Len(gestures) < MaxGestures /\ MaxGestures \in Nat
    BY WindowsAssumption DEF Gesticulate
  <2>2. QED BY <1>2, <2>1 DEF IInv, TypeOK, MadeType
<1>5. made \in MadeType
  <2>1. (IF gestures = <<>> THEN 0 ELSE gestures[n - 1].at + gap) \in Nat
    <3>1. gap \in Nat
      BY WindowsAssumption
    <3>2. gestures # <<>> => gestures[n - 1] \in MadeType
      BY <1>2, <1>4
    <3>3. QED BY <3>1, <3>2 DEF MadeType
  <2>2. QED BY <1>3, <2>1, PossibleType DEF MadeType, IInv, TypeOK
<1>6. made.what \in {"pick", "pick_by_key"} => made.value # NoValue
  BY <1>3, PossibleType, ObjectsAssumption DEF IInv, TypeOK
<1>7. gestures' = Append(gestures, made)
  BY <1>1, <1>2, <1>3
<1>8. \A a \in Frameworks : feed'[a] = IF a \in attached THEN feed[a] \o Reported(a, made, n, fw)
                                        ELSE feed[a]
  BY <1>1, <1>2, <1>3 DEF IInv, TypeOK
<1>9. \A a \in Frameworks : Reports(Reported(a, made, n, fw), n, made)
  <2>1. fw \in Frameworks
    BY AdaptersAssumption
  <2>2. QED BY <1>4, <1>5, <1>6, <2>1, ReportedType
<1>10. /\ gestures' \in Seq(MadeType) /\ Len(gestures') <= MaxGestures
       /\ gestures'[n] = made /\ n \in DOMAIN gestures'
       /\ \A m \in DOMAIN gestures : m \in DOMAIN gestures' /\ gestures'[m] = gestures[m]
  BY <1>2, <1>4, <1>5, <1>7
<1>11. feed' \in [Frameworks -> Seq(Observation)]
  BY <1>1, <1>2, <1>3, <1>9 DEF IInv, TypeOK, Reports
<1>12. FeedTraced'
  <2>1. ASSUME NEW a \in Frameworks, NEW i \in DOMAIN feed'[a] PROVE Traced(feed[a][i])'
    <3>1. feed[a] \in Seq(Observation)
      BY DEF IInv, TypeOK
    <3>2. \/ i \in DOMAIN feed[a] /\ feed'[a][i] = feed[a][i]
          \/ \E j \in DOMAIN Reported(a, made, n, fw) : feed'[a][i] = Reported(a, made, n, fw)[j]
      <4>1. CASE a \in attached
        <5> DEFINE r == Reported(a, made, n, fw)
        <5>1. r \in Seq(Observation) /\ feed'[a] = feed[a] \o r
          BY <1>8, <1>9, <4>1 DEF Reports
        <5> HIDE DEF r
        <5>2. i \in 1 .. Len(feed[a]) + Len(r)
          BY <2>1, <3>1, <5>1
        <5>3. CASE i <= Len(feed[a])
          BY <3>1, <5>1, <5>2, <5>3
        <5>4. CASE i > Len(feed[a])
          <6>1. i - Len(feed[a]) \in DOMAIN r /\ feed'[a][i] = r[i - Len(feed[a])]
            BY <3>1, <5>1, <5>2, <5>4
          <6>2. QED BY <6>1 DEF r
        <5>5. QED BY <3>1, <5>2, <5>3, <5>4
      <4>2. CASE a \notin attached
        BY <1>8, <2>1, <4>2
      <4>3. QED BY <4>1, <4>2
    <3>3. CASE i \in DOMAIN feed[a] /\ feed'[a][i] = feed[a][i]
      BY <1>10, <3>3 DEF IInv, FeedTraced, Traced
    <3>4. CASE \E j \in DOMAIN Reported(a, made, n, fw) : feed'[a][i] = Reported(a, made, n, fw)[j]
      BY <1>9, <1>10, <3>4 DEF Traced, Reports
    <3>5. QED BY <3>2, <3>3, <3>4
  <2>2. QED BY <2>1 DEF FeedTraced
<1>13. OneObjectPerStep'
  <2>1. UNCHANGED <<interactions, pending>>
    BY DEF Gesticulate, transcript
  <2>2. \A i \in Interaction : i.of \subseteq 1 .. MaxGestures
    BY DEF Interaction
  <2>3. QED BY <1>10, <2>1 DEF IInv, TypeOK, OneObjectPerStep, OneObject
<1>14. ui' \in Objects \cup {NoObject}
  BY <1>1, PossibleType DEF IInv, TypeOK
<1>15. QED
  BY <1>10, <1>11, <1>12, <1>13, <1>14 DEF IInv, TypeOK, Gesticulate, transcript, contexts, MadeType

-----------------------------------------------------------------------------
(* The life cycle *)

LEMMA InitIInv == Init => IInv
<1> SUFFICES ASSUME Init PROVE IInv
  OBVIOUS
<1>1. TypeOK
  <2>1. /\ phase \in Phases /\ attached \subseteq Frameworks /\ faulty \subseteq Frameworks
        /\ owners \subseteq Objects /\ ui \in Objects \cup {NoObject}
    BY DEF Init, Phases
  <2>2. feed \in [Frameworks -> Seq(Observation)]
    <3>1. <<>> \in Seq(Observation)
      OBVIOUS
    <3>2. QED BY <3>1 DEF Init
  <2>3. interactions \in Seq(Interaction) /\ pending \in Seq(Interaction) /\ Len(pending) <= 1
    BY DEF Init
  <2>4. menu \in [owner : owners \cup {NoObject}, since : Nat, absorbed : SUBSET (1 .. MaxGestures)]
    BY DEF Init, NoMenu
  <2>5. /\ popup \in [owner : Objects \cup {NoObject}, fw : Frameworks, since : Nat,
                      committed : BOOLEAN, value : Values \cup {NoValue}, at : Nat]
        /\ popup.committed => popup.owner # NoObject /\ popup.value # NoValue
    BY DEF Init, NoPopup, Frameworks
  <2>6. Len(gestures) <= MaxGestures /\ gestures \in Seq(MadeType)
    BY WindowsAssumption DEF Init
  <2>7. QED BY <2>1, <2>2, <2>3, <2>4, <2>5, <2>6 DEF TypeOK, MadeType
<1>2. OneObjectPerStep /\ FeedTraced
  BY DEF Init, OneObjectPerStep, FeedTraced, Frameworks
<1>3. QED BY <1>1, <1>2 DEF IInv

LEMMA StartAdapterKeeps == IInv /\ StartAdapter => IInv' /\ Grows
<1> SUFFICES ASSUME IInv, StartAdapter PROVE IInv' /\ Grows
  OBVIOUS
<1>1. UNCHANGED <<faulty, feed, interactions, pending, menu, popup, owners, gestures, ui>>
  BY DEF StartAdapter, transcript, contexts, user
<1>2. attached' \subseteq Frameworks /\ phase' \in Phases
  BY AdaptersAssumption DEF IInv, TypeOK, StartAdapter, Phases
<1>3. QED
  BY <1>1, <1>2 DEF IInv, TypeOK, OneObjectPerStep, OneObject, FeedTraced, Traced, Grows

LEMMA FinishStopKeeps == IInv /\ FinishStop => IInv' /\ Grows
<1> SUFFICES ASSUME IInv, FinishStop PROVE IInv' /\ Grows
  OBVIOUS
<1>1. UNCHANGED <<attached, faulty, feed, owners, gestures, ui>>
  BY DEF FinishStop, user
<1>2. Transcript
  BY DEF IInv, TypeOK, Transcript
<1>3. interactions' = interactions \o pending /\ pending' = <<>>
  BY DEF FinishStop
<1>4. /\ interactions' \in Seq(Interaction) /\ Grows
      /\ \A i \in DOMAIN interactions' : OneObject(interactions'[i])
  BY <1>1, <1>2, <1>3, FlushKeeps
<1>5. OneObjectPerStep'
  BY <1>1, <1>3, <1>4 DEF OneObjectPerStep, OneObject
<1>6. TypeOK'
  BY <1>1, <1>3, <1>4, NoPopupIsContext
  DEF IInv, TypeOK, FinishStop, Phases, NoMenu, NoPopup
<1>7. FeedTraced'
  BY <1>1 DEF IInv, FeedTraced, Traced
<1>8. QED BY <1>4, <1>5, <1>6, <1>7 DEF IInv

LEMMA NextIInv == IInv /\ [Next]_vars => IInv' /\ Grows
<1> SUFFICES ASSUME IInv, [Next]_vars PROVE IInv' /\ Grows
  OBVIOUS
<1>1. ASSUME NEW a \in Frameworks, Observe(a) PROVE IInv' /\ Grows
  BY <1>1, ObserveKeeps
<1>2. ASSUME NEW a \in Frameworks, StopAdapter(a) PROVE IInv' /\ Grows
  BY <1>2 DEF StopAdapter, IInv, TypeOK, OneObjectPerStep, OneObject, FeedTraced, Traced,
              transcript, contexts, user, Grows
<1>3. CASE StartAdapter
  BY <1>3, StartAdapterKeeps
<1>4. CASE StartFails \/ RequestStop \/ Abandon
  <2>1. UNCHANGED <<attached, faulty, feed, interactions, pending, menu, popup, owners, gestures, ui>>
    BY <1>4 DEF StartFails, RequestStop, Abandon, transcript, contexts, user
  <2>2. phase' \in Phases
    BY <1>4 DEF StartFails, RequestStop, Abandon, Phases
  <2>3. QED
    BY <2>1, <2>2 DEF IInv, TypeOK, OneObjectPerStep, OneObject, FeedTraced, Traced, Grows
<1>5. CASE FinishStop
  BY <1>5, FinishStopKeeps
<1>6. CASE Gesticulate
  <2>1. UNCHANGED interactions /\ interactions \in Seq(Interaction)
    BY <1>6 DEF Gesticulate, transcript, IInv, TypeOK
  <2>2. Grows
    BY <2>1 DEF Grows
  <2>3. QED BY <1>6, <2>2, GesticulateKeeps
<1>7. CASE UNCHANGED vars
  BY <1>7 DEF vars, IInv, TypeOK, OneObjectPerStep, OneObject, FeedTraced, Traced,
              transcript, contexts, user, Grows
<1>8. DOMAIN feed = Frameworks
  BY DEF IInv, TypeOK
<1>9. QED
  BY <1>1, <1>2, <1>3, <1>4, <1>5, <1>6, <1>7, <1>8 DEF Next, Terminated

-----------------------------------------------------------------------------
(* The state of a session keeps its shape. *)
THEOREM RecordingTypeCorrect == Spec => []TypeOK
<1>1. IInv => TypeOK
  BY DEF IInv
<1>2. QED BY <1>1, InitIInv, NextIInv, PTL DEF Spec

(* No recorded interaction mixes gestures on different objects, whatever   *)
(* the order in which the adapters report them.                            *)
THEOREM ObjectsNotMixed == Spec => []OneObjectPerStep
<1>1. IInv => OneObjectPerStep
  BY DEF IInv
<1>2. QED BY <1>1, InitIInv, NextIInv, PTL DEF Spec

(* Recorded interactions are never rewritten, and after the session ended  *)
(* nothing changes.                                                        *)
THEOREM ResultIsFinal == Spec => RecordedIsFinal
<1>1. IInv /\ [Next]_vars /\ ~ Active => UNCHANGED <<transcript, contexts>>
  <2> SUFFICES ASSUME [Next]_vars, ~ Active PROVE UNCHANGED <<transcript, contexts>>
    OBVIOUS
  <2>1. phase \in {"stopped", "abandoned"}
    BY DEF Active
  <2>2. CASE \E a \in DOMAIN feed : Observe(a)
    BY <2>1, <2>2 DEF Observe, Active
  <2>3. CASE \E a \in DOMAIN feed : StopAdapter(a)
    BY <2>3 DEF StopAdapter
  <2>4. CASE StartAdapter \/ StartFails \/ RequestStop \/ FinishStop \/ Abandon
    BY <2>1, <2>4 DEF StartAdapter, StartFails, RequestStop, FinishStop, Abandon
  <2>5. CASE Gesticulate
    BY <2>5 DEF Gesticulate
  <2>6. CASE UNCHANGED vars
    BY <2>6 DEF vars
  <2>7. QED BY <2>2, <2>3, <2>4, <2>5, <2>6 DEF Next, Terminated
<1>2. IInv /\ [Next]_vars =>
        [/\ Len(interactions) <= Len(interactions')
         /\ \A i \in DOMAIN interactions : interactions'[i] = interactions[i]
         /\ ~ Active => UNCHANGED <<transcript, contexts>>]_vars
  BY <1>1, NextIInv DEF Grows
<1>3. QED BY <1>2, InitIInv, NextIInv, PTL DEF Spec, RecordedIsFinal

-----------------------------------------------------------------------------
(* What becomes of an observation *)

(* What becomes of what an adapter heard: an observation changes the       *)
(* pending interaction into i, starts i, is without effect, or makes the   *)
(* pending click the opener of a menu.                                     *)
Carries(i, o) == i.obj = o.obj /\ o.gesture \in i.of

Replaces(i, o, absorbed) ==
  /\ pending # <<>> /\ Last.obj = o.obj /\ pending' = <<i>> /\ UNCHANGED interactions
  /\ Last.of \subseteq i.of /\ i.of \subseteq Last.of \cup {o.gesture} \cup absorbed

Starts(i, o, absorbed) ==
  /\ interactions' = interactions \o pending /\ pending' = <<i>>
  /\ i.of \subseteq {o.gesture} \cup absorbed

Accounts(o, absorbed) ==
  \E i : Carries(i, o) /\ (Replaces(i, o, absorbed) \/ Starts(i, o, absorbed))

AbsorbsClick(o) ==
  /\ Kind[o.obj] = "menu" /\ pending # <<>> /\ Last.action \in {"click", "right_click"}
  /\ pending' = <<>> /\ UNCHANGED interactions /\ menu'.absorbed = Last.of

Effect(o) ==
  \/ UNCHANGED transcript /\ menu'.absorbed \subseteq menu.absorbed
  \/ Accounts(o, menu.absorbed) /\ menu'.absorbed \subseteq menu.absorbed
  \/ AbsorbsClick(o)

LEMMA BeginAccounts ==
  ASSUME Transcript, NEW o \in Observation, NEW action, NEW value, NEW context \in Context,
         Begin(action, value, o, context)
  PROVE  Accounts(o, context.absorbed)
<1> DEFINE merged == [Last EXCEPT !.fw = PreferredFramework(o), !.completed = Latest(@, o.at),
                                  !.of = @ \cup {o.gesture}]
<1> DEFINE texted == [Last EXCEPT !.value = value, !.completed = o.at, !.of = @ \cup {o.gesture}]
<1> DEFINE fresh == Fresh(action, value, o)
<1>1. CASE Correlates(action, value, o) /\ Replace(Attached(merged, context))
  <2>1. Last \in Interaction /\ Last.obj = o.obj /\ pending # <<>>
    BY <1>1 DEF Correlates, SameLogicalTarget, Transcript, Last
  <2>2. /\ Attached(merged, context).obj = o.obj
        /\ Last.of \cup {o.gesture} \subseteq Attached(merged, context).of
        /\ Attached(merged, context).of \subseteq Last.of \cup {o.gesture} \cup context.absorbed
    BY <2>1 DEF Attached, Interaction
  <2> HIDE DEF merged
  <2> QED BY <1>1, <2>1, <2>2 DEF Accounts, Carries, Replaces, Replace
<1>2. CASE Coalesces(action, o) /\ Replace(texted)
  <2>1. Last \in Interaction /\ Last.obj = o.obj /\ pending # <<>>
    BY <1>2 DEF Coalesces, SameTarget, SameLogicalTarget, Transcript, Last
  <2>2. texted.obj = o.obj /\ texted.of = Last.of \cup {o.gesture}
    BY <2>1 DEF Interaction
  <2> HIDE DEF texted
  <2> QED BY <1>2, <2>1, <2>2 DEF Accounts, Carries, Replaces, Replace
<1>3. CASE interactions' = interactions \o pending /\ pending' = <<Attached(fresh, context)>>
  <2>1. /\ Attached(fresh, context).obj = o.obj /\ o.gesture \in Attached(fresh, context).of
        /\ Attached(fresh, context).of \subseteq {o.gesture} \cup context.absorbed
    BY DEF Attached, Fresh
  <2> HIDE DEF fresh
  <2> QED BY <1>3, <2>1 DEF Accounts, Carries, Starts
<1> QED BY <1>1, <1>2, <1>3 DEF Begin

LEMMA AccountsMore ==
  ASSUME NEW o, NEW S, NEW T, Accounts(o, S), S \subseteq T
  PROVE  Accounts(o, T)
  BY DEF Accounts, Replaces, Starts

LEMMA MergeAccounts ==
  ASSUME Transcript, NEW o \in Observation, NEW context \in Context,
         SameLogicalTarget(o), MergeAction(o, context)
  PROVE  Accounts(o, context.absorbed)
<1> DEFINE merged == [Last EXCEPT !.action = IF o.detail = "activate" THEN @ ELSE o.detail,
                                  !.fw = PreferredFramework(o), !.completed = o.at,
                                  !.of = @ \cup {o.gesture}]
<1>1. Last \in Interaction /\ Last.obj = o.obj /\ pending # <<>>
  BY DEF SameLogicalTarget, Transcript, Last
<1>2. /\ Attached(merged, context).obj = o.obj
      /\ Last.of \cup {o.gesture} \subseteq Attached(merged, context).of
      /\ Attached(merged, context).of \subseteq Last.of \cup {o.gesture} \cup context.absorbed
  BY <1>1 DEF Attached, Interaction
<1>3. Replace(Attached(merged, context))
  BY DEF MergeAction
<1> HIDE DEF merged
<1> QED BY <1>1, <1>2, <1>3 DEF Accounts, Carries, Replaces, Replace

LEMMA AddDeltaAccounts ==
  ASSUME Transcript, NEW o \in Observation, AddDelta(o)
  PROVE  UNCHANGED transcript \/ Accounts(o, {})
<1> DEFINE grown == [Last EXCEPT !.action = Promoted(@, o.detail), !.completed = o.at,
                                 !.of = @ \cup {o.gesture}]
<1>1. CASE SameTarget(o) /\ Replace(grown)
  <2>1. Last \in Interaction /\ Last.obj = o.obj /\ pending # <<>>
    BY <1>1 DEF SameTarget, SameLogicalTarget, Transcript, Last
  <2>2. grown.obj = o.obj /\ grown.of = Last.of \cup {o.gesture}
    BY <2>1 DEF Interaction
  <2> HIDE DEF grown
  <2> QED BY <1>1, <2>1, <2>2 DEF Accounts, Carries, Replaces, Replace
<1> QED BY <1>1 DEF AddDelta

LEMMA CommitEffect ==
  ASSUME Transcript, NEW o \in Observation, NEW value, Commit(value, o)
  PROVE  Effect(o)
<1>1. CASE UNCHANGED transcript
  BY <1>1 DEF Effect, Commit
<1>2. CASE Begin("select_item", value, o, NoMenu)
  <2>1. Accounts(o, {})
    BY <1>2, BeginAccounts, NoMenuIsContext DEF NoMenu
  <2> QED BY <2>1, AccountsMore DEF Effect, Commit
<1> QED BY <1>1, <1>2 DEF Commit

LEMMA PointerEffect ==
  ASSUME Transcript, Contexts, NEW o \in Observation, ObservePointer(o)
  PROVE  Effect(o)
<1>0. menu \in Context /\ NoMenu \in Context /\ NoMenu.absorbed = {}
  BY NoMenuIsContext DEF Contexts, Context, NoMenu
<1>1. CASE IgnorePointer(o) \/ CancelPopup(o) \/ TraverseMenu(o) \/ OpenSelector(o)
  <2>1. UNCHANGED transcript
    BY <1>1 DEF IgnorePointer, CancelPopup, TraverseMenu, OpenSelector
  <2>2. menu' = menu \/ menu' = NoMenu
    BY <1>1 DEF IgnorePointer, CancelPopup, TraverseMenu, OpenSelector, contexts
  <2> QED BY <1>0, <2>1, <2>2 DEF Effect
<1>2. CASE SelectInPopup(o)
  BY <1>2, CommitEffect DEF SelectInPopup
<1>3. CASE ChooseFromMenu(o)
  <2>1. Accounts(o, menu.absorbed)
    BY <1>0, <1>3, BeginAccounts DEF ChooseFromMenu
  <2> QED BY <1>0, <1>3, <2>1 DEF Effect, ChooseFromMenu
<1>4. CASE OpenMenu(o)
  <2>1. CASE Absorbs(o) /\ pending' = <<>> /\ menu' = [owner |-> o.obj, since |-> o.at, absorbed |-> Last.of]
    BY <1>4, <2>1 DEF OpenMenu, Absorbs, Effect, AbsorbsClick
  <2>2. CASE UNCHANGED pending /\ menu' = [owner |-> o.obj, since |-> o.at, absorbed |-> {}]
    BY <1>4, <2>2 DEF OpenMenu, Effect, transcript
  <2> QED BY <1>4, <2>1, <2>2 DEF OpenMenu
<1>5. CASE Click(o)
  <2>1. Accounts(o, {})
    BY <1>0, <1>5, BeginAccounts DEF Click
  <2> QED BY <1>0, <1>5, <2>1, AccountsMore DEF Effect, Click
<1> QED BY <1>1, <1>2, <1>3, <1>4, <1>5 DEF ObservePointer

LEMMA ActionEffect ==
  ASSUME Transcript, Contexts, NEW o \in Observation, ObserveAction(o)
  PROVE  Effect(o)
<1>0. menu \in Context /\ NoMenu \in Context /\ NoMenu.absorbed = {}
  BY NoMenuIsContext DEF Contexts, Context, NoMenu
<1>1. CASE UNCHANGED <<transcript, contexts>>
  BY <1>1 DEF Effect, contexts
<1>2. CASE ~ UNCHANGED <<transcript, contexts>>
  <2>1. \E context \in {menu, NoMenu} :
          /\ \/ SameLogicalTarget(o) /\ MergeAction(o, context)
             \/ ~ SameLogicalTarget(o) /\ Begin(o.detail, NoValue, o, context)
          /\ menu' \in {menu, NoMenu}
    BY <1>2 DEF ObserveAction
  <2>2. PICK context \in {menu, NoMenu} :
          \/ SameLogicalTarget(o) /\ MergeAction(o, context)
          \/ ~ SameLogicalTarget(o) /\ Begin(o.detail, NoValue, o, context)
    BY <2>1
  <2>3. Accounts(o, context.absorbed) /\ context.absorbed \subseteq menu.absorbed
    BY <1>0, <2>2, BeginAccounts, MergeAccounts
  <2> QED BY <1>0, <2>1, <2>3, AccountsMore DEF Effect
<1> QED BY <1>1, <1>2

LEMMA StateEffect ==
  ASSUME Transcript, Contexts, NEW o \in Observation, ObserveState(o)
  PROVE  Effect(o)
<1>1. CASE Begin("select_item", o.value, o, NoMenu) /\ UNCHANGED contexts
  <2>1. Accounts(o, {})
    BY <1>1, BeginAccounts, NoMenuIsContext DEF NoMenu
  <2> QED BY <1>1, <2>1, AccountsMore DEF Effect, contexts
<1>2. CASE Commit(o.value, o)
  BY <1>2, CommitEffect
<1>3. CASE AddDelta(o) /\ UNCHANGED contexts
  BY <1>3, AddDeltaAccounts, AccountsMore DEF Effect, contexts
<1> QED BY <1>1, <1>2, <1>3 DEF ObserveState

(* A reported text is the text of the pending interaction afterwards.      *)
LEMMA TextEffect ==
  ASSUME Transcript, NEW o \in Observation, ObserveText(o)
  PROVE  /\ Accounts(o, {}) /\ menu' = menu
         /\ pending' # <<>> /\ pending'[1].action = "set_text" /\ pending'[1].value = o.value
<1>1. Accounts(o, {})
  BY BeginAccounts, NoMenuIsContext DEF ObserveText, NoMenu
<1>2. CASE Coalesces("set_text", o) /\ Replace([Last EXCEPT !.value = o.value, !.completed = o.at,
                                                            !.of = @ \cup {o.gesture}])
  <2>1. Last \in Interaction /\ Last.action = "set_text"
    BY <1>2 DEF Coalesces, SameTarget, SameLogicalTarget, Transcript, Last
  <2> QED BY <1>1, <1>2, <2>1 DEF Replace, Interaction, ObserveText, contexts
<1>3. CASE pending' = <<Attached(Fresh("set_text", o.value, o), NoMenu)>>
  BY <1>1, <1>3 DEF Attached, Fresh, NoMenu, ObserveText, contexts
<1>4. ~ Correlates("set_text", o.value, o)
  BY DEF Correlates
<1> QED BY <1>2, <1>3, <1>4 DEF ObserveText, Begin

-----------------------------------------------------------------------------
(* What is recorded of a gesture and of an object *)

(* n is accounted for by an interaction, recorded or pending.              *)
Accounted(n) ==
  \/ pending # <<>> /\ n \in Last.of
  \/ \E i \in DOMAIN interactions : n \in interactions[i].of

(* The last interaction on x has the value v.                              *)
EndsIn(s, x, v) ==
  \E i \in DOMAIN s : /\ s[i].obj = x /\ s[i].value = v
                      /\ \A j \in DOMAIN s : j > i => s[j].obj # x

EndsWith(x, v) ==
  IF pending # <<>> /\ Last.obj = x THEN Last.value = v ELSE EndsIn(interactions, x, v)

LEMMA Flushed ==
  ASSUME Transcript, interactions' = interactions \o pending
  PROVE  /\ \A x, v : EndsWith(x, v) => EndsIn(interactions', x, v)
         /\ \A n : Accounted(n) => \E i \in DOMAIN interactions' : n \in interactions'[i].of
<1>1. CASE pending = <<>>
  <2>1. interactions' = interactions
    BY <1>1 DEF Transcript
  <2> QED BY <1>1, <2>1 DEF EndsWith, Accounted
<1>2. CASE pending # <<>>
  <2>1. /\ DOMAIN interactions' = 1 .. Len(interactions) + 1 /\ Len(interactions) \in Nat
        /\ DOMAIN interactions = 1 .. Len(interactions)
        /\ \A i \in 1 .. Len(interactions) : interactions'[i] = interactions[i]
        /\ interactions'[Len(interactions) + 1] = Last
    BY <1>2 DEF Transcript, Last
  <2>2. ASSUME NEW x, NEW v, EndsWith(x, v) PROVE EndsIn(interactions', x, v)
    <3>1. CASE Last.obj = x
      BY <1>2, <2>1, <2>2, <3>1 DEF EndsWith, EndsIn
    <3>2. CASE Last.obj # x
      <4>1. PICK i \in DOMAIN interactions :
              /\ interactions[i].obj = x /\ interactions[i].value = v
              /\ \A j \in DOMAIN interactions : j > i => interactions[j].obj # x
        BY <2>2, <3>2 DEF EndsWith, EndsIn
      <4>2. \A j \in DOMAIN interactions' : j > i => interactions'[j].obj # x
        BY <2>1, <3>2, <4>1
      <4> QED BY <2>1, <4>1, <4>2 DEF EndsIn
    <3> QED BY <3>1, <3>2
  <2>3. ASSUME NEW n, Accounted(n) PROVE \E i \in DOMAIN interactions' : n \in interactions'[i].of
    <3>1. CASE n \in Last.of
      BY <2>1, <3>1
    <3>2. CASE \E i \in DOMAIN interactions : n \in interactions[i].of
      BY <2>1, <3>2
    <3> QED BY <2>3, <3>1, <3>2 DEF Accounted
  <2> QED BY <2>2, <2>3
<1> QED BY <1>1, <1>2

(* An observation takes nothing away from what is recorded of the others.  *)
LEMMA EffectKeeps ==
  ASSUME Transcript, NEW o \in Observation, Effect(o)
  PROVE  /\ \A x, v : /\ x # o.obj /\ EndsWith(x, v)
                      /\ pending # <<>> /\ Last.obj = x => Last.action \notin {"click", "right_click"}
                      => EndsWith(x, v)'
         /\ \A n : Accounted(n) /\ ~ (AbsorbsClick(o) /\ n \in Last.of) => Accounted(n)'
<1>1. CASE UNCHANGED transcript
  BY <1>1 DEF transcript, EndsWith, EndsIn, Accounted, Last
<1>2. CASE \E i : Carries(i, o) /\ Replaces(i, o, menu.absorbed)
  BY <1>2 DEF Carries, Replaces, EndsWith, EndsIn, Accounted, Last
<1>3. CASE \E i : Carries(i, o) /\ Starts(i, o, menu.absorbed)
  <2>1. PICK i : Carries(i, o) /\ Starts(i, o, menu.absorbed)
    BY <1>3
  <2>2. pending' # <<>> /\ Last' = i /\ interactions' = interactions \o pending
    BY <2>1 DEF Starts, Last
  <2>3. \A x, v : EndsWith(x, v) => EndsIn(interactions', x, v)
    BY <2>2, Flushed
  <2>4. \A x, v : x # o.obj /\ EndsIn(interactions', x, v) => EndsWith(x, v)'
    BY <2>1, <2>2 DEF Carries, EndsWith, EndsIn
  <2>5. \A n : Accounted(n) => Accounted(n)'
    BY <2>2, Flushed DEF Accounted
  <2> QED BY <2>3, <2>4, <2>5
<1>4. CASE AbsorbsClick(o)
  BY <1>4 DEF AbsorbsClick, EndsWith, EndsIn, Accounted, Last
<1> QED BY <1>1, <1>2, <1>3, <1>4 DEF Effect, Accounts

(* What it accounts for is accounted for.                                  *)
LEMMA AccountedFor ==
  ASSUME NEW o, NEW S, Accounts(o, S)
  PROVE  Accounted(o.gesture)'
  BY DEF Accounts, Carries, Replaces, Starts, Accounted, Last

-----------------------------------------------------------------------------
(* Texts, openers and the adapters' lives *)

NoOpeners == \A n \in DOMAIN gestures : ~ IsOpener(n)

(* Each gesture is one that its object allows; without an opener there is  *)
(* nothing open, in the application and in the correlator.                 *)
Plain == {"button", "check", "field", "tabs"}
UserInv ==
  /\ ui # NoObject => Kind[ui] \in {"menu", "selector"}
  /\ \A n \in DOMAIN gestures :
       /\ gestures[n].what = "type" <=> Kind[gestures[n].obj] = "field"
       /\ gestures[n].what = "switch_tab" <=> Kind[gestures[n].obj] = "tabs"
  /\ NoOpeners => ui = NoObject /\ \A n \in DOMAIN gestures : Kind[gestures[n].obj] \in Plain

ContextInv == NoOpeners => menu.owner = NoObject /\ popup.owner = NoObject

(* A text is reported as a text, and only a text.                          *)
FeedInv ==
  \A a \in Frameworks : \A i \in DOMAIN feed[a] :
    /\ feed[a][i].type = "text" <=> Kind[feed[a][i].obj] = "field"
    /\ feed[a][i].type = "text" => feed[a][i].value = gestures[feed[a][i].gesture].value

NoText(S) == \A n \in S : n \in DOMAIN gestures /\ gestures[n].what # "type"

(* Texts are accounted for by interactions that no menu absorbs.           *)
TextsApart ==
  /\ pending # <<>> /\ Kind[Last.obj] = "field" => Last.action = "set_text"
  /\ pending # <<>> /\ Kind[Last.obj] # "field" => NoText(Last.of)
  /\ NoText(menu.absorbed)

(* An adapter is detached with nothing left to deliver, or is faulty.      *)
LifeInv ==
  /\ \A a \in Frameworks : a \in attached \/ a \in faulty \/ feed[a] = <<>>
  /\ ~ Active => attached = {}
  /\ phase = "stopped" => pending = <<>>

CInv == IInv /\ UserInv /\ ContextInv /\ FeedInv /\ TextsApart /\ LifeInv

LEMMA InitCInv == Init => CInv
  BY InitIInv, ObjectsAssumption DEF Init, CInv, UserInv, ContextInv, FeedInv, TextsApart, LifeInv, NoText,
     NoMenu, NoPopup, NoOpeners, Active

-----------------------------------------------------------------------------
(* observe *)

(* An adapter delivers the first of its observations.                      *)
LEMMA Taken ==
  ASSUME IInv, NEW a \in Frameworks, Observe(a), NEW o, o = Head(feed[a])
  PROVE  /\ o \in Observation /\ Traced(o) /\ Transcript /\ Contexts
         /\ UNCHANGED <<phase, attached, faulty, gestures, ui>>
         /\ 1 \in DOMAIN feed[a] /\ o = feed[a][1]
         /\ \A b \in Frameworks : b # a => feed'[b] = feed[b]
         /\ \A i \in DOMAIN feed'[a] : i + 1 \in DOMAIN feed[a] /\ feed'[a][i] = feed[a][i + 1] /\ i \in Nat
         /\ \A j \in DOMAIN feed[a] : j # 1 => j - 1 \in DOMAIN feed'[a] /\ feed'[a][j - 1] = feed[a][j]
<1>1. feed[a] \in Seq(Observation) /\ feed[a] # <<>> /\ feed'[a] = Tail(feed[a])
  BY DEF IInv, TypeOK, Observe
<1>2. o \in Observation /\ o = feed[a][1] /\ 1 \in DOMAIN feed[a]
  BY <1>1
<1>3. Traced(o)
  BY <1>2 DEF IInv, FeedTraced
<1>4. Transcript /\ Contexts
  BY DEF IInv, TypeOK, Transcript, Contexts
<1>5. UNCHANGED <<phase, attached, faulty, gestures, ui>>
  BY DEF Observe, user
<1>6. \A b \in Frameworks : b # a => feed'[b] = feed[b]
  BY DEF Observe, IInv, TypeOK
<1>7. \A i \in DOMAIN feed'[a] : i + 1 \in DOMAIN feed[a] /\ feed'[a][i] = feed[a][i + 1] /\ i \in Nat
  BY <1>1
<1>8. \A j \in DOMAIN feed[a] : j # 1 => j - 1 \in DOMAIN feed'[a] /\ feed'[a][j - 1] = feed[a][j]
  BY <1>1
<1> QED BY <1>2, <1>3, <1>4, <1>5, <1>6, <1>7, <1>8

LEMMA ObservedEffect ==
  ASSUME CInv, NEW a \in Frameworks, Observe(a), NEW o, o = Head(feed[a])
  PROVE  /\ Active => Effect(o) /\ (o.type = "text" => ObserveText(o))
         /\ ~ Active => UNCHANGED <<transcript, contexts>>
<1>1. o \in Observation /\ Transcript /\ Contexts
  BY Taken DEF CInv
<1>2. \/ ~ Active /\ UNCHANGED <<transcript, contexts>>
      \/ Active /\ o.type = "pointer" /\ ObservePointer(o)
      \/ Active /\ o.type = "text" /\ ObserveText(o)
      \/ Active /\ o.type = "action" /\ ObserveAction(o)
      \/ Active /\ o.type = "state" /\ ObserveState(o)
  BY DEF Observe
<1>3. ObserveText(o) => Effect(o)
  BY <1>1, TextEffect, AccountsMore DEF Effect
<1>4. Active => Effect(o)
  BY <1>1, <1>2, <1>3, PointerEffect, ActionEffect, StateEffect
<1> QED BY <1>2, <1>4

(* Without an opener no observation opens a context.                       *)
LEMMA NothingOpens ==
  ASSUME CInv, NEW a \in Frameworks, Observe(a), NEW o, o = Head(feed[a]), NoOpeners
  PROVE  menu'.owner = NoObject /\ popup'.owner = NoObject
<1>1. Kind[o.obj] \in Plain /\ o.obj \in Objects
  <2>1. o \in Observation /\ Traced(o)
    BY Taken DEF CInv
  <2>2. \A n \in DOMAIN gestures : Kind[gestures[n].obj] \in Plain
    BY DEF CInv, UserInv
  <2> QED BY <2>1, <2>2 DEF Traced, Observation
<1>2. menu.owner = NoObject /\ popup.owner = NoObject /\ popup.owner # o.obj
  BY <1>1, ObjectsAssumption DEF CInv, ContextInv
<1>3. UNCHANGED menu \/ menu' = NoMenu
  BY <1>1 DEF Observe, ObservePointer, ObserveText, ObserveAction, ObserveState,
     IgnorePointer, SelectInPopup, CancelPopup, ChooseFromMenu, TraverseMenu, OpenMenu,
     OpenSelector, Click, Commit, contexts, Plain
<1>4. UNCHANGED popup \/ popup' = NoPopup
  BY <1>1, <1>2 DEF Observe, ObservePointer, ObserveText, ObserveAction, ObserveState,
     IgnorePointer, SelectInPopup, CancelPopup, ChooseFromMenu, TraverseMenu, OpenMenu,
     OpenSelector, Click, Selection, contexts, Plain
<1> QED BY <1>2, <1>3, <1>4 DEF NoMenu, NoPopup

LEMMA ObserveKeepsTexts ==
  ASSUME CInv, NEW a \in Frameworks, Observe(a), NEW o, o = Head(feed[a])
  PROVE  TextsApart'
<1>1. /\ o \in Observation /\ Traced(o) /\ Transcript /\ UNCHANGED gestures
      /\ o.type = "text" <=> Kind[o.obj] = "field"
  BY Taken DEF CInv, FeedInv
<1>2. CASE ~ Active
  BY <1>1, <1>2, ObservedEffect DEF CInv, TextsApart, transcript, contexts, NoText, Last
<1>3. CASE Active /\ o.type = "text"
  <2>1. /\ Accounts(o, {}) /\ menu' = menu
        /\ pending' # <<>> /\ pending'[1].action = "set_text"
    BY <1>1, <1>3, ObservedEffect, TextEffect
  <2>2. pending'[1].obj = o.obj
    BY <2>1 DEF Accounts, Carries, Replaces, Starts
  <2> QED BY <1>1, <1>3, <2>1, <2>2 DEF CInv, TextsApart, NoText, Last
<1>4. CASE Active /\ o.type # "text"
  <2>1. Kind[o.obj] # "field" /\ NoText({o.gesture}) /\ NoText(menu.absorbed)
    BY <1>1, <1>4 DEF Traced, NoText, CInv, UserInv, TextsApart
  <2>2. CASE UNCHANGED transcript /\ menu'.absorbed \subseteq menu.absorbed
    BY <1>1, <2>2 DEF CInv, TextsApart, transcript, NoText, Last
  <2>3. CASE Accounts(o, menu.absorbed) /\ menu'.absorbed \subseteq menu.absorbed
    <3>1. PICK i : Carries(i, o) /\ (Replaces(i, o, menu.absorbed) \/ Starts(i, o, menu.absorbed))
      BY <2>3 DEF Accounts
    <3>2. pending' = <<i>> /\ i.obj = o.obj
      BY <3>1 DEF Carries, Replaces, Starts
    <3>3. NoText(i.of)
      <4>1. CASE Replaces(i, o, menu.absorbed)
        <5>1. NoText(Last.of)
          BY <2>1, <4>1 DEF Replaces, CInv, TextsApart
        <5> QED BY <2>1, <4>1, <5>1 DEF Replaces, NoText
      <4>2. CASE Starts(i, o, menu.absorbed)
        BY <2>1, <4>2 DEF Starts, NoText
      <4> QED BY <3>1, <4>1, <4>2
    <3> QED BY <1>1, <2>1, <2>3, <3>2, <3>3 DEF TextsApart, NoText, Last
  <2>4. CASE AbsorbsClick(o)
    BY <1>1, <2>4 DEF AbsorbsClick, CInv, TextsApart, NoText, Last
  <2> QED BY <1>4, <2>2, <2>3, <2>4, ObservedEffect DEF Effect
<1> QED BY <1>2, <1>3, <1>4

LEMMA ObserveKeepsCInv ==
  ASSUME CInv, NEW a \in Frameworks, Observe(a)
  PROVE  CInv'
<1>1. PICK o : o = Head(feed[a])
  OBVIOUS
<1>2. IInv'
  BY ObserveKeeps DEF CInv
<1>3. UserInv'
  <2>1. UNCHANGED <<gestures, ui>>
    BY <1>1, Taken DEF CInv
  <2> QED BY <2>1 DEF CInv, UserInv, NoOpeners, IsOpener
<1>4. ContextInv'
  <2>1. NoOpeners' => NoOpeners
    BY <1>1, Taken DEF CInv, NoOpeners, IsOpener
  <2> QED BY <1>1, <2>1, NothingOpens DEF ContextInv
<1>5. FeedInv'
  <2>1. ASSUME NEW b \in Frameworks, NEW i \in DOMAIN feed'[b]
        PROVE  \E j \in DOMAIN feed[b] : feed'[b][i] = feed[b][j]
    BY <1>1, Taken DEF CInv
  <2>2. UNCHANGED gestures
    BY <1>1, Taken DEF CInv
  <2> QED BY <2>1, <2>2 DEF CInv, FeedInv
<1>6. TextsApart'
  BY <1>1, ObserveKeepsTexts
<1>7. LifeInv'
  <2>1. \A b \in Frameworks : b \in attached \/ b \in faulty \/ feed'[b] = <<>>
    <3>1. feed[a] # <<>>
      BY DEF Observe
    <3> QED BY <1>1, <3>1, Taken DEF CInv, LifeInv
  <2>2. UNCHANGED <<phase, attached, faulty>>
    BY <1>1, Taken DEF CInv
  <2>3. phase = "stopped" => UNCHANGED pending
    BY <1>1, ObservedEffect DEF Active, transcript
  <2> QED BY <2>1, <2>2, <2>3 DEF CInv, LifeInv, Active
<1> QED BY <1>2, <1>3, <1>4, <1>5, <1>6, <1>7 DEF CInv

-----------------------------------------------------------------------------
(* Gestures and their reports *)

(* A gesture is appended to gestures, its reports to the feeds of the      *)
(* attached adapters.                                                      *)
Made(g, n) ==
  /\ g \in MadeType /\ g.by = attached
  /\ [what |-> g.what, obj |-> g.obj, value |-> g.value] \in Possible
  /\ ui' = IF g.what \in Openers /\ ui # g.obj THEN g.obj ELSE NoObject
  /\ n = Len(gestures) + 1 /\ n \in 1 .. MaxGestures
  /\ DOMAIN gestures' = DOMAIN gestures \cup {n} /\ gestures'[n] = g
  /\ \A m \in DOMAIN gestures : m < n /\ m \in Nat /\ gestures'[m] = gestures[m]

Delivered(g, n, fw) ==
  \A a \in Frameworks :
    feed'[a] = IF a \in attached THEN feed[a] \o Reported(a, g, n, fw) ELSE feed[a]

LEMMA GestureShape ==
  ASSUME NEW what, NEW kind, NEW values, NEW open, NEW p \in Gesture(what, kind, values, open)
  PROVE  /\ p = [what |-> p.what, obj |-> p.obj, value |-> p.value]
         /\ p.what = what /\ Kind[p.obj] = kind /\ p.obj \in Objects
<1>1. PICK x \in {y \in Objects : Kind[y] = kind /\ open}, v \in values :
        p = [what |-> what, obj |-> x, value |-> v]
  BY DEF Gesture
<1> QED BY <1>1

LEMMA PossibleShape ==
  ASSUME NEW p \in Possible
  PROVE  p = [what |-> p.what, obj |-> p.obj, value |-> p.value]
<1>1. CASE p \in {[what |-> "dismiss", obj |-> ui, value |-> NoValue] : x \in {ui} \cap Objects}
  BY <1>1
<1>2. CASE \E what, kind, values, open : p \in Gesture(what, kind, values, open)
  BY <1>2, GestureShape
<1> QED BY <1>1, <1>2, Zenon DEF Possible

LEMMA GestureMade ==
  ASSUME IInv, Gesticulate
  PROVE  /\ \E g, n : \E fw \in AtspiFrameworks : Made(g, n) /\ Delivered(g, n, fw)
         /\ UNCHANGED <<phase, attached, faulty, interactions, pending, menu, popup>>
         /\ attached # {}
<1>1. PICK p \in Possible, gap \in Gaps, fw \in AtspiFrameworks :
        LET n == Len(gestures) + 1
            at == IF gestures = <<>> THEN 0 ELSE gestures[n - 1].at + gap
            made == [what |-> p.what, obj |-> p.obj, value |-> p.value, at |-> at,
                     by |-> attached]
        IN /\ gestures' = Append(gestures, made)
           /\ ui' = IF p.what \in Openers /\ ui # p.obj THEN p.obj ELSE NoObject
           /\ feed' = [a \in DOMAIN feed |->
                         IF a \in attached THEN feed[a] \o Reported(a, made, n, fw) ELSE feed[a]]
  BY DEF Gesticulate
<1>2. PICK n : n = Len(gestures) + 1
  OBVIOUS
<1>3. PICK g : g = [what |-> p.what, obj |-> p.obj, value |-> p.value,
                    at |-> IF gestures = <<>> THEN 0 ELSE gestures[n - 1].at + gap,
                    by |-> attached]
  OBVIOUS
<1>4. gestures \in Seq(MadeType) /\ n \in 1 .. MaxGestures
  <2>1. Len(gestures) < MaxGestures /\ MaxGestures \in Nat
    BY WindowsAssumption DEF Gesticulate
  <2> QED BY <1>2, <2>1 DEF IInv, TypeOK, MadeType
<1>5. g \in MadeType
  <2>1. (IF gestures = <<>> THEN 0 ELSE gestures[n - 1].at + gap) \in Nat
    <3>1. gap \in Nat
      BY WindowsAssumption
    <3>2. gestures # <<>> => gestures[n - 1] \in MadeType
      BY <1>2, <1>4
    <3> QED BY <3>1, <3>2 DEF MadeType
  <2> QED BY <1>3, <2>1, PossibleType DEF MadeType, IInv, TypeOK
<1>6. gestures' = Append(gestures, g)
  BY <1>1, <1>2, <1>3
<1>7. /\ DOMAIN gestures' = DOMAIN gestures \cup {n} /\ gestures'[n] = g
      /\ \A m \in DOMAIN gestures : m < n /\ m \in Nat /\ gestures'[m] = gestures[m]
  BY <1>2, <1>4, <1>5, <1>6
<1>8. [what |-> g.what, obj |-> g.obj, value |-> g.value] \in Possible
  <2>1. p = [what |-> p.what, obj |-> p.obj, value |-> p.value]
    BY PossibleShape
  <2> QED BY <1>3, <2>1
<1>9. ui' = IF g.what \in Openers /\ ui # g.obj THEN g.obj ELSE NoObject
  BY <1>1, <1>3
<1>10. Made(g, n)
  BY <1>2, <1>3, <1>4, <1>5, <1>7, <1>8, <1>9 DEF Made
<1>11. Delivered(g, n, fw)
  BY <1>1, <1>2, <1>3 DEF IInv, TypeOK, Delivered
<1>12. /\ UNCHANGED <<phase, attached, faulty, interactions, pending, menu, popup>>
       /\ attached # {}
  BY DEF Gesticulate, transcript, contexts
<1> QED BY <1>10, <1>11, <1>12

(* What a gesture says of the object it is made on, and of the ui.         *)
LEMMA PossibleKind ==
  ASSUME UserInv, ui \in Objects \cup {NoObject}, NEW p \in Possible
  PROVE  /\ p.what = "type" <=> Kind[p.obj] = "field"
         /\ p.what = "switch_tab" <=> Kind[p.obj] = "tabs"
         /\ p.what \in Openers => Kind[p.obj] \in {"menu", "selector"}
         /\ ui = NoObject /\ p.what \notin Openers => Kind[p.obj] \in Plain
<1>1. CASE \/ p \in Gesture("click", "button", {NoValue}, TRUE)
           \/ p \in Gesture("right_click", "button", {NoValue}, TRUE)
           \/ p \in Gesture("check", "check", {NoValue}, TRUE)
           \/ p \in Gesture("type", "field", Values, TRUE)
           \/ p \in Gesture("switch_tab", "tabs", Values, TRUE)
           \/ p \in Gesture("open_menu", "menu", {NoValue}, TRUE)
           \/ p \in Gesture("open_selector", "selector", {NoValue}, TRUE)
  <2>1. PICK values, open :
          \/ p \in Gesture("click", "button", values, open)
          \/ p \in Gesture("right_click", "button", values, open)
          \/ p \in Gesture("check", "check", values, open)
          \/ p \in Gesture("type", "field", values, open)
          \/ p \in Gesture("switch_tab", "tabs", values, open)
          \/ p \in Gesture("open_menu", "menu", values, open)
          \/ p \in Gesture("open_selector", "selector", values, open)
    BY <1>1
  <2>2. \/ p.what = "click" /\ Kind[p.obj] = "button"
        \/ p.what = "right_click" /\ Kind[p.obj] = "button"
        \/ p.what = "check" /\ Kind[p.obj] = "check"
        \/ p.what = "type" /\ Kind[p.obj] = "field"
        \/ p.what = "switch_tab" /\ Kind[p.obj] = "tabs"
        \/ p.what = "open_menu" /\ Kind[p.obj] = "menu"
        \/ p.what = "open_selector" /\ Kind[p.obj] = "selector"
    BY <2>1, GestureShape
  <2> QED BY <2>2 DEF Openers, Plain
<1>2. CASE p \in Gesture("choose", "item", {NoValue}, ui \in Objects /\ Kind[ui] = "menu")
  <2>1. p.what = "choose" /\ Kind[p.obj] = "item" /\ ui \in Objects
    BY <1>2 DEF Gesture
  <2> QED BY <2>1, ObjectsAssumption DEF Openers
<1>3. CASE p \in {[what |-> "dismiss", obj |-> ui, value |-> NoValue] : x \in {ui} \cap Objects}
  <2>1. p.what = "dismiss" /\ p.obj = ui /\ ui \in Objects
    BY <1>3
  <2> QED BY <2>1, ObjectsAssumption DEF UserInv, Openers
<1>4. CASE p \in {g \in Gesture("pick", "selector", Values, TRUE)
                        \cup Gesture("pick_by_key", "selector", Values, TRUE) : g.obj = ui}
  <2>1. /\ p.what = "pick" \/ p.what = "pick_by_key"
        /\ p.obj = ui /\ p.obj \in Objects /\ Kind[p.obj] = "selector"
    <3>1. p.obj = ui
      BY <1>4
    <3>2. PICK open : \/ p \in Gesture("pick", "selector", Values, open)
                      \/ p \in Gesture("pick_by_key", "selector", Values, open)
      BY <1>4
    <3>3. CASE p \in Gesture("pick", "selector", Values, open)
      <4>1. p.what = "pick" /\ Kind[p.obj] = "selector" /\ p.obj \in Objects
        BY <3>3, GestureShape
      <4> QED BY <3>1, <4>1
    <3>4. CASE p \in Gesture("pick_by_key", "selector", Values, open)
      <4>1. p.what = "pick_by_key" /\ Kind[p.obj] = "selector" /\ p.obj \in Objects
        BY <3>4, GestureShape
      <4> QED BY <3>1, <4>1
    <3> QED BY <3>2, <3>3, <3>4
  <2> QED BY <2>1, ObjectsAssumption DEF Openers
<1> QED BY <1>1, <1>2, <1>3, <1>4, Zenon DEF Possible

(* With nothing open, nothing is chosen, dismissed or picked.              *)
LEMMA PossibleInside ==
  ASSUME ui = NoObject, NEW p \in Possible
  PROVE  p.what \in {"click", "right_click", "check", "type", "switch_tab"} \cup Openers
<1>1. PICK values, open :
          \/ p \in Gesture("click", "button", values, open)
          \/ p \in Gesture("right_click", "button", values, open)
          \/ p \in Gesture("check", "check", values, open)
          \/ p \in Gesture("type", "field", values, open)
          \/ p \in Gesture("switch_tab", "tabs", values, open)
          \/ p \in Gesture("open_menu", "menu", values, open)
          \/ p \in Gesture("open_selector", "selector", values, open)
  <2>1. p \notin Gesture("choose", "item", {NoValue}, ui \in Objects /\ Kind[ui] = "menu")
    BY ObjectsAssumption DEF Gesture
  <2>2. p \notin {[what |-> "dismiss", obj |-> ui, value |-> NoValue] : x \in {ui} \cap Objects}
    BY ObjectsAssumption
  <2>3. p \notin {g \in Gesture("pick", "selector", Values, TRUE)
                       \cup Gesture("pick_by_key", "selector", Values, TRUE) : g.obj = ui}
    <3>1. \A what, kind, values, open : \A g \in Gesture(what, kind, values, open) : g.obj # ui
      BY GestureShape, ObjectsAssumption
    <3> QED BY <3>1, Zenon
  <2> QED BY <2>1, <2>2, <2>3, Zenon DEF Possible
<1> QED BY <1>1, GestureShape DEF Openers

(* A text gesture is reported as one text, any other gesture as none.      *)
LEMMA ReportedTexts ==
  ASSUME NEW g, NEW n, NEW a \in Frameworks, NEW fw
  PROVE  /\ g.what = "type" => Reported(a, g, n, fw) = <<Event(g, n, a, "text", "text", g.value)>>
         /\ g.what # "type" => \A i \in DOMAIN Reported(a, g, n, fw) : Reported(a, g, n, fw)[i].type # "text"
<1>1. g.what = "type" => Reported(a, g, n, fw) = <<Event(g, n, a, "text", "text", g.value)>>
  BY DEF Reported
<1>2. ASSUME g.what # "type"
      PROVE  \A i \in DOMAIN Reported(a, g, n, fw) : Reported(a, g, n, fw)[i].type # "text"
  <2>1. PICK f : f = IF a = "javafx" THEN "javafx" ELSE fw
    OBVIOUS
  <2> DEFINE Others == {Event(g, n, f, type, detail, value) :
                          type \in {"pointer", "state", "action"}, detail \in Details,
                          value \in {g.value, NoValue}}
  <2>2. \A o \in Others : o.type # "text"
    BY DEF Event
  <2>3. /\ \A d \in {"primary", "secondary"} : \A v \in {g.value, NoValue} :
             Event(g, n, f, "pointer", d, v) \in Others
        /\ \A d \in {"checked", "selected", "tab_selection", "value"} :
             Event(g, n, f, "state", d, g.value) \in Others
        /\ \A d \in {"activate", "toggle"} : Event(g, n, f, "action", d, NoValue) \in Others
    BY DEF Details
  <2>4. \E x, y, z \in Others : Reported(a, g, n, fw) \in {<<>>, <<x>>, <<x, y>>, <<x, y, z>>}
    <3> HIDE DEF Others
    <3>1. PICK d \in {"primary", "secondary"} : d = IF g.what = "right_click" THEN "secondary" ELSE "primary"
      OBVIOUS
    <3>2. PICK v \in {g.value, NoValue} : v = IF f = "javafx" /\ g.what = "pick" THEN g.value ELSE NoValue
      OBVIOUS
    <3>3. PICK p \in Others : p = Event(g, n, f, "pointer", d, v)
      BY <2>3
    <3>4. Reported(a, g, n, fw) =
          CASE g.what = "check" /\ a = "javafx" ->
                 <<p, Event(g, n, f, "state", "selected", g.value),
                   Event(g, n, f, "action", "activate", NoValue)>>
            [] g.what = "check" /\ a = "atspi" ->
                 <<p, Event(g, n, f, "state", "checked", g.value), Event(g, n, f, "action", "toggle", NoValue)>>
            [] g.what \in {"click", "choose"} /\ a = "javafx" ->
                 <<p, Event(g, n, f, "action", "activate", NoValue)>>
            [] g.what = "pick" /\ a = "javafx" ->
                 <<p, Event(g, n, f, "state", "value", g.value), Event(g, n, f, "action", "activate", NoValue)>>
            [] g.what = "pick_by_key" /\ a = "javafx" ->
                 <<Event(g, n, f, "state", "value", g.value), Event(g, n, f, "action", "activate", NoValue)>>
            [] g.what = "pick_by_key" /\ a = "atspi" -> <<>>
            [] g.what = "dismiss" -> <<>>
            [] g.what = "switch_tab" /\ a = "javafx" ->
                 <<p, Event(g, n, f, "state", "tab_selection", g.value)>>
            [] OTHER -> <<p>>
      BY <1>2, <2>1, <3>1, <3>2, <3>3 DEF Reported
    <3> QED BY <2>3, <3>4
  <2> HIDE DEF Others
  <2>5. PICK x, y, z \in Others : Reported(a, g, n, fw) \in {<<>>, <<x>>, <<x, y>>, <<x, y, z>>}
    BY <2>4
  <2>6. PICK r : r = Reported(a, g, n, fw)
    OBVIOUS
  <2>7. \A i \in DOMAIN r : r[i] \in {x, y, z}
    BY <2>5, <2>6, TupleElements
  <2> QED BY <2>2, <2>6, <2>7
<1> QED BY <1>1, <1>2

(* What a feed holds afterwards is what it held, or a report of the gesture. *)
LEMMA FeedAfter ==
  ASSUME IInv, NEW g, NEW n, NEW fw \in AtspiFrameworks, Made(g, n), Delivered(g, n, fw),
         NEW a \in Frameworks
  PROVE  /\ DOMAIN feed[a] \subseteq DOMAIN feed'[a]
         /\ \A i \in DOMAIN feed[a] : feed'[a][i] = feed[a][i]
         /\ \A i \in DOMAIN feed'[a] \ DOMAIN feed[a] :
              /\ a \in attached
              /\ \E j \in DOMAIN Reported(a, g, n, fw) :
                   i = Len(feed[a]) + j /\ feed'[a][i] = Reported(a, g, n, fw)[j]
         /\ a \in attached =>
              \A j \in DOMAIN Reported(a, g, n, fw) :
                /\ Len(feed[a]) + j \in DOMAIN feed'[a]
                /\ feed'[a][Len(feed[a]) + j] = Reported(a, g, n, fw)[j]
         /\ Reports(Reported(a, g, n, fw), n, g)
<1>1. Reports(Reported(a, g, n, fw), n, g)
  <2>1. g.what \in {"pick", "pick_by_key"} => g.value # NoValue
    <3>1. [what |-> g.what, obj |-> g.obj, value |-> g.value] \in Possible
      BY DEF Made
    <3> QED BY <3>1, PossibleType, ObjectsAssumption DEF IInv, TypeOK
  <2> QED BY <2>1, ReportedType, AdaptersAssumption DEF Made
<1>2. feed[a] \in Seq(Observation)
  BY DEF IInv, TypeOK
<1>3. PICK r : r = Reported(a, g, n, fw)
  OBVIOUS
<1>4. CASE a \in attached
  <2>1. feed'[a] = feed[a] \o r /\ r \in Seq(Observation)
    BY <1>1, <1>3, <1>4 DEF Delivered, Reports
  <2>2. /\ DOMAIN feed'[a] = 1 .. Len(feed[a]) + Len(r) /\ Len(feed[a]) \in Nat /\ Len(r) \in Nat
        /\ \A i \in 1 .. Len(feed[a]) : feed'[a][i] = feed[a][i]
        /\ \A j \in 1 .. Len(r) : feed'[a][Len(feed[a]) + j] = r[j]
        /\ DOMAIN feed[a] = 1 .. Len(feed[a]) /\ DOMAIN r = 1 .. Len(r)
    BY <1>2, <2>1
  <2>3. ASSUME NEW i \in DOMAIN feed'[a] \ DOMAIN feed[a]
        PROVE  \E j \in DOMAIN r : i = Len(feed[a]) + j /\ feed'[a][i] = r[j]
    <3>1. i - Len(feed[a]) \in DOMAIN r /\ i = Len(feed[a]) + (i - Len(feed[a]))
      BY <2>2
    <3> QED BY <2>2, <3>1
  <2> QED BY <1>1, <1>3, <1>4, <2>2, <2>3
<1>5. CASE a \notin attached
  BY <1>1, <1>5 DEF Delivered
<1> QED BY <1>4, <1>5

LEMMA GesticulateKeepsCInv ==
  ASSUME CInv, Gesticulate
  PROVE  CInv'
<1>1. PICK g, n : \E fw \in AtspiFrameworks : Made(g, n) /\ Delivered(g, n, fw)
  BY GestureMade DEF CInv
<1>2. PICK fw \in AtspiFrameworks : Made(g, n) /\ Delivered(g, n, fw)
  BY <1>1
<1>3. /\ UNCHANGED <<phase, attached, faulty, interactions, pending, menu, popup>>
      /\ attached # {}
  BY GestureMade DEF CInv
<1>4. IInv'
  BY GesticulateKeeps DEF CInv
<1>5. /\ g.what = "type" <=> Kind[g.obj] = "field"
      /\ g.what = "switch_tab" <=> Kind[g.obj] = "tabs"
      /\ g.what \in Openers => Kind[g.obj] \in {"menu", "selector"}
      /\ ui = NoObject /\ g.what \notin Openers => Kind[g.obj] \in Plain
  <2>1. PICK p \in Possible : p = [what |-> g.what, obj |-> g.obj, value |-> g.value]
    BY <1>2 DEF Made
  <2>2. p.what = g.what /\ p.obj = g.obj
    BY <2>1
  <2> QED BY <2>2, PossibleKind DEF CInv, IInv, TypeOK
<1>6. NoOpeners' => NoOpeners /\ g.what \notin Openers
  BY <1>2 DEF NoOpeners, IsOpener, Made
<1>7. UserInv'
  <2>1. ui' # NoObject => Kind[ui'] \in {"menu", "selector"}
    BY <1>2, <1>5 DEF Made
  <2>2. \A m \in DOMAIN gestures' :
          /\ gestures'[m].what = "type" <=> Kind[gestures'[m].obj] = "field"
          /\ gestures'[m].what = "switch_tab" <=> Kind[gestures'[m].obj] = "tabs"
    BY <1>2, <1>5 DEF Made, CInv, UserInv
  <2>3. ASSUME NoOpeners'
        PROVE  ui' = NoObject /\ \A m \in DOMAIN gestures' : Kind[gestures'[m].obj] \in Plain
    BY <1>2, <1>5, <1>6, <2>3 DEF Made, CInv, UserInv
  <2> QED BY <2>1, <2>2, <2>3 DEF UserInv
<1>8. ContextInv'
  BY <1>3, <1>6 DEF CInv, ContextInv
<1>9. FeedInv'
  <2>1. ASSUME NEW a \in Frameworks, NEW i \in DOMAIN feed'[a]
        PROVE  /\ feed'[a][i].type = "text" <=> Kind[feed'[a][i].obj] = "field"
               /\ feed'[a][i].type = "text" => feed'[a][i].value = gestures'[feed'[a][i].gesture].value
    <3>1. CASE i \in DOMAIN feed[a]
      <4>1. feed'[a][i] = feed[a][i] /\ Traced(feed[a][i])
        BY <1>2, <3>1, FeedAfter DEF CInv, IInv, FeedTraced
      <4> QED BY <1>2, <3>1, <4>1 DEF CInv, FeedInv, Traced, Made
    <3>2. CASE i \notin DOMAIN feed[a]
      <4>1. PICK j \in DOMAIN Reported(a, g, n, fw) : feed'[a][i] = Reported(a, g, n, fw)[j]
        BY <1>2, <3>2, FeedAfter DEF CInv
      <4>2. feed'[a][i].gesture = n /\ feed'[a][i].obj = g.obj
        BY <1>2, <4>1, FeedAfter DEF CInv, Reports
      <4>3. CASE g.what = "type"
        <5>1. Reported(a, g, n, fw) = <<Event(g, n, a, "text", "text", g.value)>>
          BY <4>3, ReportedTexts
        <5>2. feed'[a][i] = Event(g, n, a, "text", "text", g.value)
          BY <4>1, <5>1
        <5>3. feed'[a][i].type = "text" /\ feed'[a][i].value = g.value
          BY <5>2 DEF Event
        <5> QED BY <1>2, <1>5, <4>2, <4>3, <5>3 DEF Made
      <4>4. CASE g.what # "type"
        <5>1. feed'[a][i].type # "text"
          BY <4>1, <4>4, ReportedTexts
        <5> QED BY <1>5, <4>2, <4>4, <5>1
      <4> QED BY <4>3, <4>4
    <3> QED BY <3>1, <3>2
  <2> QED BY <2>1 DEF FeedInv
<1>10. TextsApart'
  BY <1>2, <1>3 DEF CInv, TextsApart, NoText, Made, Last
<1>11. LifeInv'
  <2>1. \A a \in Frameworks : a \notin attached => feed'[a] = feed[a]
    BY <1>2 DEF Delivered
  <2> QED BY <1>3, <2>1 DEF CInv, LifeInv, Active
<1> QED BY <1>4, <1>7, <1>8, <1>9, <1>10, <1>11 DEF CInv

LEMMA NextCInv ==
  ASSUME CInv, [Next]_vars
  PROVE  CInv'
<1>1. IInv'
  BY NextIInv DEF CInv
<1>2. ASSUME UNCHANGED <<faulty, feed, interactions, pending, menu, popup, gestures, ui>>, LifeInv'
      PROVE  CInv'
  BY <1>1, <1>2 DEF CInv, UserInv, ContextInv, FeedInv, TextsApart, NoText, NoOpeners, IsOpener, Last
<1>3. CASE \E a \in Frameworks : Observe(a)
  BY <1>3, ObserveKeepsCInv
<1>4. CASE \E a \in Frameworks : StopAdapter(a)
  <2>1. PICK a \in Frameworks : StopAdapter(a)
    BY <1>4
  <2>2. UNCHANGED <<phase, feed, interactions, pending, menu, popup, gestures, ui>>
    BY <2>1 DEF StopAdapter, transcript, contexts, user
  <2>3. LifeInv'
    BY <2>1, <2>2 DEF StopAdapter, CInv, LifeInv, Active
  <2> QED BY <1>1, <2>2, <2>3
      DEF CInv, UserInv, ContextInv, FeedInv, TextsApart, NoText, NoOpeners, IsOpener, Last
<1>5. CASE StartAdapter
  <2>1. UNCHANGED <<faulty, feed, interactions, pending, menu, popup, gestures, ui>>
    BY <1>5 DEF StartAdapter, transcript, contexts, user
  <2>2. attached \subseteq attached' /\ phase' \in {"starting", "recording"}
    BY <1>5 DEF StartAdapter
  <2>3. LifeInv'
    BY <2>1, <2>2 DEF CInv, LifeInv, Active
  <2> QED BY <1>2, <2>1, <2>3
<1>6. CASE StartFails \/ RequestStop \/ Abandon
  <2>1. UNCHANGED <<attached, faulty, feed, interactions, pending, menu, popup, gestures, ui>>
    BY <1>6 DEF StartFails, RequestStop, Abandon, transcript, contexts, user
  <2>2. LifeInv'
    BY <1>6, <2>1 DEF StartFails, RequestStop, Abandon, CInv, LifeInv, Active
  <2> QED BY <1>2, <2>1, <2>2
<1>7. CASE FinishStop
  <2>1. /\ UNCHANGED <<attached, faulty, feed, gestures, ui>>
        /\ menu' = NoMenu /\ popup' = NoPopup /\ pending' = <<>> /\ phase' = "stopped" /\ attached = {}
    BY <1>7 DEF FinishStop, user
  <2>2. LifeInv'
    BY <2>1 DEF CInv, LifeInv, Active
  <2> QED BY <1>1, <2>1, <2>2
      DEF CInv, UserInv, ContextInv, FeedInv, TextsApart, NoText, NoOpeners, IsOpener, Last, NoMenu, NoPopup
<1>8. CASE Gesticulate
  BY <1>8, GesticulateKeepsCInv
<1>9. CASE UNCHANGED vars
  <2>1. UNCHANGED <<phase, attached, faulty, feed, interactions, pending, menu, popup, gestures, ui>>
    BY <1>9 DEF vars, transcript, contexts, user
  <2>2. LifeInv'
    BY <2>1 DEF CInv, LifeInv, Active
  <2> QED BY <1>2, <2>1, <2>2
<1>10. DOMAIN feed = Frameworks
  BY DEF CInv, IInv, TypeOK
<1> QED BY <1>3, <1>4, <1>5, <1>6, <1>7, <1>8, <1>9, <1>10 DEF Next, Terminated

-----------------------------------------------------------------------------
(* The last text wins *)

(* n is the last text the user typed into its object.                      *)
LatestText(n) ==
  /\ gestures[n].what = "type"
  /\ \A m \in DOMAIN gestures : m > n => gestures[m].obj # gestures[n].obj

(* While no adapter is faulty, whoever still has something to deliver on   *)
(* the object of a latest text delivers that text after it; and a latest   *)
(* text is on its way or the last thing recorded of its object.            *)
FollowInv ==
  \A n \in DOMAIN gestures : LatestText(n) =>
    \A a \in Frameworks : \A i \in DOMAIN feed[a] : feed[a][i].obj = gestures[n].obj =>
      \E j \in DOMAIN feed[a] : j >= i /\ feed[a][j].gesture = n

OnItsWay(n) == \E a \in Frameworks : \E i \in DOMAIN feed[a] : feed[a][i].gesture = n

TextInv ==
  \A n \in DOMAIN gestures : LatestText(n) =>
    OnItsWay(n) \/ EndsWith(gestures[n].obj, gestures[n].value)

TInv == CInv /\ (faulty = {} => FollowInv /\ TextInv)

LEMMA ObserveKeepsText ==
  ASSUME TInv, NEW a \in Frameworks, Observe(a), faulty = {}
  PROVE  FollowInv' /\ TextInv'
<1>0. CInv /\ FollowInv /\ TextInv
  BY DEF TInv
<1>1. PICK o : o = Head(feed[a])
  OBVIOUS
<1>2. /\ o \in Observation /\ Traced(o) /\ Transcript
      /\ UNCHANGED <<phase, attached, faulty, gestures, ui>>
      /\ 1 \in DOMAIN feed[a] /\ o = feed[a][1]
  BY <1>0, <1>1, Taken DEF CInv
<1>3. /\ \A b \in Frameworks : b # a => feed'[b] = feed[b]
      /\ \A i \in DOMAIN feed'[a] : i + 1 \in DOMAIN feed[a] /\ feed'[a][i] = feed[a][i + 1] /\ i \in Nat
      /\ \A j \in DOMAIN feed[a] : j # 1 => j - 1 \in DOMAIN feed'[a] /\ feed'[a][j - 1] = feed[a][j]
  BY <1>0, <1>1, Taken DEF CInv
<1>4. Active
  <2>1. feed[a] # <<>>
    BY DEF Observe
  <2> QED BY <1>0, <2>1 DEF CInv, LifeInv
<1>5. feed[a] \in Seq(Observation)
  BY <1>0 DEF CInv, IInv, TypeOK
<1>6. FollowInv'
  <2>1. ASSUME NEW n \in DOMAIN gestures, LatestText(n), NEW b \in Frameworks, NEW i \in DOMAIN feed'[b],
               feed'[b][i].obj = gestures[n].obj
        PROVE  \E j \in DOMAIN feed'[b] : j >= i /\ feed'[b][j].gesture = n
    <3>1. CASE b # a
      BY <1>0, <1>3, <2>1, <3>1 DEF FollowInv
    <3>2. CASE b = a
      <4>1. i + 1 \in DOMAIN feed[a] /\ feed'[a][i] = feed[a][i + 1] /\ i \in Nat
        BY <1>3, <3>2
      <4>2. PICK j \in DOMAIN feed[a] : j >= i + 1 /\ feed[a][j].gesture = n
        BY <1>0, <2>1, <3>2, <4>1 DEF FollowInv
      <4>3. i # 0
        <5>1. feed'[a] = Tail(feed[a])
          BY <1>0 DEF Observe, CInv, IInv, TypeOK
        <5> QED BY <1>5, <2>1, <3>2, <5>1
      <4>4. j \in Nat /\ j # 1
        BY <1>5, <4>1, <4>2, <4>3
      <4>5. j - 1 \in DOMAIN feed'[a] /\ feed'[a][j - 1] = feed[a][j] /\ j - 1 >= i
        BY <1>3, <4>1, <4>2, <4>3, <4>4
      <4> QED BY <3>2, <4>2, <4>5
    <3> QED BY <3>1, <3>2
  <2> QED BY <1>2, <2>1 DEF FollowInv, LatestText
<1>7. TextInv'
  <2>1. ASSUME NEW n \in DOMAIN gestures, LatestText(n)
        PROVE  OnItsWay(n)' \/ EndsWith(gestures[n].obj, gestures[n].value)'
    <3>1. gestures[n].what = "type" /\ Kind[gestures[n].obj] = "field"
      BY <1>0, <2>1 DEF LatestText, CInv, UserInv
    <3>2. CASE o.gesture = n
      <4>1. o.obj = gestures[n].obj /\ o.type = "text" /\ o.value = gestures[n].value
        BY <1>0, <1>2, <3>1, <3>2 DEF Traced, CInv, FeedInv
      <4>2. ObserveText(o)
        BY <1>0, <1>1, <1>4, <4>1, ObservedEffect
      <4>3. Accounts(o, {}) /\ pending' # <<>> /\ pending'[1].value = o.value
        BY <1>2, <4>2, TextEffect
      <4>4. pending'[1].obj = o.obj
        BY <4>3 DEF Accounts, Carries, Replaces, Starts
      <4> QED BY <1>2, <4>1, <4>3, <4>4 DEF EndsWith, Last
    <3>3. CASE o.gesture # n /\ o.obj = gestures[n].obj
      <4>1. PICK j \in DOMAIN feed[a] : feed[a][j].gesture = n
        BY <1>0, <1>2, <2>1, <3>3 DEF FollowInv
      <4>2. j - 1 \in DOMAIN feed'[a] /\ feed'[a][j - 1].gesture = n
        BY <1>2, <1>3, <3>3, <4>1
      <4> QED BY <4>2 DEF OnItsWay
    <3>4. CASE o.gesture # n /\ o.obj # gestures[n].obj
      <4>1. CASE OnItsWay(n)
        <5>1. PICK b \in Frameworks : \E i \in DOMAIN feed[b] : feed[b][i].gesture = n
          BY <4>1 DEF OnItsWay
        <5>2. PICK i \in DOMAIN feed[b] : feed[b][i].gesture = n
          BY <5>1
        <5>3. b = a => i # 1
          BY <1>2, <3>4, <5>2
        <5> QED BY <1>3, <5>2, <5>3 DEF OnItsWay
      <4>2. CASE EndsWith(gestures[n].obj, gestures[n].value)
        <5>1. pending # <<>> /\ Last.obj = gestures[n].obj => Last.action \notin {"click", "right_click"}
          BY <1>0, <3>1 DEF CInv, TextsApart
        <5>2. Effect(o)
          BY <1>0, <1>1, <1>4, ObservedEffect
        <5>3. PICK x, v : x = gestures[n].obj /\ v = gestures[n].value
          OBVIOUS
        <5>4. EndsWith(x, v)'
          BY <1>2, <3>4, <4>2, <5>1, <5>2, <5>3, EffectKeeps
        <5> QED BY <1>2, <5>3, <5>4 DEF EndsWith
      <4> QED BY <1>0, <2>1, <4>1, <4>2 DEF TextInv
    <3> QED BY <3>2, <3>3, <3>4
  <2> QED BY <1>2, <2>1 DEF TextInv, LatestText, OnItsWay, EndsWith, EndsIn, Last
<1> QED BY <1>6, <1>7

LEMMA GesticulateKeepsText ==
  ASSUME TInv, Gesticulate, faulty = {}
  PROVE  FollowInv' /\ TextInv'
<1>0. CInv /\ FollowInv /\ TextInv
  BY DEF TInv
<1>1. PICK g, n : \E fw \in AtspiFrameworks : Made(g, n) /\ Delivered(g, n, fw)
  BY <1>0, GestureMade DEF CInv
<1>2. PICK fw \in AtspiFrameworks : Made(g, n) /\ Delivered(g, n, fw)
  BY <1>1
<1>3. UNCHANGED <<interactions, pending>> /\ attached # {}
  BY <1>0, GestureMade DEF CInv
<1>4. \A m \in DOMAIN gestures :
        LatestText(m)' => LatestText(m) /\ gestures'[m] = gestures[m] /\ g.obj # gestures[m].obj
  BY <1>2 DEF Made, LatestText
<1>5. ASSUME NEW a \in Frameworks, a \in attached, g.what = "type"
      PROVE  /\ Len(feed[a]) + 1 \in DOMAIN feed'[a] /\ feed'[a][Len(feed[a]) + 1].gesture = n
             /\ \A i \in DOMAIN feed'[a] : i <= Len(feed[a]) + 1
  <2>1. Reported(a, g, n, fw) = <<Event(g, n, a, "text", "text", g.value)>>
    BY <1>5, ReportedTexts
  <2>2. Event(g, n, a, "text", "text", g.value).gesture = n
    BY DEF Event
  <2>3. PICK e : e = Event(g, n, a, "text", "text", g.value)
    OBVIOUS
  <2>4. feed[a] \in Seq(Observation) /\ e \in Observation
    <3>1. Reports(Reported(a, g, n, fw), n, g)
      BY <1>0, <1>2, FeedAfter DEF CInv
    <3>2. <<e>> \in Seq(Observation)
      BY <2>1, <2>3, <3>1 DEF Reports
    <3> QED BY <1>0, <3>2 DEF CInv, IInv, TypeOK
  <2>5. feed'[a] = feed[a] \o <<e>>
    BY <1>2, <1>5, <2>1, <2>3 DEF Delivered
  <2> QED BY <2>2, <2>3, <2>4, <2>5
<1>6. ASSUME NEW a \in Frameworks, NEW i \in DOMAIN feed'[a]
      PROVE  \/ i \in DOMAIN feed[a] /\ feed'[a][i] = feed[a][i]
             \/ i \notin DOMAIN feed[a] /\ a \in attached /\ feed'[a][i].obj = g.obj
  <2>1. CASE i \in DOMAIN feed[a]
    BY <1>0, <1>2, <2>1, FeedAfter DEF CInv
  <2>2. CASE i \notin DOMAIN feed[a]
    <3>1. a \in attached /\ \E j \in DOMAIN Reported(a, g, n, fw) : feed'[a][i] = Reported(a, g, n, fw)[j]
      BY <1>0, <1>2, <2>2, FeedAfter DEF CInv
    <3>2. Reports(Reported(a, g, n, fw), n, g)
      BY <1>0, <1>2, FeedAfter DEF CInv
    <3> QED BY <2>2, <3>1, <3>2 DEF Reports
  <2> QED BY <2>1, <2>2
<1>7. \A a \in Frameworks : \A i \in DOMAIN feed[a] : i \in DOMAIN feed'[a] /\ feed'[a][i] = feed[a][i]
  BY <1>0, <1>2, FeedAfter DEF CInv
<1>8. FollowInv'
  <2>1. ASSUME NEW m \in DOMAIN gestures', LatestText(m)', NEW a \in Frameworks, NEW i \in DOMAIN feed'[a],
               feed'[a][i].obj = gestures'[m].obj
        PROVE  \E j \in DOMAIN feed'[a] : j >= i /\ feed'[a][j].gesture = m
    <3>1. CASE m \in DOMAIN gestures
      <4>1. LatestText(m) /\ gestures'[m] = gestures[m] /\ g.obj # gestures[m].obj
        BY <1>4, <2>1, <3>1
      <4>2. i \in DOMAIN feed[a] /\ feed'[a][i] = feed[a][i]
        BY <1>6, <2>1, <4>1
      <4>3. PICK j \in DOMAIN feed[a] : j >= i /\ feed[a][j].gesture = m
        BY <1>0, <2>1, <3>1, <4>1, <4>2 DEF FollowInv
      <4> QED BY <1>7, <4>3
    <3>2. CASE m = n
      <4>1. g.what = "type"
        BY <1>2, <2>1, <3>2 DEF LatestText, Made
      <4>2. a \in attached
        <5>1. CASE a \notin attached
          <6>1. feed[a] = <<>> /\ feed'[a] = feed[a]
            BY <1>0, <1>2, <5>1 DEF CInv, LifeInv, Delivered
          <6> QED BY <2>1, <6>1
        <5> QED BY <5>1
      <4> QED BY <1>5, <2>1, <3>2, <4>1, <4>2
    <3> QED BY <1>2, <3>1, <3>2 DEF Made
  <2> QED BY <2>1 DEF FollowInv
<1>9. TextInv'
  <2>1. ASSUME NEW m \in DOMAIN gestures', LatestText(m)'
        PROVE  OnItsWay(m)' \/ EndsWith(gestures[m].obj, gestures[m].value)'
    <3>1. CASE m \in DOMAIN gestures
      <4>1. LatestText(m) /\ gestures'[m] = gestures[m]
        BY <1>4, <2>1, <3>1
      <4>2. CASE OnItsWay(m)
        BY <1>7, <4>2 DEF OnItsWay
      <4>3. CASE EndsWith(gestures[m].obj, gestures[m].value)
        BY <1>3, <4>1, <4>3 DEF EndsWith, EndsIn, Last
      <4> QED BY <1>0, <3>1, <4>1, <4>2, <4>3 DEF TextInv
    <3>2. CASE m = n
      <4>1. g.what = "type"
        BY <1>2, <2>1, <3>2 DEF LatestText, Made
      <4>2. PICK a \in attached : a \in Frameworks
        BY <1>0, <1>3 DEF CInv, IInv, TypeOK
      <4> QED BY <1>5, <3>2, <4>1, <4>2 DEF OnItsWay
    <3> QED BY <1>2, <3>1, <3>2 DEF Made
  <2> QED BY <2>1 DEF TextInv
<1> QED BY <1>8, <1>9

LEMMA NextTInv == TInv /\ [Next]_vars => TInv'
<1> SUFFICES ASSUME TInv, [Next]_vars PROVE TInv'
  OBVIOUS
<1>0. CInv'
  BY NextCInv DEF TInv
<1>1. faulty' = {} => faulty = {}
  BY DEF Next, Observe, StopAdapter, StartAdapter, StartFails, RequestStop, FinishStop, Abandon, Gesticulate,
         Terminated, vars
<1> SUFFICES ASSUME faulty = {} PROVE FollowInv' /\ TextInv'
  BY <1>0, <1>1 DEF TInv
<1>2. CInv /\ FollowInv /\ TextInv
  BY DEF TInv
<1>3. CASE \E a \in DOMAIN feed : Observe(a)
  <2>1. DOMAIN feed = Frameworks
    BY <1>2 DEF CInv, IInv, TypeOK
  <2> QED BY <1>3, <2>1, ObserveKeepsText
<1>4. CASE UNCHANGED <<feed, interactions, pending, gestures>>
  BY <1>2, <1>4 DEF FollowInv, TextInv, LatestText, OnItsWay, EndsWith, EndsIn, Last
<1>5. CASE FinishStop
  <2>1. /\ UNCHANGED <<feed, gestures>>
        /\ interactions' = interactions \o pending /\ pending' = <<>>
    BY <1>5 DEF FinishStop, user
  <2>2. Transcript
    BY <1>2 DEF CInv, IInv, TypeOK, Transcript
  <2>3. \A x, v : EndsWith(x, v) => EndsWith(x, v)'
    BY <2>1, <2>2, Flushed DEF EndsWith
  <2>4. ASSUME NEW n \in DOMAIN gestures, LatestText(n)
        PROVE  OnItsWay(n)' \/ EndsWith(gestures[n].obj, gestures[n].value)'
    <3>1. PICK x, v : x = gestures[n].obj /\ v = gestures[n].value
      OBVIOUS
    <3>2. OnItsWay(n) \/ EndsWith(x, v)'
      BY <1>2, <2>3, <2>4, <3>1 DEF TextInv
    <3> QED BY <2>1, <3>1, <3>2 DEF OnItsWay, EndsWith
  <2> QED BY <1>2, <2>1, <2>4 DEF FollowInv, TextInv, LatestText
<1>6. CASE Gesticulate
  BY <1>6, GesticulateKeepsText
<1> QED BY <1>3, <1>4, <1>5, <1>6
        DEF Next, StopAdapter, StartAdapter, StartFails, RequestStop, Abandon, Terminated, vars,
            transcript, user

LEMMA InitTInv == Init => TInv
<1>1. Init => FollowInv /\ TextInv
  BY DEF Init, FollowInv, TextInv
<1> QED BY <1>1, InitCInv DEF TInv

LEMMA LastOfTInv == TInv => LastTextWins
<1> SUFFICES ASSUME TInv, Complete, NEW n \in DOMAIN gestures, LatestText(n)
             PROVE  EndsIn(interactions, gestures[n].obj, gestures[n].value)
  BY DEF LastTextWins, LatestText, EndsIn
<1>1. \A a \in Frameworks : feed[a] = <<>>
  BY DEF TInv, CInv, LifeInv, Complete, Active
<1>2. ~ OnItsWay(n)
  BY <1>1 DEF OnItsWay
<1>3. pending = <<>>
  BY DEF TInv, CInv, LifeInv, Complete
<1> QED BY <1>2, <1>3 DEF TInv, TextInv, EndsWith, Complete

(* However late an adapter reports the texts before it, the last text of a *)
(* field is the last thing a drained session recorded of it.               *)
THEOREM LastTextRecorded == Spec => []LastTextWins
  BY InitTInv, NextTInv, LastOfTInv, PTL DEF Spec

-----------------------------------------------------------------------------
(* What was heard is recorded *)

(* A tab switch that only AT-SPI heard is recorded unless AT-SPI hands out *)
(* native targets: the pointer on a native tab header is left to the       *)
(* native adapter.                                                         *)
TabsAreHeard == "javafx" \notin AtspiFrameworks \/ \A x \in Objects : Kind[x] # "tabs"

(* What HeardIsRecorded promises of a gesture, and the observations that   *)
(* suffice for it.                                                         *)
Due(n) == Recordable(n) /\ (gestures[n].what = "type" \/ NoOpeners)

Sure(o) ==
  \/ o.type = "text"
  \/ o.type = "pointer" /\ ~ TabHeader(o)
  \/ o.type = "state" /\ o.detail = "tab_selection"

SureOnItsWay(n, a) == \E i \in DOMAIN feed[a] : feed[a][i].gesture = n /\ Sure(feed[a][i])

HeardInv ==
  \A n \in DOMAIN gestures : \A a \in gestures[n].by \ faulty :
    Due(n) => Accounted(n) \/ SureOnItsWay(n, a)

HInv == CInv /\ HeardInv

LEMMA HeardByAdapters ==
  ASSUME CInv
  PROVE  \A n \in DOMAIN gestures : gestures[n].by \subseteq Frameworks
<1>1. gestures \in Seq(MadeType)
  BY DEF CInv, IInv, TypeOK, MadeType
<1>2. \A n \in DOMAIN gestures : gestures[n] \in MadeType
  BY <1>1
<1> QED BY <1>2 DEF MadeType

(* Without an opener a click is a click.                                   *)
LEMMA PlainClick ==
  ASSUME CInv, NoOpeners, NEW o \in Observation, Traced(o), ~ TabHeader(o), ObservePointer(o)
  PROVE  Accounts(o, {})
<1>1. Kind[o.obj] \in Plain
  BY DEF Traced, CInv, UserInv
<1>2. menu.owner = NoObject /\ popup.owner = NoObject /\ o.obj # NoObject
  BY ObjectsAssumption DEF CInv, ContextInv, Observation
<1>3. Click(o)
  BY <1>1, <1>2 DEF ObservePointer, IgnorePointer, SelectInPopup, CancelPopup, ChooseFromMenu,
     TraverseMenu, OpenMenu, OpenSelector, Selection, WithinCommit, MissesPopup, PassesMenu,
     PassesPopup, MenuOpen, MissesMenu, MenuRelated, Plain
<1>4. Transcript
  BY DEF CInv, IInv, TypeOK, Transcript
<1> QED BY <1>3, <1>4, BeginAccounts, NoMenuIsContext DEF Click, NoMenu

LEMMA SureAccounts ==
  ASSUME CInv, NEW a \in Frameworks, Observe(a), Active, NEW o, o = Head(feed[a]), Sure(o), Due(o.gesture)
  PROVE  Accounted(o.gesture)'
<1>1. /\ o \in Observation /\ Traced(o) /\ Transcript
  BY Taken DEF CInv
<1>2. CASE o.type = "text"
  <2>1. Accounts(o, {})
    BY <1>1, <1>2, ObservedEffect, TextEffect
  <2> QED BY <2>1, AccountedFor
<1>3. CASE o.type = "pointer" /\ ~ TabHeader(o)
  <2>1. NoOpeners
    <3>1. o.type = "text" <=> Kind[o.obj] = "field"
      BY Taken DEF CInv, FeedInv
    <3>2. gestures[o.gesture].what # "type"
      BY <1>1, <1>3, <3>1 DEF CInv, UserInv, Traced
    <3> QED BY <3>2 DEF Due
  <2>2. ObservePointer(o)
    BY <1>3 DEF Observe
  <2>3. Accounts(o, {})
    BY <1>1, <1>3, <2>1, <2>2, PlainClick
  <2> QED BY <2>3, AccountedFor
<1>4. CASE o.type = "state" /\ o.detail = "tab_selection"
  <2>1. ObserveState(o)
    BY <1>4 DEF Observe
  <2>2. Begin("select_item", o.value, o, NoMenu)
    BY <1>4, <2>1 DEF ObserveState
  <2>3. Accounts(o, NoMenu.absorbed)
    BY <1>1, <2>2, BeginAccounts, NoMenuIsContext
  <2> QED BY <2>3, AccountedFor
<1> QED BY <1>2, <1>3, <1>4 DEF Sure

LEMMA ObserveKeepsHeard ==
  ASSUME HInv, NEW a \in Frameworks, Observe(a)
  PROVE  HeardInv'
<1>0. CInv /\ HeardInv
  BY DEF HInv
<1>1. PICK o : o = Head(feed[a])
  OBVIOUS
<1>2. /\ o \in Observation /\ Traced(o) /\ Transcript
      /\ UNCHANGED <<phase, attached, faulty, gestures, ui>>
      /\ 1 \in DOMAIN feed[a] /\ o = feed[a][1]
  BY <1>0, <1>1, Taken DEF CInv
<1>3. /\ \A b \in Frameworks : b # a => feed'[b] = feed[b]
      /\ \A j \in DOMAIN feed[a] : j # 1 => j - 1 \in DOMAIN feed'[a] /\ feed'[a][j - 1] = feed[a][j]
  BY <1>0, <1>1, Taken DEF CInv
<1>4. ASSUME NEW n \in DOMAIN gestures, NEW b \in gestures[n].by \ faulty, Due(n)
      PROVE  Accounted(n)' \/ SureOnItsWay(n, b)'
  <2>0. b \in Frameworks
    BY <1>0, HeardByAdapters
  <2>1. CASE SureOnItsWay(n, b)
    <3>1. PICK i \in DOMAIN feed[b] : feed[b][i].gesture = n /\ Sure(feed[b][i])
      BY <2>1 DEF SureOnItsWay
    <3>2. CASE b = a /\ i = 1
      <4>1. feed[a] # <<>>
        BY DEF Observe
      <4>2. Active
        BY <1>0, <1>4, <3>2, <4>1 DEF CInv, LifeInv
      <4>3. Sure(o) /\ o.gesture = n
        BY <1>2, <3>1, <3>2
      <4> QED BY <1>0, <1>1, <1>4, <4>2, <4>3, SureAccounts
    <3>3. CASE ~ (b = a /\ i = 1)
      <4>1. \E j \in DOMAIN feed'[b] : feed'[b][j] = feed[b][i]
        BY <1>3, <2>0, <3>1, <3>3
      <4>2. PICK j \in DOMAIN feed'[b] : feed'[b][j] = feed[b][i]
        BY <4>1
      <4>3. feed'[b][j].gesture = n /\ Sure(feed'[b][j])
        BY <3>1, <4>2
      <4> QED BY <4>3 DEF SureOnItsWay, Sure, TabHeader
    <3> QED BY <3>2, <3>3
  <2>2. CASE Accounted(n)
    <3>1. CASE ~ Active
      BY <1>0, <1>1, <2>2, <3>1, ObservedEffect DEF Accounted, transcript, Last
    <3>2. CASE Active
      <4>1. Effect(o)
        BY <1>0, <1>1, <3>2, ObservedEffect
      <4>2. ~ (AbsorbsClick(o) /\ n \in Last.of)
        <5>1. CASE gestures[n].what = "type"
          <6> SUFFICES ASSUME AbsorbsClick(o) PROVE n \notin Last.of
            OBVIOUS
          <6>1. NoText(Last.of)
            BY <1>0 DEF AbsorbsClick, CInv, TextsApart
          <6> QED BY <5>1, <6>1 DEF NoText
        <5>2. CASE NoOpeners
          <6>1. Kind[o.obj] \in Plain
            BY <1>0, <1>2, <5>2 DEF Traced, CInv, UserInv
          <6> QED BY <6>1 DEF AbsorbsClick, Plain
        <5> QED BY <1>4, <5>1, <5>2 DEF Due
      <4> QED BY <1>2, <2>2, <4>1, <4>2, EffectKeeps
    <3> QED BY <3>1, <3>2
  <2> QED BY <1>0, <1>4, <2>1, <2>2 DEF HeardInv
<1>5. \A n \in DOMAIN gestures : Due(n)' => Due(n)
  BY <1>2 DEF Due, Recordable, IsOpener, NoOpeners
<1> QED BY <1>2, <1>4, <1>5 DEF HeardInv

(* Every attached adapter reports a gesture it makes due.                  *)
LEMMA SurelyReported ==
  ASSUME TabsAreHeard, NEW g \in MadeType, NEW n, NEW a \in Frameworks, NEW fw \in AtspiFrameworks,
         g.what \in {"click", "right_click", "check", "type", "switch_tab"},
         g.what = "switch_tab" <=> Kind[g.obj] = "tabs"
  PROVE  \E i \in DOMAIN Reported(a, g, n, fw) :
           Reported(a, g, n, fw)[i].gesture = n /\ Sure(Reported(a, g, n, fw)[i])
<1>1. PICK r : r = Reported(a, g, n, fw)
  OBVIOUS
<1>2. PICK f : f = IF a = "javafx" THEN "javafx" ELSE fw
  OBVIOUS
<1>3. PICK p : p = Event(g, n, f, "pointer", IF g.what = "right_click" THEN "secondary" ELSE "primary", NoValue)
  OBVIOUS
<1>4. /\ p.type = "pointer" /\ p.gesture = n /\ p.obj = g.obj /\ p.fw = f
  BY <1>3 DEF Event
<1>5. CASE g.what = "type"
  <2>1. r = <<Event(g, n, a, "text", "text", g.value)>>
    BY <1>1, <1>5, ReportedTexts
  <2>2. 1 \in DOMAIN r /\ r[1] = Event(g, n, a, "text", "text", g.value)
    BY <2>1
  <2>3. r[1].type = "text" /\ r[1].gesture = n
    BY <2>2 DEF Event
  <2> QED BY <1>1, <2>2, <2>3 DEF Sure
<1>6. CASE g.what \in {"click", "right_click", "check"}
  <2>1. \E y, z : r \in {<<p>>, <<p, y>>, <<p, y, z>>}
    BY <1>1, <1>2, <1>3, <1>6 DEF Reported, Frameworks
  <2>2. 1 \in DOMAIN r /\ r[1] = p
    BY <2>1
  <2>3. Sure(p)
    BY <1>4, <1>6 DEF Sure, TabHeader
  <2> QED BY <1>1, <1>4, <2>2, <2>3
<1>7. CASE g.what = "switch_tab" /\ a = "javafx"
  <2>1. PICK e : e = Event(g, n, f, "state", "tab_selection", g.value)
    OBVIOUS
  <2>2. r = <<p, e>>
    BY <1>1, <1>2, <1>3, <1>7, <2>1 DEF Reported
  <2>3. 2 \in DOMAIN r /\ r[2] = e
    BY <2>2
  <2>4. e.type = "state" /\ e.detail = "tab_selection" /\ e.gesture = n
    BY <2>1 DEF Event
  <2> QED BY <1>1, <2>3, <2>4 DEF Sure
<1>8. CASE g.what = "switch_tab" /\ a = "atspi"
  <2>1. r = <<p>>
    BY <1>1, <1>2, <1>3, <1>8 DEF Reported
  <2>2. 1 \in DOMAIN r /\ r[1] = p
    BY <2>1
  <2>3. f # "javafx"
    BY <1>2, <1>8 DEF TabsAreHeard, MadeType
  <2> QED BY <1>1, <1>4, <2>2, <2>3 DEF Sure, TabHeader
<1> QED BY <1>5, <1>6, <1>7, <1>8 DEF Frameworks

LEMMA GesticulateKeepsHeard ==
  ASSUME TabsAreHeard, HInv, Gesticulate
  PROVE  HeardInv'
<1>0. CInv /\ HeardInv
  BY DEF HInv
<1>1. PICK g, n : \E fw \in AtspiFrameworks : Made(g, n) /\ Delivered(g, n, fw)
  BY <1>0, GestureMade DEF CInv
<1>2. PICK fw \in AtspiFrameworks : Made(g, n) /\ Delivered(g, n, fw)
  BY <1>1
<1>3. UNCHANGED <<faulty, interactions, pending>>
  BY <1>0, GestureMade DEF CInv
<1>4. CInv'
  BY <1>0, GesticulateKeepsCInv
<1>5. \A m \in DOMAIN gestures : gestures'[m] = gestures[m] /\ (Due(m)' => Due(m))
  BY <1>2 DEF Made, Due, Recordable, IsOpener, NoOpeners
<1>6. ASSUME NEW m \in DOMAIN gestures, NEW a \in gestures[m].by \ faulty, Due(m)
      PROVE  Accounted(m)' \/ SureOnItsWay(m, a)'
  <2>1. CASE Accounted(m)
    BY <1>3, <2>1 DEF Accounted, Last
  <2>2. CASE SureOnItsWay(m, a)
    <3>1. a \in Frameworks
      BY <1>0, HeardByAdapters
    <3>2. \A i \in DOMAIN feed[a] : i \in DOMAIN feed'[a] /\ feed'[a][i] = feed[a][i]
      BY <1>0, <1>2, <3>1, FeedAfter DEF CInv
    <3> QED BY <2>2, <3>2 DEF SureOnItsWay, Sure, TabHeader
  <2> QED BY <1>0, <1>6, <2>1, <2>2 DEF HeardInv
<1>7. ASSUME NEW a \in attached, Due(n)'
      PROVE  SureOnItsWay(n, a)'
  <2>1. a \in Frameworks /\ g \in MadeType
    BY <1>0, <1>2 DEF CInv, IInv, TypeOK, Made
  <2>2. gestures'[n] = g /\ n \in DOMAIN gestures'
    BY <1>2 DEF Made
  <2>3. /\ g.what = "type" <=> Kind[g.obj] = "field"
        /\ g.what = "switch_tab" <=> Kind[g.obj] = "tabs"
        /\ g.what # "type" => NoOpeners' /\ Kind[g.obj] \in Plain
    BY <1>4, <1>7, <2>2 DEF CInv, UserInv, Due
  <2>4. g.what \in {"click", "right_click", "check", "type", "switch_tab"}
    <3>1. CASE g.what # "type"
      <4>1. ui = NoObject
        BY <1>0, <1>2, <2>3, <3>1 DEF CInv, UserInv, Made, NoOpeners, IsOpener
      <4>2. PICK p \in Possible : p = [what |-> g.what, obj |-> g.obj, value |-> g.value]
        BY <1>2 DEF Made
      <4>3. p.what = g.what /\ p.what \notin Openers
        BY <2>2, <2>3, <3>1, <4>2 DEF NoOpeners, IsOpener
      <4>4. p.what \in {"click", "right_click", "check", "type", "switch_tab"} \cup Openers
        BY <4>1, PossibleInside
      <4> QED BY <4>3, <4>4
    <3> QED BY <3>1
  <2>5. PICK i \in DOMAIN Reported(a, g, n, fw) :
          Reported(a, g, n, fw)[i].gesture = n /\ Sure(Reported(a, g, n, fw)[i])
    BY <2>1, <2>3, <2>4, SurelyReported
  <2>6. PICK k \in DOMAIN feed'[a] : feed'[a][k] = Reported(a, g, n, fw)[i]
    BY <1>0, <1>2, <2>1, <2>5, FeedAfter DEF CInv
  <2> QED BY <2>5, <2>6 DEF SureOnItsWay, Sure, TabHeader
<1> QED BY <1>2, <1>3, <1>5, <1>6, <1>7 DEF HeardInv, Made

LEMMA NextHInv == TabsAreHeard => (HInv /\ [Next]_vars => HInv')
<1> SUFFICES ASSUME TabsAreHeard, HInv, [Next]_vars PROVE HInv'
  OBVIOUS
<1>0. CInv /\ HeardInv /\ CInv'
  BY NextCInv DEF HInv
<1>1. CASE \E a \in DOMAIN feed : Observe(a)
  <2>1. DOMAIN feed = Frameworks
    BY <1>0 DEF CInv, IInv, TypeOK
  <2> QED BY <1>0, <1>1, <2>1, ObserveKeepsHeard DEF HInv
<1>2. CASE UNCHANGED <<feed, interactions, pending, gestures>> /\ faulty \subseteq faulty'
  BY <1>0, <1>2 DEF HInv, HeardInv, Due, Recordable, IsOpener, NoOpeners, Accounted, SureOnItsWay,
                    Sure, TabHeader, Last
<1>3. CASE FinishStop
  <2>1. /\ UNCHANGED <<feed, gestures, faulty>>
        /\ interactions' = interactions \o pending /\ pending' = <<>>
    BY <1>3 DEF FinishStop, user
  <2>2. Transcript
    BY <1>0 DEF CInv, IInv, TypeOK, Transcript
  <2>3. \A n : Accounted(n) => Accounted(n)'
    BY <2>1, <2>2, Flushed DEF Accounted
  <2> QED BY <1>0, <2>1, <2>3 DEF HInv, HeardInv, Due, Recordable, IsOpener, NoOpeners, SureOnItsWay, Sure, TabHeader
<1>4. CASE Gesticulate
  BY <1>0, <1>4, GesticulateKeepsHeard DEF HInv
<1> QED BY <1>1, <1>2, <1>3, <1>4
        DEF Next, StopAdapter, StartAdapter, StartFails, RequestStop, Abandon, Terminated, vars,
            transcript, user

LEMMA InitHInv == Init => HInv
<1>1. Init => HeardInv
  BY DEF Init, HeardInv
<1> QED BY <1>1, InitCInv DEF HInv

LEMMA HeardOfHInv == HInv => HeardIsRecorded
<1> SUFFICES ASSUME HInv, phase = "stopped", NEW n \in DOMAIN gestures, Due(n),
                    ~ (gestures[n].by \subseteq faulty)
             PROVE  AccountsFor(n) # {}
  BY DEF HeardIsRecorded, Due, NoOpeners
<1>1. PICK a \in gestures[n].by \ faulty : a \in Frameworks
  BY HeardByAdapters DEF HInv
<1>2. feed[a] = <<>> /\ pending = <<>>
  BY <1>1 DEF HInv, CInv, LifeInv, Active
<1>3. Accounted(n)
  BY <1>1, <1>2 DEF HInv, HeardInv, SureOnItsWay
<1> QED BY <1>2, <1>3 DEF Accounted, AccountsFor

(* What an adapter heard before it stopped is recorded, whatever became of *)
(* the other: a session that returns has lost nothing of it.               *)
THEOREM HeardRecorded ==
  ASSUME TabsAreHeard
  PROVE  Spec => []HeardIsRecorded
<1>1. HInv /\ [Next]_vars => HInv'
  BY NextHInv
<1> QED BY <1>1, InitHInv, HeardOfHInv, PTL DEF Spec

-----------------------------------------------------------------------------
(* The native agent alone. Its observations arrive in the order of the     *)
(* gestures, so that at any time the gestures fall into three parts: those *)
(* of which nothing was heard yet, at most one that is half reported, and  *)
(* those that were reported in full. The invariant says what became of     *)
(* each part: the first is in no interaction, the second in the pending    *)
(* one, the third in exactly one, with the right action and value, unless  *)
(* an opener shadows it.                                                   *)

(* The setting of the theorem: one adapter, and the controls the native    *)
(* agent has pointer observations for; one menu, so that an item tells     *)
(* which it belongs to. Fields and tabs are the subject of LastTextWins.   *)
Alone == Adapters = <<"javafx">>
NativeKinds == {"button", "check", "selector", "menu", "item"}
NativeWindow ==
  /\ \A x \in Objects : Kind[x] \in NativeKinds
  /\ \A x, y \in Objects : Kind[x] = "menu" /\ Kind[y] = "menu" => x = y

(* The kind of object each gesture is made on. *)
KindsOf ==
  [click |-> "button", right_click |-> "button", check |-> "check", choose |-> "item",
   open_menu |-> "menu", open_selector |-> "selector", pick |-> "selector",
   pick_by_key |-> "selector"]

OnKind(g) == g.what = "dismiss" \/ (g.what \in DOMAIN KindsOf /\ Kind[g.obj] = KindsOf[g.what])

After(n, what) == n - 1 \in DOMAIN gestures /\ gestures[n - 1].what = what

(* A choice follows the opening of a menu, a selection that of its         *)
(* selector; time does not run backwards.                                  *)
GestureInv ==
  /\ \A n \in DOMAIN gestures :
       /\ OnKind(gestures[n])
       /\ gestures[n].what = "choose" => After(n, "open_menu")
       /\ gestures[n].what \in Picks =>
            After(n, "open_selector") /\ gestures[n - 1].obj = gestures[n].obj /\ gestures[n].value # NoValue
       /\ \A m \in DOMAIN gestures : m <= n => gestures[m].at <= gestures[n].at
  /\ ui # NoObject =>
       /\ gestures # <<>>
       /\ gestures[Len(gestures)].obj = ui /\ gestures[Len(gestures)].what \in Openers

-----------------------------------------------------------------------------
(* The feed of the native agent. *)

Feed == feed["javafx"]

(* What the native agent tells of a gesture: see Reported.                 *)
Tells(o, g) ==
  /\ o.fw = "javafx" /\ o.at = g.at
  /\ \/ /\ o.type = "pointer" /\ g.what \notin {"dismiss", "pick_by_key"}
        /\ o.detail = IF g.what = "right_click" THEN "secondary" ELSE "primary"
        /\ o.value = IF g.what = "pick" THEN g.value ELSE NoValue
     \/ o.type = "state" /\ g.what = "check" /\ o.detail = "selected"
     \/ o.type = "state" /\ g.what \in Picks /\ o.detail = "value" /\ o.value = g.value
     \/ o.type = "action" /\ g.what \in {"click", "check", "choose"} \cup Picks /\ o.detail = "activate"

(* The reports of one gesture come in this order; the one that opens it    *)
(* makes the correlator begin.                                             *)
Rank(o) == IF o.type = "pointer" THEN 1 ELSE IF o.type = "state" THEN 2 ELSE 3

Told(o) == Tells(o, gestures[o.gesture])

Opens(o, g) == o.type = "pointer" \/ (o.type = "state" /\ g.what = "pick_by_key")
Opening(o) == Opens(o, gestures[o.gesture])

(* The gestures still to be heard of, those that were, and the one of      *)
(* which a part is still to come.                                          *)
Ahead(n) == \E i \in DOMAIN Feed : Feed[i].gesture = n /\ Opening(Feed[i])
StateAhead(n) == \E i \in DOMAIN Feed : Feed[i].gesture = n /\ Feed[i].type = "state"
Begun(n) == n \in DOMAIN gestures /\ ~ Ahead(n)
Underway(n) == Begun(n) /\ \E i \in DOMAIN Feed : Feed[i].gesture = n
Heard(n) == Begun(n) /\ gestures[n].what # "dismiss"

(* The feed is ordered by gesture; no gesture but a dismissal is silent.   *)
FeedOrder ==
  /\ feed["atspi"] = <<>> /\ attached \subseteq {"javafx"}
  /\ \A i \in DOMAIN Feed : Told(Feed[i])
  /\ \A i, j \in DOMAIN Feed : i < j =>
       \/ Feed[i].gesture < Feed[j].gesture
       \/ Feed[i].gesture = Feed[j].gesture /\ Rank(Feed[i]) < Rank(Feed[j])
  /\ \A i \in DOMAIN Feed : \A m \in DOMAIN gestures :
       m > Feed[i].gesture /\ gestures[m].what # "dismiss" => Ahead(m)
  /\ \A i \in DOMAIN Feed :
       Feed[i].type = "pointer" /\ gestures[Feed[i].gesture].what = "check" =>
         StateAhead(Feed[i].gesture)

(* Interactions follow each other as the gestures did, and none is later   *)
(* than what is still to be heard.                                         *)
InTime(t) ==
  /\ t.started <= t.completed
  /\ \A i \in DOMAIN Feed : t.completed <= Feed[i].at
  /\ \E n \in DOMAIN gestures : t.completed <= gestures[n].at

Precedes(s, t) == s.started <= t.started /\ s.completed <= t.completed

OrderInv ==
  /\ pending # <<>> => InTime(Last)
  /\ \A i \in DOMAIN interactions :
       /\ InTime(interactions[i])
       /\ pending # <<>> => Precedes(interactions[i], Last)
       /\ \A j \in DOMAIN interactions : i < j => Precedes(interactions[i], interactions[j])

-----------------------------------------------------------------------------
(* What becomes of a gesture. *)

(* A gesture that need not leave a trace: see Shadowed.                    *)
Settled(n) == Recordable(n) => Shadowed(n)

ActionOf(n) == IF gestures[n].what \in DOMAIN Expected THEN Expected[gestures[n].what] ELSE "select_item"

(* The interaction a gesture should become. A check begins as a click and  *)
(* is promoted when its state arrives.                                     *)
Fits(n, i) == i.obj = gestures[n].obj /\ (gestures[n].what \in Picks => i.value = gestures[n].value)

Right(n, i) == Fits(n, i) /\ i.action = ActionOf(n)

(* A gesture is accounted for by one recorded interaction, by the pending  *)
(* one, or by none yet.                                                    *)
Filed(n) ==
  /\ pending # <<>> => n \notin Last.of
  /\ \E i \in DOMAIN interactions :
       /\ n \in interactions[i].of /\ Right(n, interactions[i])
       /\ \A j \in DOMAIN interactions : n \in interactions[j].of => j = i

Holding(n) ==
  /\ pending # <<>> /\ n \in Last.of
  /\ \A i \in DOMAIN interactions : n \notin interactions[i].of
  /\ Fits(n, Last)
  /\ Last.action = ActionOf(n) \/ (gestures[n].what = "check" /\ Last.action = "click" /\ StateAhead(n))

Unseen(n) ==
  /\ pending # <<>> => n \notin Last.of
  /\ \A i \in DOMAIN interactions : n \notin interactions[i].of
  /\ n \notin menu.absorbed

KeptInv ==
  \A n \in DOMAIN gestures :
    /\ Ahead(n) => Unseen(n)
    /\ Begun(n) /\ ~ Settled(n) => Filed(n) \/ Holding(n)
    /\ Underway(n) /\ ~ Settled(n) => pending # <<>> /\ n \in Last.of

(* The pending interaction ends with the gesture k, heard before any that  *)
(* follows; all it accounts for is on its object, or settled.              *)
Upto(k) ==
  /\ Heard(k) /\ gestures[k].obj = Last.obj /\ gestures[k].at = Last.completed
  /\ \A n \in Last.of : n \in DOMAIN gestures /\ (Settled(n) \/ (gestures[n].obj = Last.obj /\ n <= k))

(* A click is never pending on a selector; on a check it waits for the     *)
(* state that promotes it.                                                 *)
PendingInv ==
  pending # <<>> =>
    /\ Last.fw = "javafx"
    /\ \E k \in DOMAIN gestures : Upto(k)
    /\ Kind[Last.obj] = "selector" => Last.action \in {"select_item", "activate"}
    /\ Kind[Last.obj] = "check" => Last.action # "right_click"
    /\ Kind[Last.obj] = "check" /\ Last.action = "click" =>
         \E n \in DOMAIN gestures : Begun(n) /\ StateAhead(n) /\ gestures[n].obj = Last.obj

(* The action of an interaction as the first observation leaves it. *)
Now(n) == IF gestures[n].what = "check" THEN "click" ELSE ActionOf(n)

-----------------------------------------------------------------------------
(* The contexts are those of openers and selections that were heard. *)

Unpicked(m) == \A j \in DOMAIN gestures : j >= m /\ Heard(j) => gestures[j].what \notin Picks

(* An open popup was opened and nothing selected in it since; a committed  *)
(* one remembers a selection.                                              *)
PopupInv ==
  /\ popup.owner # NoObject => Kind[popup.owner] = "selector"
  /\ popup.owner # NoObject /\ ~ popup.committed =>
       \E m \in DOMAIN gestures :
         /\ Heard(m) /\ gestures[m].what = "open_selector" /\ gestures[m].at = popup.since
         /\ Unpicked(m)
  /\ popup.committed =>
       \E m \in DOMAIN gestures :
         /\ Heard(m) /\ gestures[m].what \in Picks /\ gestures[m].at = popup.at
         /\ gestures[m].obj = popup.owner /\ gestures[m].value = popup.value
  /\ \A n \in DOMAIN gestures : Underway(n) /\ gestures[n].what = "pick" =>
       /\ popup.committed /\ popup.owner = gestures[n].obj /\ popup.value = gestures[n].value
       /\ gestures[n].at - popup.at <= DupWindow

(* The open menu was opened; what it absorbed is settled.                  *)
MenuInv ==
  /\ MenuOpen => \E m \in DOMAIN gestures :
       Heard(m) /\ gestures[m].what = "open_menu" /\ gestures[m].obj = menu.owner /\ gestures[m].at = menu.since
  /\ \A n \in menu.absorbed : n \in DOMAIN gestures /\ Settled(n)

(* If the gesture heard last is an opener, what it opened is open, unless  *)
(* it was swallowed or cancelled the popup it found.                       *)
Newest(m) == Heard(m) /\ \A n \in DOMAIN gestures : n > m => ~ Heard(n)

ReopenedBy(k) ==
  \E m \in 1 .. k - 1 : gestures[m].what = "open_selector" /\ \A j \in m .. k : gestures[j].what \notin Picks

OpenInv ==
  Active => \A m \in DOMAIN gestures : Newest(m) =>
    /\ gestures[m].what = "open_menu" => MenuOpen
    /\ gestures[m].what = "open_selector" =>
         popup.owner = gestures[m].obj \/ (popup.owner = NoObject /\ (Swallowed(m) \/ ReopenedBy(m)))

(* An item is pending or recorded with a menu.                             *)
ItemInv ==
  /\ pending # <<>> /\ Kind[Last.obj] = "item" => Last.menu \in Objects /\ Kind[Last.menu] = "menu"
  /\ \A i \in DOMAIN interactions : Kind[interactions[i].obj] = "item" =>
       interactions[i].menu \in Objects /\ Kind[interactions[i].menu] = "menu"
  /\ \A n \in DOMAIN gestures : Underway(n) /\ gestures[n].what = "choose" =>
       pending # <<>> /\ Last.obj = gestures[n].obj

(* Interactions account for gestures the user made.                        *)
KnownInv == \A i \in DOMAIN interactions : interactions[i].of \subseteq DOMAIN gestures

RecInv == KnownInv /\ KeptInv /\ PendingInv /\ PopupInv /\ MenuInv /\ OpenInv /\ ItemInv

(* A session that ended with a faulty adapter left reports unheard:        *)
(* nothing is demanded of its record.                                      *)
NInv == GestureInv /\ FeedOrder /\ OrderInv /\ (Active \/ faulty = {} => RecInv)

-----------------------------------------------------------------------------
(* Gestures *)

(* What the user can do next suits its object, and what is open.           *)
LEMMA NativePossible ==
  ASSUME NativeWindow, ui \in Objects \cup {NoObject}, NEW p \in Possible
  PROVE  /\ OnKind(p)
         /\ p.what = "choose" => ui \in Objects /\ Kind[ui] = "menu"
         /\ p.what \in Picks => p.obj = ui /\ ui \in Objects /\ p.value \in Values
<1>1. CASE p \in {[what |-> "dismiss", obj |-> ui, value |-> NoValue] : x \in {ui} \cap Objects}
  BY <1>1 DEF OnKind, Picks
<1>2. CASE p \in Gesture("choose", "item", {NoValue}, ui \in Objects /\ Kind[ui] = "menu")
  <2>1. p.what = "choose" /\ Kind[p.obj] = "item" /\ ui \in Objects /\ Kind[ui] = "menu"
    BY <1>2 DEF Gesture
  <2> QED BY <2>1 DEF OnKind, KindsOf, Picks
<1>3. CASE p \in {g \in Gesture("pick", "selector", Values, TRUE)
                        \cup Gesture("pick_by_key", "selector", Values, TRUE) : g.obj = ui}
  <2>1. p.obj = ui
    BY <1>3
  <2>2. PICK open : \/ p \in Gesture("pick", "selector", Values, open)
                    \/ p \in Gesture("pick_by_key", "selector", Values, open)
    BY <1>3
  <2>3. /\ p.what \in Picks /\ p.obj \in Objects /\ p.value \in Values /\ Kind[p.obj] = "selector"
    BY <2>2, GestureType, GestureShape DEF Picks
  <2> QED BY <2>1, <2>3 DEF OnKind, KindsOf, Picks
<1>4. CASE \/ p \in Gesture("click", "button", {NoValue}, TRUE)
           \/ p \in Gesture("right_click", "button", {NoValue}, TRUE)
           \/ p \in Gesture("check", "check", {NoValue}, TRUE)
           \/ p \in Gesture("type", "field", Values, TRUE)
           \/ p \in Gesture("switch_tab", "tabs", Values, TRUE)
           \/ p \in Gesture("open_menu", "menu", {NoValue}, TRUE)
           \/ p \in Gesture("open_selector", "selector", {NoValue}, TRUE)
  <2>1. PICK values, open :
          \/ p \in Gesture("click", "button", values, open)
          \/ p \in Gesture("right_click", "button", values, open)
          \/ p \in Gesture("check", "check", values, open)
          \/ p \in Gesture("type", "field", values, open)
          \/ p \in Gesture("switch_tab", "tabs", values, open)
          \/ p \in Gesture("open_menu", "menu", values, open)
          \/ p \in Gesture("open_selector", "selector", values, open)
    BY <1>4
  <2>2. /\ \/ p.what = "click" /\ Kind[p.obj] = "button"
           \/ p.what = "right_click" /\ Kind[p.obj] = "button"
           \/ p.what = "check" /\ Kind[p.obj] = "check"
           \/ p.what = "type" /\ Kind[p.obj] = "field"
           \/ p.what = "switch_tab" /\ Kind[p.obj] = "tabs"
           \/ p.what = "open_menu" /\ Kind[p.obj] = "menu"
           \/ p.what = "open_selector" /\ Kind[p.obj] = "selector"
        /\ p.obj \in Objects
    BY <2>1, GestureShape
  <2>3. p.what # "type" /\ p.what # "switch_tab"
    BY <2>2 DEF NativeWindow, NativeKinds
  <2> QED BY <2>2, <2>3 DEF OnKind, KindsOf, Picks
<1> QED BY <1>1, <1>2, <1>3, <1>4, Zenon DEF Possible

(* A gesture is no earlier than the one before it.                         *)
LEMMA GestureLater ==
  ASSUME IInv, Gesticulate, NEW g, NEW n, Made(g, n), n - 1 \in DOMAIN gestures
  PROVE  gestures[n - 1].at <= g.at
<1>1. PICK p \in Possible, gap \in Gaps, fw \in AtspiFrameworks :
        LET k == Len(gestures) + 1
            at == IF gestures = <<>> THEN 0 ELSE gestures[k - 1].at + gap
            made == [what |-> p.what, obj |-> p.obj, value |-> p.value, at |-> at,
                     by |-> attached]
        IN gestures' = Append(gestures, made)
  BY DEF Gesticulate
<1>2. n = Len(gestures) + 1 /\ gestures'[n] = g
  BY DEF Made
<1>3. gestures \in Seq(MadeType)
  BY DEF IInv, TypeOK, MadeType
<1>4. PICK at : at = IF gestures = <<>> THEN 0 ELSE gestures[n - 1].at + gap
  OBVIOUS
<1>5. gestures' = Append(gestures, [what |-> p.what, obj |-> p.obj, value |-> p.value, at |-> at,
                                    by |-> attached])
  BY <1>1, <1>2, <1>4
<1>6. g.at = at
  BY <1>2, <1>3, <1>5
<1>7. gestures # <<>> /\ gestures[n - 1].at \in Nat
  <2>1. gestures[n - 1] \in MadeType /\ gestures # <<>>
    BY <1>3
  <2> QED BY <2>1 DEF MadeType
<1>8. gap \in Nat
  BY WindowsAssumption
<1> QED BY <1>4, <1>6, <1>7, <1>8

(* What the user does next suits what was done before.                     *)
LEMMA GesticulateKeepsGestures ==
  ASSUME NativeWindow, IInv, GestureInv, Gesticulate
  PROVE  GestureInv'
<1>1. PICK g, n : Made(g, n)
  BY GestureMade
<1>2. /\ n = Len(gestures) + 1 /\ Len(gestures) \in Nat /\ DOMAIN gestures = 1 .. Len(gestures)
      /\ DOMAIN gestures' = 1 .. n /\ Len(gestures') = n /\ gestures'[n] = g
      /\ \A m \in DOMAIN gestures : m < n /\ m \in Nat /\ gestures'[m] = gestures[m]
  <2>1. gestures \in Seq(MadeType)
    BY DEF IInv, TypeOK, MadeType
  <2>2. DOMAIN gestures' = 1 .. n
    BY <1>1, <2>1 DEF Made
  <2>3. Len(gestures') = n
    <3>1. \E m : gestures' = Append(gestures, m)
      BY DEF Gesticulate
    <3> QED BY <1>1, <2>1, <3>1 DEF Made
  <2> QED BY <1>1, <2>1, <2>2, <2>3 DEF Made
<1>3. PICK p \in Possible : p = [what |-> g.what, obj |-> g.obj, value |-> g.value]
  BY <1>1 DEF Made
<1>4. p.what = g.what /\ p.obj = g.obj /\ p.value = g.value
  BY <1>3
<1>5. ui \in Objects \cup {NoObject}
  BY DEF IInv, TypeOK
<1>6. /\ OnKind(g)
      /\ g.what = "choose" => ui \in Objects /\ Kind[ui] = "menu"
      /\ g.what \in Picks => g.obj = ui /\ ui \in Objects /\ g.value \in Values
  BY <1>4, <1>5, NativePossible DEF OnKind
<1>7. ui \in Objects =>
        /\ n - 1 \in DOMAIN gestures /\ gestures[n - 1].obj = ui
        /\ gestures[n - 1].what \in Openers /\ OnKind(gestures[n - 1])
  <2> SUFFICES ASSUME ui \in Objects PROVE /\ n - 1 \in DOMAIN gestures /\ gestures[n - 1].obj = ui
        /\ gestures[n - 1].what \in Openers /\ OnKind(gestures[n - 1])
    OBVIOUS
  <2>1. ui # NoObject
    BY ObjectsAssumption
  <2>2. gestures # <<>> /\ gestures[Len(gestures)].obj = ui /\ gestures[Len(gestures)].what \in Openers
    BY <2>1 DEF GestureInv
  <2>3. Len(gestures) \in DOMAIN gestures
    <3>1. gestures \in Seq(MadeType)
      BY DEF IInv, TypeOK, MadeType
    <3> QED BY <2>2, <3>1
  <2>4. n - 1 = Len(gestures)
    BY <1>2
  <2> QED BY <2>2, <2>3, <2>4 DEF GestureInv
<1>8. g.what = "choose" => n - 1 \in DOMAIN gestures /\ gestures[n - 1].what = "open_menu"
  BY <1>6, <1>7 DEF OnKind, KindsOf, Openers
<1>9. g.what \in Picks =>
        /\ n - 1 \in DOMAIN gestures /\ gestures[n - 1].what = "open_selector"
        /\ gestures[n - 1].obj = g.obj /\ g.value # NoValue
  <2> SUFFICES ASSUME g.what \in Picks
               PROVE  /\ n - 1 \in DOMAIN gestures /\ gestures[n - 1].what = "open_selector"
                      /\ gestures[n - 1].obj = g.obj /\ g.value # NoValue
    OBVIOUS
  <2>1. Kind[ui] = "selector"
    BY <1>6 DEF OnKind, KindsOf, Picks
  <2>2. g.value # NoValue
    BY <1>6, ObjectsAssumption
  <2> QED BY <1>6, <1>7, <2>1, <2>2 DEF OnKind, KindsOf, Openers
<1>10. \A m \in DOMAIN gestures : gestures[m].at <= g.at
  <2>1. SUFFICES ASSUME NEW m \in DOMAIN gestures PROVE gestures[m].at <= g.at
    OBVIOUS
  <2>2. n - 1 \in DOMAIN gestures /\ m <= n - 1
    BY <1>2
  <2>3. gestures[n - 1].at <= g.at
    BY <1>1, <2>2, GestureLater
  <2>4. gestures[m].at <= gestures[n - 1].at
    BY <2>2 DEF GestureInv
  <2>5. gestures[m].at \in Nat /\ gestures[n - 1].at \in Nat /\ g.at \in Nat
    <3>1. gestures \in Seq(MadeType) /\ g \in MadeType
      BY <1>1 DEF IInv, TypeOK, MadeType, Made
    <3>2. gestures[m] \in MadeType /\ gestures[n - 1] \in MadeType
      BY <2>2, <3>1
    <3> QED BY <3>1, <3>2 DEF MadeType
  <2> QED BY <2>3, <2>4, <2>5
<1>11. ASSUME NEW k \in DOMAIN gestures'
       PROVE  /\ OnKind(gestures'[k])
              /\ gestures'[k].what = "choose" => k - 1 \in DOMAIN gestures' /\ gestures'[k - 1].what = "open_menu"
              /\ gestures'[k].what \in Picks =>
                   /\ k - 1 \in DOMAIN gestures' /\ gestures'[k - 1].what = "open_selector"
                   /\ gestures'[k - 1].obj = gestures'[k].obj /\ gestures'[k].value # NoValue
              /\ \A m \in DOMAIN gestures' : m <= k => gestures'[m].at <= gestures'[k].at
  <2>1. CASE k = n
    <3>1. g.at \in Nat
      BY <1>1 DEF Made, MadeType
    <3> QED BY <1>2, <1>6, <1>8, <1>9, <1>10, <2>1, <3>1
  <2>2. CASE k # n
    <3>1. k \in DOMAIN gestures /\ gestures'[k] = gestures[k]
      BY <1>2, <2>2
    <3>2. \A m \in DOMAIN gestures' : m <= k => m \in DOMAIN gestures /\ gestures'[m] = gestures[m]
      BY <1>2, <3>1
    <3>3. k - 1 \in DOMAIN gestures => k - 1 \in DOMAIN gestures' /\ gestures'[k - 1] = gestures[k - 1]
      BY <1>2
    <3> QED BY <3>1, <3>2, <3>3 DEF GestureInv, After
  <2> QED BY <2>1, <2>2
<1>12. ui' # NoObject => g.what \in Openers /\ ui' = g.obj
  BY <1>1 DEF Made
<1>13. ui' # NoObject =>
       /\ gestures' # <<>>
       /\ gestures'[Len(gestures')].obj = ui' /\ gestures'[Len(gestures')].what \in Openers
  <2>1. gestures' # <<>>
    BY <1>2
  <2> QED BY <1>2, <1>12, <2>1
<1> QED BY <1>11, <1>13 DEF GestureInv, After, OnKind

(* Other steps leave the gestures alone.                                   *)
LEMMA StutterKeepsGestures ==
  ASSUME GestureInv, UNCHANGED <<gestures, ui>>
  PROVE  GestureInv'
  BY DEF GestureInv, After, OnKind

-----------------------------------------------------------------------------
(* Their reports *)

(* What the native agent reports of a gesture. *)
NativeReport(r, g, n) ==
  /\ \A j \in DOMAIN r : r[j].gesture = n /\ Tells(r[j], g)
  /\ \A i, j \in DOMAIN r : i < j => Rank(r[i]) < Rank(r[j])
  /\ g.what # "dismiss" => \E j \in DOMAIN r : Opens(r[j], g)
  /\ g.what = "check" => \E j \in DOMAIN r : r[j].type = "state"

(* The reports of a gesture tell of it, in order.                          *)
LEMMA ReportsNatively ==
  ASSUME NEW g, NEW n, NEW fw, OnKind(g)
  PROVE  NativeReport(Reported("javafx", g, n, fw), g, n)
<1> DEFINE p == Event(g, n, "javafx", "pointer", IF g.what = "right_click" THEN "secondary" ELSE "primary",
                      IF g.what = "pick" THEN g.value ELSE NoValue)
           s == Event(g, n, "javafx", "state", IF g.what = "check" THEN "selected" ELSE "value", g.value)
           a == Event(g, n, "javafx", "action", "activate", NoValue)
<1>0. PICK r : r = Reported("javafx", g, n, fw)
  OBVIOUS
<1>1. /\ g.what \notin {"dismiss", "pick_by_key"} => Tells(p, g)
      /\ g.what \in {"check"} \cup Picks => Tells(s, g)
      /\ g.what \in {"click", "check", "choose"} \cup Picks => Tells(a, g)
      /\ Opens(p, g) /\ (g.what = "pick_by_key" => Opens(s, g)) /\ s.type = "state"
      /\ Rank(p) = 1 /\ Rank(s) = 2 /\ Rank(a) = 3
      /\ p.gesture = n /\ s.gesture = n /\ a.gesture = n
  BY DEF Tells, Event, Picks, Opens, Rank
<1>2. g.what = "dismiss" => r = <<>>
  BY <1>0 DEF Reported
<1>3. g.what \in {"click", "choose"} => r = <<p, a>>
  BY <1>0 DEF Reported
<1>4. g.what \in {"check", "pick"} => r = <<p, s, a>>
  BY <1>0 DEF Reported
<1>5. g.what = "pick_by_key" => r = <<s, a>>
  BY <1>0 DEF Reported
<1>6. g.what \in {"right_click", "open_menu", "open_selector"} => r = <<p>>
  BY <1>0 DEF Reported
<1>7. g.what \in {"dismiss", "click", "choose", "check", "pick", "pick_by_key", "right_click", "open_menu",
                  "open_selector"}
  BY DEF OnKind, KindsOf
<1> HIDE DEF p, s, a
<1>8. CASE g.what = "dismiss"
  BY <1>0, <1>2, <1>8 DEF NativeReport
<1>9. CASE g.what \in {"click", "choose"}
  <2>1. DOMAIN r = 1 .. 2 /\ r[1] = p /\ r[2] = a
    BY <1>3, <1>9
  <2> QED BY <1>0, <1>1, <1>9, <2>1 DEF NativeReport
<1>10. CASE g.what \in {"check", "pick"}
  <2>1. DOMAIN r = 1 .. 3 /\ r[1] = p /\ r[2] = s /\ r[3] = a
    BY <1>4, <1>10
  <2> QED BY <1>0, <1>1, <1>10, <2>1 DEF NativeReport, Picks
<1>11. CASE g.what = "pick_by_key"
  <2>1. DOMAIN r = 1 .. 2 /\ r[1] = s /\ r[2] = a
    BY <1>5, <1>11
  <2> QED BY <1>0, <1>1, <1>11, <2>1 DEF NativeReport, Picks
<1>12. CASE g.what \in {"right_click", "open_menu", "open_selector"}
  <2>1. DOMAIN r = 1 .. 1 /\ r[1] = p
    BY <1>6, <1>12
  <2> QED BY <1>0, <1>1, <1>12, <2>1 DEF NativeReport
<1> QED BY <1>7, <1>8, <1>9, <1>10, <1>11, <1>12

(* The feed after a gesture. *)
NewFeed(g, n, r) ==
  /\ NativeReport(r, g, n) /\ OnKind(g) /\ DOMAIN r \subseteq Nat \ {0} /\ Len(Feed) \in Nat
  /\ DOMAIN Feed = 1 .. Len(Feed)
  /\ DOMAIN Feed \subseteq DOMAIN Feed'
  /\ \A i \in DOMAIN Feed : Feed'[i] = Feed[i]
  /\ \A i \in DOMAIN Feed' \ DOMAIN Feed : \E j \in DOMAIN r : i = Len(Feed) + j /\ Feed'[i] = r[j]
  /\ \A j \in DOMAIN r : Len(Feed) + j \in DOMAIN Feed' /\ Feed'[Len(Feed) + j] = r[j]
  /\ \A i \in DOMAIN Feed : Feed[i].gesture \in DOMAIN gestures

(* The reports of a gesture are appended to the feed.                      *)
LEMMA GesticulateFeeds ==
  ASSUME NativeWindow, IInv, GestureInv, FeedOrder, Gesticulate
  PROVE  /\ \E g, n, r : Made(g, n) /\ NewFeed(g, n, r)
         /\ feed'["atspi"] = feed["atspi"] /\ UNCHANGED <<phase, attached, faulty, interactions, pending, menu, popup>>
<1>1. PICK g, n : \E fw \in AtspiFrameworks : Made(g, n) /\ Delivered(g, n, fw)
  BY GestureMade
<1>2. PICK fw \in AtspiFrameworks : Made(g, n) /\ Delivered(g, n, fw)
  BY <1>1
<1>3. /\ attached = {"javafx"}
      /\ UNCHANGED <<phase, attached, faulty, interactions, pending, menu, popup>>
  BY GestureMade DEF FeedOrder
<1>4. PICK r : r = Reported("javafx", g, n, fw)
  OBVIOUS
<1>5. OnKind(g)
  <2>1. GestureInv'
    BY GesticulateKeepsGestures
  <2>2. n \in DOMAIN gestures' /\ gestures'[n] = g
    BY <1>2 DEF Made
  <2> QED BY <2>1, <2>2 DEF GestureInv, OnKind
<1>6. NativeReport(r, g, n)
  BY <1>4, <1>5, ReportsNatively
<1>7. "javafx" \in Frameworks /\ "atspi" \in Frameworks
  BY DEF Frameworks
<1>8. feed["javafx"] \in Seq(Observation)
  BY <1>7 DEF IInv, TypeOK
<1>9. r \in Seq(Observation)
  BY <1>2, <1>4, <1>7, FeedAfter DEF Reports
<1>10. /\ DOMAIN Feed \subseteq DOMAIN Feed'
       /\ \A i \in DOMAIN Feed : Feed'[i] = Feed[i]
       /\ \A i \in DOMAIN Feed' \ DOMAIN Feed : \E j \in DOMAIN r : i = Len(Feed) + j /\ Feed'[i] = r[j]
       /\ \A j \in DOMAIN r : Len(Feed) + j \in DOMAIN Feed' /\ Feed'[Len(Feed) + j] = r[j]
  BY <1>2, <1>3, <1>4, <1>7, FeedAfter DEF Feed
<1>11. \A i \in DOMAIN Feed : Feed[i].gesture \in DOMAIN gestures
  BY <1>7 DEF Feed, IInv, FeedTraced, Traced
<1>12. NewFeed(g, n, r)
  BY <1>5, <1>6, <1>8, <1>9, <1>10, <1>11 DEF NewFeed, Feed
<1>13. feed'["atspi"] = feed["atspi"]
  BY <1>2, <1>3, <1>7 DEF Delivered
<1> QED BY <1>2, <1>3, <1>12, <1>13

(* The feed stays ordered when a gesture is made.                          *)
LEMMA GesticulateKeepsOrder ==
  ASSUME NativeWindow, IInv, GestureInv, FeedOrder, Gesticulate
  PROVE  FeedOrder'
<1>1. PICK g, n, r : Made(g, n) /\ NewFeed(g, n, r)
  BY GesticulateFeeds
<1>2. feed'["atspi"] = <<>> /\ attached' \subseteq {"javafx"}
  BY GesticulateFeeds DEF FeedOrder
<1>3. /\ gestures'[n] = g /\ n \in DOMAIN gestures' /\ n \in Nat
      /\ DOMAIN gestures' = DOMAIN gestures \cup {n}
      /\ \A m \in DOMAIN gestures : m < n /\ m \in Nat /\ gestures'[m] = gestures[m]
  BY <1>1 DEF Made
<1>4. \A i \in DOMAIN Feed : Feed'[i] = Feed[i] /\ i \in DOMAIN Feed' /\ Feed[i].gesture \in DOMAIN gestures
  BY <1>1 DEF NewFeed
<1>5. \A i \in DOMAIN Feed' \ DOMAIN Feed : Feed'[i].gesture = n /\ Tells(Feed'[i], g)
  BY <1>1 DEF NewFeed, NativeReport
<1>6. \A i \in DOMAIN Feed' : Told(Feed[i])'
  BY <1>3, <1>4, <1>5 DEF FeedOrder, Told, Tells
<1>7. ASSUME NEW i \in DOMAIN Feed', NEW j \in DOMAIN Feed', i < j
      PROVE  \/ Feed'[i].gesture < Feed'[j].gesture
             \/ Feed'[i].gesture = Feed'[j].gesture /\ Rank(Feed'[i]) < Rank(Feed'[j])
  <2>1. CASE i \in DOMAIN Feed /\ j \in DOMAIN Feed
    BY <1>4, <1>7, <2>1 DEF FeedOrder, Rank
  <2>2. CASE i \in DOMAIN Feed /\ j \notin DOMAIN Feed
    BY <1>3, <1>4, <1>5, <2>2
  <2>3. CASE i \notin DOMAIN Feed /\ j \in DOMAIN Feed
    BY <1>1, <1>7, <2>3 DEF NewFeed
  <2>4. CASE i \notin DOMAIN Feed /\ j \notin DOMAIN Feed
    <3>1. PICK k \in DOMAIN r : i = Len(Feed) + k /\ Feed'[i] = r[k]
      BY <1>1, <2>4 DEF NewFeed
    <3>2. PICK l \in DOMAIN r : j = Len(Feed) + l /\ Feed'[j] = r[l]
      BY <1>1, <2>4 DEF NewFeed
    <3>3. k < l
      BY <1>1, <1>7, <3>1, <3>2 DEF NewFeed
    <3>4. Rank(r[k]) < Rank(r[l]) /\ r[k].gesture = r[l].gesture
      BY <1>1, <3>3 DEF NewFeed, NativeReport
    <3> QED BY <3>1, <3>2, <3>4 DEF Rank
  <2> QED BY <2>1, <2>2, <2>3, <2>4
<1>8. \A m \in DOMAIN gestures : Ahead(m) => Ahead(m)'
  BY <1>3, <1>4 DEF Ahead, Opening, Opens
<1>9. g.what # "dismiss" => Ahead(n)'
  <2> SUFFICES ASSUME g.what # "dismiss" PROVE Ahead(n)'
    OBVIOUS
  <2>1. PICK j \in DOMAIN r : Opens(r[j], g) /\ r[j].gesture = n
    BY <1>1 DEF NewFeed, NativeReport
  <2>2. Len(Feed) + j \in DOMAIN Feed' /\ Feed'[Len(Feed) + j] = r[j]
    BY <1>1 DEF NewFeed
  <2> QED BY <1>3, <2>1, <2>2 DEF Ahead, Opening, Opens
<1>10. ASSUME NEW i \in DOMAIN Feed', NEW m \in DOMAIN gestures',
              m > Feed'[i].gesture, gestures'[m].what # "dismiss"
       PROVE  Ahead(m)'
  <2>1. CASE m = n
    BY <1>3, <1>9, <1>10, <2>1
  <2>2. CASE m # n
    <3>1. m \in DOMAIN gestures /\ gestures'[m] = gestures[m] /\ m < n
      BY <1>3, <2>2
    <3>2. i \in DOMAIN Feed
      BY <1>3, <1>5, <1>10, <3>1
    <3> QED BY <1>4, <1>8, <1>10, <3>1, <3>2 DEF FeedOrder
  <2> QED BY <2>1, <2>2
<1>11. ASSUME NEW i \in DOMAIN Feed', Feed'[i].type = "pointer", gestures'[Feed'[i].gesture].what = "check"
       PROVE  StateAhead(Feed[i].gesture)'
  <2>1. CASE i \in DOMAIN Feed
    <3>1. StateAhead(Feed[i].gesture)
      BY <1>3, <1>4, <1>11, <2>1 DEF FeedOrder
    <3> QED BY <1>4, <2>1, <3>1 DEF StateAhead
  <2>2. CASE i \notin DOMAIN Feed
    <3>1. g.what = "check" /\ Feed'[i].gesture = n
      BY <1>3, <1>5, <1>11, <2>2
    <3>2. PICK j \in DOMAIN r : r[j].type = "state" /\ r[j].gesture = n
      BY <1>1, <3>1 DEF NewFeed, NativeReport
    <3>3. Len(Feed) + j \in DOMAIN Feed' /\ Feed'[Len(Feed) + j] = r[j]
      BY <1>1 DEF NewFeed
    <3> QED BY <3>1, <3>2, <3>3 DEF StateAhead
  <2> QED BY <2>1, <2>2
<1> QED BY <1>2, <1>6, <1>7, <1>10, <1>11 DEF FeedOrder, Rank

-----------------------------------------------------------------------------
(* Taking the first observation *)

(* o, the first observation the feed holds, is taken.                      *)
TakesFirst(o) ==
  /\ 1 \in DOMAIN Feed /\ o = Feed[1] /\ o \in Observation /\ o.gesture \in DOMAIN gestures
  /\ gestures[o.gesture].obj = o.obj
  /\ UNCHANGED <<phase, attached, faulty, gestures, ui>> /\ feed'["atspi"] = <<>>
  /\ DOMAIN Feed \subseteq Nat \ {0} /\ DOMAIN gestures \subseteq Nat
  /\ \A i \in DOMAIN Feed : Feed[i].gesture \in DOMAIN gestures
  /\ \A i \in DOMAIN Feed' :
       i \in Nat \ {0} /\ i + 1 \in DOMAIN Feed /\ i + 1 # 1 /\ Feed'[i] = Feed[i + 1]
  /\ \A j \in DOMAIN Feed : j # 1 => j - 1 \in DOMAIN Feed' /\ Feed'[j - 1] = Feed[j]

(* The observation that is delivered is the first of the feed.             *)
LEMMA TakenFirst ==
  ASSUME IInv, FeedOrder, NEW a \in Frameworks, Observe(a), NEW o, o = Head(feed[a])
  PROVE  a = "javafx" /\ TakesFirst(o)
<1>1. a = "javafx"
  BY DEF Observe, FeedOrder, Frameworks
<1>2. Feed \in Seq(Observation) /\ gestures \in Seq(MadeType)
  BY <1>1 DEF Feed, IInv, TypeOK, MadeType
<1>3. DOMAIN Feed \subseteq Nat \ {0} /\ DOMAIN gestures \subseteq Nat
  BY <1>2
<1>4. feed'["atspi"] = <<>>
  BY <1>1, Taken DEF FeedOrder, Frameworks
<1>5. \A i \in DOMAIN Feed : Feed[i].gesture \in DOMAIN gestures
  BY <1>1 DEF Feed, IInv, FeedTraced, Traced
<1>6. DOMAIN Feed' \subseteq Nat \ {0}
  <2>1. Feed' = Tail(Feed) /\ Feed # <<>>
    BY <1>1, <1>2 DEF Observe, Feed, IInv, TypeOK
  <2> QED BY <1>2, <2>1
<1>7. \A i \in DOMAIN Feed' : i + 1 # 1
  BY <1>6
<1>8. /\ o \in Observation /\ Traced(o) /\ UNCHANGED <<phase, attached, faulty, gestures, ui>>
      /\ 1 \in DOMAIN Feed /\ o = Feed[1]
      /\ \A i \in DOMAIN Feed' : i + 1 \in DOMAIN Feed /\ Feed'[i] = Feed[i + 1]
      /\ \A j \in DOMAIN Feed : j # 1 => j - 1 \in DOMAIN Feed' /\ Feed'[j - 1] = Feed[j]
  BY <1>1, Taken DEF Feed
<1> QED BY <1>1, <1>3, <1>4, <1>5, <1>6, <1>7, <1>8 DEF TakesFirst, Traced

(* The feed is in order: only the gesture of its first observation can be  *)
(* half reported.                                                          *)
Serially(o) ==
  LET h == o.gesture IN
  /\ Told(o) /\ gestures[h].what # "dismiss" /\ OnKind(gestures[h])
  /\ \A n \in DOMAIN gestures :
       /\ Ahead(n)' <=> Ahead(n) /\ n # h
       /\ Begun(n)' <=> Begun(n) \/ n = h
       /\ Heard(n)' <=> Heard(n) \/ n = h
       /\ Underway(n) => n = h /\ ~ Opening(o)
       /\ Underway(n)' => n = h
       /\ Heard(n) => n <= h /\ (Opening(o) => n < h)
       /\ Begun(n) /\ StateAhead(n) => n = h
       /\ StateAhead(n)' => n # h \/ o.type = "pointer"
       /\ n # h /\ StateAhead(n) => StateAhead(n)'
  /\ Ahead(h) <=> Opening(o)
  /\ ~ Opening(o) => Underway(h)
  /\ o.type = "pointer" /\ gestures[h].what = "check" => StateAhead(h)'
  /\ o.type = "action" => ~ StateAhead(h)
  /\ \A i \in DOMAIN Feed : o.at <= Feed[i].at
  /\ \A n \in DOMAIN gestures : n <= h => gestures[n].at <= o.at

(* An ordered feed is read gesture by gesture.                             *)
LEMMA Serial ==
  ASSUME GestureInv, FeedOrder, NEW o, TakesFirst(o)
  PROVE  Serially(o)
<1> DEFINE h == o.gesture
<1>1. h \in DOMAIN gestures /\ Told(o) /\ o = Feed[1] /\ 1 \in DOMAIN Feed
  BY DEF TakesFirst, FeedOrder
<1>2. gestures[h].what # "dismiss" /\ OnKind(gestures[h])
  BY <1>1 DEF Told, Tells, GestureInv, Picks
<1>3. \A j \in DOMAIN Feed : j # 1 =>
        \/ h < Feed[j].gesture
        \/ h = Feed[j].gesture /\ Rank(o) < Rank(Feed[j])
  <2> SUFFICES ASSUME NEW j \in DOMAIN Feed, j # 1
               PROVE  h < Feed[j].gesture \/ (h = Feed[j].gesture /\ Rank(o) < Rank(Feed[j]))
    OBVIOUS
  <2>1. 1 < j
    BY DEF TakesFirst
  <2> QED BY <1>1, <2>1 DEF FeedOrder
<1>4. \A j \in DOMAIN Feed : Feed[j].gesture = h /\ Opening(Feed[j]) => j = 1
  <2> SUFFICES ASSUME NEW j \in DOMAIN Feed, Feed[j].gesture = h, Opening(Feed[j]), j # 1 PROVE FALSE
    OBVIOUS
  <2>1. Rank(o) < Rank(Feed[j])
    BY <1>1, <1>3 DEF TakesFirst
  <2>2. o.type = "pointer" /\ Feed[j].type = "state" /\ gestures[h].what = "pick_by_key"
    BY <2>1 DEF Rank, Opening, Opens
  <2> QED BY <1>1, <2>2 DEF Told, Tells
<1>5. Ahead(h) <=> Opening(o)
  BY <1>1, <1>4 DEF Ahead
<1>6. ASSUME NEW n \in DOMAIN gestures PROVE Ahead(n)' <=> Ahead(n) /\ n # h
  <2>1. ASSUME Ahead(n)' PROVE Ahead(n) /\ n # h
    <3>1. PICK i \in DOMAIN Feed' : Feed'[i].gesture = n /\ Opening(Feed[i])'
      BY <2>1 DEF Ahead
    <3>2. i + 1 \in DOMAIN Feed /\ Feed'[i] = Feed[i + 1] /\ i + 1 # 1
      BY DEF TakesFirst
    <3>3. Opening(Feed[i + 1])
      BY <3>1, <3>2 DEF Opening, Opens, TakesFirst
    <3> QED BY <1>4, <3>1, <3>2, <3>3 DEF Ahead
  <2>2. ASSUME Ahead(n), n # h PROVE Ahead(n)'
    <3>1. PICK j \in DOMAIN Feed : Feed[j].gesture = n /\ Opening(Feed[j])
      BY <2>2 DEF Ahead
    <3>2. j - 1 \in DOMAIN Feed' /\ Feed'[j - 1] = Feed[j]
      BY <1>1, <2>2, <3>1 DEF TakesFirst
    <3> QED BY <3>1, <3>2 DEF Ahead, Opening, Opens, TakesFirst
  <2> QED BY <2>1, <2>2
<1>7. \A n \in DOMAIN gestures : (Begun(n)' <=> Begun(n) \/ n = h) /\ (Heard(n)' <=> Heard(n) \/ n = h)
  BY <1>2, <1>6 DEF Begun, Heard, TakesFirst
<1>8. ASSUME NEW n \in DOMAIN gestures, n > h, gestures[n].what # "dismiss" PROVE Ahead(n)
  BY <1>1, <1>8 DEF FeedOrder
<1>9. ASSUME NEW n \in DOMAIN gestures, Heard(n) PROVE n <= h /\ (Opening(o) => n < h)
  <2>1. ~ (n > h)
    BY <1>8, <1>9 DEF Heard, Begun
  <2>2. n \in Nat /\ h \in Nat
    BY <1>1 DEF TakesFirst
  <2>3. Opening(o) => n # h
    BY <1>5, <1>9 DEF Heard, Begun
  <2> QED BY <2>1, <2>2, <2>3
<1>10. \A i \in DOMAIN Feed : gestures[Feed[i].gesture].what # "dismiss"
  BY DEF FeedOrder, Told, Tells, Picks
<1>11. ASSUME NEW n \in DOMAIN gestures, NEW i \in DOMAIN Feed, Feed[i].gesture = n, Begun(n) PROVE n = h /\ ~ Opening(o)
  <2>1. Heard(n)
    BY <1>10, <1>11 DEF Heard
  <2>2. n <= h
    BY <1>9, <2>1
  <2>3. h <= n
    BY <1>1, <1>3, <1>11 DEF TakesFirst
  <2>4. n \in Nat /\ h \in Nat
    BY <1>1 DEF TakesFirst
  <2> QED BY <1>5, <1>11, <2>2, <2>3, <2>4 DEF Begun
<1>12. ASSUME NEW n \in DOMAIN gestures, Underway(n)' PROVE n = h
  <2> SUFFICES ASSUME n # h PROVE FALSE
    OBVIOUS
  <2>1. Begun(n)
    BY <1>7, <1>12 DEF Underway
  <2>2. PICK i \in DOMAIN Feed' : Feed'[i].gesture = n
    BY <1>12 DEF Underway
  <2>3. i + 1 \in DOMAIN Feed /\ Feed[i + 1].gesture = n
    BY <2>2 DEF TakesFirst
  <2> QED BY <1>11, <2>1, <2>3
<1>13. ASSUME NEW n \in DOMAIN gestures, StateAhead(n)' PROVE n # h \/ o.type = "pointer"
  <2> SUFFICES ASSUME n = h PROVE o.type = "pointer"
    OBVIOUS
  <2>1. PICK i \in DOMAIN Feed' : Feed'[i].gesture = n /\ Feed'[i].type = "state"
    BY <1>13 DEF StateAhead
  <2>2. i + 1 \in DOMAIN Feed /\ Feed[i + 1] = Feed'[i] /\ i + 1 # 1
    BY DEF TakesFirst
  <2>3. Rank(o) < Rank(Feed[i + 1])
    BY <1>1, <1>3, <2>1, <2>2 DEF TakesFirst
  <2> QED BY <2>1, <2>2, <2>3 DEF Rank
<1>14. ASSUME NEW n \in DOMAIN gestures, n # h, StateAhead(n) PROVE StateAhead(n)'
  <2>1. PICK j \in DOMAIN Feed : Feed[j].gesture = n /\ Feed[j].type = "state"
    BY <1>14 DEF StateAhead
  <2>2. j - 1 \in DOMAIN Feed' /\ Feed'[j - 1] = Feed[j]
    BY <1>1, <1>14, <2>1 DEF TakesFirst
  <2> QED BY <2>1, <2>2 DEF StateAhead
<1>15. ~ Opening(o) => Underway(h)
  BY <1>1, <1>5 DEF Underway, Begun
<1>16. ASSUME o.type = "pointer", gestures[h].what = "check" PROVE StateAhead(h)'
  <2>1. PICK j \in DOMAIN Feed : Feed[j].gesture = h /\ Feed[j].type = "state"
    BY <1>1, <1>16 DEF FeedOrder, StateAhead
  <2>2. j - 1 \in DOMAIN Feed' /\ Feed'[j - 1] = Feed[j]
    BY <1>1, <1>16, <2>1 DEF TakesFirst
  <2> QED BY <2>1, <2>2 DEF StateAhead
<1>17. ASSUME o.type = "action", StateAhead(h) PROVE FALSE
  <2>1. PICK j \in DOMAIN Feed : Feed[j].gesture = h /\ Feed[j].type = "state"
    BY <1>17 DEF StateAhead
  <2>2. j # 1
    BY <1>1, <1>17, <2>1
  <2>3. Rank(o) < Rank(Feed[j])
    BY <1>1, <1>3, <2>1, <2>2 DEF TakesFirst
  <2> QED BY <1>17, <2>1, <2>3 DEF Rank
<1>18. ASSUME NEW i \in DOMAIN Feed PROVE o.at <= Feed[i].at
  <2>1. Feed[i].gesture \in DOMAIN gestures /\ h <= Feed[i].gesture
    <3>1. h \in Nat
      BY <1>1 DEF TakesFirst
    <3>2. Feed[i].gesture \in DOMAIN gestures
      BY DEF TakesFirst
    <3>3. Feed[i].gesture \in Nat
      BY <3>2 DEF TakesFirst
    <3> QED BY <1>1, <1>3, <3>1, <3>2, <3>3
  <2>2. Told(Feed[i])
    BY DEF FeedOrder
  <2>3. gestures[h].at <= gestures[Feed[i].gesture].at
    BY <1>1, <2>1 DEF GestureInv
  <2> QED BY <1>1, <2>2, <2>3 DEF Told, Tells
<1>19. \A n \in DOMAIN gestures : n <= h => gestures[n].at <= o.at
  BY <1>1 DEF GestureInv, Told, Tells
<1>20. \A n \in DOMAIN gestures : Begun(n) /\ StateAhead(n) => n = h
  BY <1>11 DEF StateAhead
<1>21. \A n \in DOMAIN gestures : Underway(n) => n = h /\ ~ Opening(o)
  BY <1>11 DEF Underway
<1> QED BY <1>1, <1>2, <1>5, <1>6, <1>7, <1>9, <1>12, <1>13, <1>14, <1>15, <1>16, <1>17, <1>18, <1>19, <1>20, <1>21
        DEF Serially

(* The feed stays ordered when its first observation is taken.             *)
LEMMA ObserveKeepsOrder ==
  ASSUME IInv, GestureInv, FeedOrder, NEW o, TakesFirst(o)
  PROVE  FeedOrder'
<1>1. Serially(o)
  BY Serial
<1>2. feed'["atspi"] = <<>> /\ attached' \subseteq {"javafx"}
  BY DEF TakesFirst, FeedOrder
<1>3. \A i \in DOMAIN Feed' : i \in Nat \ {0} /\ i + 1 \in DOMAIN Feed /\ i + 1 # 1 /\ Feed'[i] = Feed[i + 1]
  BY DEF TakesFirst
<1>4. \A i \in DOMAIN Feed' : Told(Feed[i])'
  BY <1>3 DEF FeedOrder, Told, Tells, TakesFirst
<1>5. ASSUME NEW i \in DOMAIN Feed', NEW j \in DOMAIN Feed', i < j
      PROVE  \/ Feed'[i].gesture < Feed'[j].gesture
             \/ Feed'[i].gesture = Feed'[j].gesture /\ Rank(Feed'[i]) < Rank(Feed'[j])
  <2>1. i + 1 < j + 1
    BY <1>3, <1>5
  <2> QED BY <1>3, <2>1 DEF FeedOrder
<1>6. \A i \in DOMAIN Feed' : Feed'[i].gesture >= o.gesture
  <2> SUFFICES ASSUME NEW i \in DOMAIN Feed' PROVE Feed'[i].gesture >= o.gesture
    OBVIOUS
  <2>1. i + 1 \in DOMAIN Feed /\ Feed'[i] = Feed[i + 1] /\ 1 < i + 1 /\ i + 1 # 1
    BY <1>3 DEF TakesFirst
  <2>2. Feed[1].gesture < Feed[i + 1].gesture \/ Feed[1].gesture = Feed[i + 1].gesture
    BY <2>1 DEF FeedOrder, TakesFirst
  <2>3. Feed[1].gesture \in Nat /\ Feed[i + 1].gesture \in Nat
    BY <2>1 DEF TakesFirst
  <2> QED BY <2>1, <2>2, <2>3 DEF TakesFirst
<1>7. ASSUME NEW i \in DOMAIN Feed', NEW m \in DOMAIN gestures,
             m > Feed'[i].gesture, gestures[m].what # "dismiss"
      PROVE  Ahead(m)'
  <2>1. Feed'[i].gesture = Feed[i + 1].gesture /\ i + 1 \in DOMAIN Feed
    BY <1>3
  <2>2. Ahead(m)
    BY <1>7, <2>1 DEF FeedOrder
  <2>3. m # o.gesture
    <3>1. m \in Nat /\ Feed'[i].gesture \in Nat /\ o.gesture \in Nat
      BY <2>1 DEF TakesFirst
    <3> QED BY <1>6, <1>7, <3>1
  <2> QED BY <1>1, <2>2, <2>3 DEF Serially
<1>8. ASSUME NEW i \in DOMAIN Feed', Feed'[i].type = "pointer", gestures[Feed'[i].gesture].what = "check"
      PROVE  StateAhead(Feed[i].gesture)'
  <2>1. Feed'[i] = Feed[i + 1] /\ i + 1 \in DOMAIN Feed /\ i + 1 # 1 /\ Feed[i + 1].gesture \in DOMAIN gestures
    BY <1>3 DEF TakesFirst
  <2>2. StateAhead(Feed[i + 1].gesture)
    BY <1>8, <2>1 DEF FeedOrder
  <2>3. Feed[i + 1].gesture # o.gesture
    <3>1. Feed[1].gesture = Feed[i + 1].gesture => Rank(Feed[1]) < Rank(Feed[i + 1])
      BY <1>3, <2>1 DEF FeedOrder, TakesFirst
    <3>2. Rank(Feed[i + 1]) = 1 /\ Rank(Feed[1]) \in {1, 2, 3}
      BY <1>8, <2>1 DEF Rank
    <3> QED BY <3>1, <3>2 DEF TakesFirst
  <2> QED BY <1>1, <2>1, <2>2, <2>3 DEF Serially
<1> QED BY <1>2, <1>4, <1>5, <1>7, <1>8 DEF FeedOrder, TakesFirst, Rank

-----------------------------------------------------------------------------
(* What an observation makes of the pending interaction *)

(* What an observation makes of the transcript. *)
Accrues(old, o, context) ==
  /\ pending' # <<>> /\ Last'.obj = o.obj /\ Last'.fw = "javafx" /\ Last'.completed = o.at
  /\ old \cup {o.gesture} \subseteq Last'.of
  /\ Last'.of \subseteq old \cup {o.gesture} \cup context.absorbed
  /\ context.owner # NoObject => Last'.menu = context.owner

(* The pending interaction grows.                                          *)
Extended(o, action, context) ==
  /\ pending # <<>> /\ Last.obj = o.obj /\ UNCHANGED interactions
  /\ Accrues(Last.of, o, context)
  /\ Last'.action = action /\ Last'.value = Last.value /\ Last'.started = Last.started
  /\ context.owner = NoObject => Last'.menu = Last.menu

(* A new interaction becomes the pending one.                              *)
Opened(o, action, value, context) ==
  /\ interactions' = interactions \o pending
  /\ Accrues({}, o, context)
  /\ Last'.action = action /\ Last'.value = value /\ Last'.started = o.at

(* The pending interaction is native and no later than the observation.    *)
Ready(o) ==
  /\ Transcript /\ o \in Observation /\ o.fw = "javafx"
  /\ pending # <<>> => Last.fw = "javafx" /\ Last.completed <= o.at

(* With one adapter, to begin is to extend the pending interaction or to   *)
(* open a new one.                                                         *)
LEMMA BeginNatively ==
  ASSUME NEW o, Ready(o), NEW action, action # "set_text", NEW value, NEW context \in Context,
         Begin(action, value, o, context)
  PROVE  \/ Correlates(action, value, o) /\ Extended(o, Last.action, context)
         \/ ~ Correlates(action, value, o) /\ Opened(o, action, value, context)
<1>1. ~ Coalesces(action, o)
  BY DEF Coalesces
<1>2. CASE Correlates(action, value, o)
  <2>1. Last \in Interaction /\ Last.obj = o.obj /\ pending # <<>>
    BY <1>2 DEF Correlates, SameLogicalTarget, Ready, Transcript, Last
  <2> DEFINE merged == [Last EXCEPT !.fw = PreferredFramework(o), !.completed = Latest(@, o.at),
                                    !.of = @ \cup {o.gesture}]
  <2>2. pending' = <<Attached(merged, context)>> /\ UNCHANGED interactions
    BY <1>1, <1>2 DEF Begin, Replace
  <2>3. /\ merged.fw = "javafx" /\ merged.completed = o.at /\ merged.of = Last.of \cup {o.gesture}
        /\ merged.obj = o.obj /\ merged.action = Last.action /\ merged.value = Last.value
        /\ merged.started = Last.started /\ merged.menu = Last.menu /\ merged \in Interaction
    <3>1. Latest(Last.completed, o.at) = o.at /\ o.at \in Nat /\ o.gesture \in 1 .. MaxGestures
      BY <2>1 DEF Ready, Latest, Observation, Interaction
    <3> QED BY <2>1, <3>1 DEF Interaction, PreferredFramework, Ready, Frameworks
  <2> HIDE DEF merged
  <2>4. Last' = Attached(merged, context) /\ pending' # <<>>
    BY <2>2 DEF Last
  <2>5. CASE context.owner = NoObject
    <3>1. Last' = merged
      BY <2>4, <2>5 DEF Attached
    <3> QED BY <1>2, <2>1, <2>2, <2>3, <2>4, <2>5, <3>1 DEF Extended, Accrues
  <2>6. CASE context.owner # NoObject
    <3>1. Last' = [merged EXCEPT !.menu = context.owner, !.of = @ \cup context.absorbed]
      BY <2>4, <2>6 DEF Attached
    <3>2. /\ Last'.fw = "javafx" /\ Last'.completed = o.at
          /\ Last'.of = Last.of \cup {o.gesture} \cup context.absorbed
          /\ Last'.obj = o.obj /\ Last'.action = Last.action /\ Last'.value = Last.value
          /\ Last'.started = Last.started /\ Last'.menu = context.owner
      BY <2>3, <3>1 DEF Interaction
    <3> QED BY <1>2, <2>1, <2>2, <2>4, <2>6, <3>2 DEF Extended, Accrues
  <2> QED BY <2>5, <2>6
<1>3. CASE ~ Correlates(action, value, o)
  <2> DEFINE fresh == Fresh(action, value, o)
  <2>1. interactions' = interactions \o pending /\ pending' = <<Attached(fresh, context)>>
    BY <1>1, <1>3 DEF Begin
  <2>2. /\ fresh.fw = "javafx" /\ fresh.completed = o.at /\ fresh.of = {o.gesture}
        /\ fresh.obj = o.obj /\ fresh.action = action /\ fresh.value = value /\ fresh.started = o.at
        /\ fresh = [action |-> action, obj |-> o.obj, fw |-> o.fw, value |-> value, started |-> o.at,
                    completed |-> o.at, menu |-> NoObject, of |-> {o.gesture}]
    BY DEF Fresh, Ready
  <2> HIDE DEF fresh
  <2>3. Last' = Attached(fresh, context) /\ pending' # <<>>
    BY <2>1 DEF Last
  <2>4. /\ Last'.fw = "javafx" /\ Last'.completed = o.at
        /\ {o.gesture} \subseteq Last'.of /\ Last'.of \subseteq {o.gesture} \cup context.absorbed
        /\ Last'.obj = o.obj /\ Last'.action = action /\ Last'.value = value
        /\ Last'.started = o.at /\ (context.owner # NoObject => Last'.menu = context.owner)
    BY <2>2, <2>3 DEF Attached
  <2> QED BY <1>3, <2>1, <2>3, <2>4 DEF Opened, Accrues
<1> QED BY <1>2, <1>3

(* An action event extends the pending interaction.                        *)
LEMMA MergeNatively ==
  ASSUME NEW o, Ready(o), o.detail = "activate", NEW context \in Context,
         SameLogicalTarget(o), MergeAction(o, context)
  PROVE  Extended(o, Last.action, context)
<1> DEFINE merged == [Last EXCEPT !.action = IF o.detail = "activate" THEN @ ELSE o.detail,
                                  !.fw = PreferredFramework(o), !.completed = o.at,
                                  !.of = @ \cup {o.gesture}]
<1>1. Last \in Interaction /\ Last.obj = o.obj /\ pending # <<>>
  BY DEF SameLogicalTarget, Ready, Transcript, Last
<1>2. pending' = <<Attached(merged, context)>> /\ UNCHANGED interactions
  BY DEF MergeAction, Replace
<1>3. /\ merged.fw = "javafx" /\ merged.completed = o.at /\ merged.of = Last.of \cup {o.gesture}
      /\ merged.obj = o.obj /\ merged.action = Last.action /\ merged.value = Last.value
      /\ merged.started = Last.started /\ merged.menu = Last.menu /\ merged \in Interaction
  <2>1. o.at \in Nat /\ o.gesture \in 1 .. MaxGestures
    BY DEF Ready, Observation
  <2> QED BY <1>1, <2>1 DEF Interaction, PreferredFramework, Ready, Frameworks
<1> HIDE DEF merged
<1>4. Last' = Attached(merged, context) /\ pending' # <<>>
  BY <1>2 DEF Last
<1>5. CASE context.owner = NoObject
  <2>1. Last' = merged
    BY <1>4, <1>5 DEF Attached
  <2> QED BY <1>1, <1>2, <1>3, <1>4, <1>5, <2>1 DEF Extended, Accrues
<1>6. CASE context.owner # NoObject
  <2>1. Last' = [merged EXCEPT !.menu = context.owner, !.of = @ \cup context.absorbed]
    BY <1>4, <1>6 DEF Attached
  <2>2. /\ Last'.fw = "javafx" /\ Last'.completed = o.at
        /\ Last'.of = Last.of \cup {o.gesture} \cup context.absorbed
        /\ Last'.obj = o.obj /\ Last'.action = Last.action /\ Last'.value = Last.value
        /\ Last'.started = Last.started /\ Last'.menu = context.owner
    BY <1>3, <2>1 DEF Interaction
  <2> QED BY <1>1, <1>2, <1>4, <1>6, <2>2 DEF Extended, Accrues
<1> QED BY <1>5, <1>6

(* A state change extends the pending interaction, and may promote it.     *)
LEMMA AddDeltaNatively ==
  ASSUME NEW o, Ready(o), AddDelta(o)
  PROVE  \/ ~ SameLogicalTarget(o) /\ UNCHANGED transcript
         \/ Extended(o, Promoted(Last.action, o.detail), NoMenu)
<1>1. CASE ~ SameTarget(o) /\ UNCHANGED transcript
  BY <1>1 DEF SameTarget, SameLogicalTarget, Ready
<1>2. CASE SameTarget(o)
  <2>1. Last \in Interaction /\ Last.obj = o.obj /\ pending # <<>>
    BY <1>2 DEF SameTarget, SameLogicalTarget, Ready, Transcript, Last
  <2>2. Last' = [Last EXCEPT !.action = Promoted(@, o.detail), !.completed = o.at,
                             !.of = @ \cup {o.gesture}]
        /\ pending' # <<>> /\ UNCHANGED interactions
    BY <1>2 DEF AddDelta, Replace, Last
  <2>3. /\ Last'.fw = "javafx" /\ Last'.completed = o.at /\ Last'.of = Last.of \cup {o.gesture}
        /\ Last'.obj = o.obj /\ Last'.action = Promoted(Last.action, o.detail) /\ Last'.value = Last.value
        /\ Last'.started = Last.started /\ Last'.menu = Last.menu
    BY <2>1, <2>2 DEF Interaction, Ready
  <2> QED BY <2>1, <2>2, <2>3 DEF Extended, Accrues, NoMenu
<1> QED BY <1>1, <1>2 DEF AddDelta

(* A gesture's being in the shadow depends on the gestures alone.          *)
LEMMA SettledSame ==
  ASSUME UNCHANGED gestures
  PROVE  /\ \A n : Settled(n)' <=> Settled(n)
         /\ \A n : Swallowed(n)' <=> Swallowed(n)
         /\ \A n : ReopenedBy(n)' <=> ReopenedBy(n)
  BY DEF Settled, Recordable, IsOpener, Shadowed, Swallowed, Absorbed, Repeated, Reopened, Since, ReopenedBy

-----------------------------------------------------------------------------
(* What a handler does, by the gesture the observation is of *)

(* Before an observation. *)
Before(o) ==
  /\ NativeWindow /\ IInv /\ FeedOrder /\ TakesFirst(o) /\ Serially(o) /\ Ready(o) /\ Contexts /\ Active
  /\ GestureInv /\ RecInv

(* The gesture before the observed one is the one heard last.              *)
LEMMA Previous ==
  ASSUME FeedOrder, GestureInv, NEW o, TakesFirst(o), Serially(o), Opening(o),
         NEW what, what # "dismiss", After(o.gesture, what)
  PROVE  Newest(o.gesture - 1)
<1> DEFINE h == o.gesture
<1>1. h - 1 \in DOMAIN gestures /\ gestures[h - 1].what = what /\ h \in DOMAIN gestures
  BY DEF After, TakesFirst
<1>2. h \in Nat /\ h - 1 \in Nat
  BY <1>1 DEF TakesFirst
<1>3. ~ Ahead(h - 1)
  <2> SUFFICES ASSUME NEW i \in DOMAIN Feed, Feed[i].gesture = h - 1 PROVE FALSE
    BY DEF Ahead
  <2>1. i = 1 \/ 1 < i
    BY DEF TakesFirst
  <2>2. Feed[1].gesture = h /\ 1 \in DOMAIN Feed
    BY DEF TakesFirst
  <2>3. 1 < i => h < Feed[i].gesture \/ h = Feed[i].gesture
    BY <2>2 DEF FeedOrder
  <2> QED BY <1>2, <2>1, <2>2, <2>3
<1>4. \A n \in DOMAIN gestures : Heard(n) => n < h
  BY DEF Serially
<1>5. \A n \in DOMAIN gestures : n \in Nat
  BY DEF TakesFirst
<1> QED BY <1>1, <1>2, <1>3, <1>4, <1>5 DEF Newest, Heard, Begun

(* What the user did, of what an observation says. *)
LEMMA ToldKinds ==
  ASSUME NEW o, Before(o)
  PROVE  LET g == gestures[o.gesture] IN
         /\ o.obj = g.obj /\ o.at = g.at /\ o.obj # NoObject /\ o.obj \in Objects
         /\ g.what \in DOMAIN KindsOf /\ Kind[o.obj] = KindsOf[g.what]
         /\ o.fw = "javafx" /\ o.gesture \in DOMAIN gestures /\ o.gesture \in Nat /\ o.at \in Nat
  BY ObjectsAssumption DEF Before, TakesFirst, Serially, Told, Tells, OnKind, Observation

(* A context that is too fresh is an opener that swallows.                 *)
LEMMA FreshContext ==
  ASSUME NEW o, Before(o), Opening(o)
  PROVE  /\ popup.owner # NoObject /\ ~ popup.committed /\ o.at - popup.since <= CorrWindow
            /\ gestures[o.gesture].what \in {"click", "right_click", "check", "open_selector"}
            => Swallowed(o.gesture)
         /\ MenuOpen /\ o.at - menu.since <= CorrWindow
            /\ gestures[o.gesture].what \in {"click", "right_click", "check", "open_selector"}
            => Swallowed(o.gesture)
<1> DEFINE h == o.gesture
<1>1. h \in DOMAIN gestures /\ DOMAIN gestures \subseteq Nat \ {0} /\ o.at = gestures[h].at
  <2>1. gestures \in Seq(MadeType)
    BY DEF Before, IInv, TypeOK, MadeType
  <2> QED BY <2>1, ToldKinds
<1>2. \A m \in DOMAIN gestures : Heard(m) => m \in 1 .. h - 1
  BY <1>1 DEF Before, Serially
<1>3. ASSUME popup.owner # NoObject, ~ popup.committed, o.at - popup.since <= CorrWindow,
             gestures[h].what \in {"click", "right_click", "check", "open_selector"}
      PROVE  Swallowed(h)
  <2>1. PICK m \in DOMAIN gestures :
          Heard(m) /\ gestures[m].what = "open_selector" /\ gestures[m].at = popup.since
    BY <1>3 DEF Before, RecInv, PopupInv
  <2> QED BY <1>1, <1>2, <1>3, <2>1 DEF Swallowed, IsOpener, Openers, Since
<1>4. ASSUME MenuOpen, o.at - menu.since <= CorrWindow,
             gestures[h].what \in {"click", "right_click", "check", "open_selector"}
      PROVE  Swallowed(h)
  <2>1. PICK m \in DOMAIN gestures :
          Heard(m) /\ gestures[m].what = "open_menu" /\ gestures[m].at = menu.since
    BY <1>4 DEF Before, RecInv, MenuInv
  <2> QED BY <1>1, <1>2, <1>4, <2>1 DEF Swallowed, IsOpener, Openers, Since
<1> QED BY <1>3, <1>4

What(o) == gestures[o.gesture].what

(* A click or a check is taken by the context it interrupts, or begins.    *)
LEMMA ClickSteps ==
  ASSUME NEW o, Before(o), o.type = "pointer", What(o) \in {"click", "right_click", "check"},
         ObservePointer(o)
  PROVE  \/ /\ UNCHANGED <<transcript, menu>> /\ popup' = NoPopup /\ Settled(o.gesture)
         \/ /\ Begin(Now(o.gesture), NoValue, o, NoMenu)
            /\ menu' = NoMenu /\ popup' = NoPopup
<1>0. Opening(o)
  BY DEF Opening, Opens
<1>1. /\ Kind[o.obj] \in {"button", "check"} /\ o.fw = "javafx" /\ o.obj # NoObject
      /\ popup.owner # NoObject => Kind[popup.owner] = "selector"
  BY ToldKinds DEF KindsOf, What, Before, RecInv, PopupInv
<1>2. o.detail = (IF What(o) = "right_click" THEN "secondary" ELSE "primary")
  BY DEF Before, Serially, Told, Tells, What
<1>3. ClickOf(o) = Now(o.gesture)
  BY <1>2 DEF ClickOf, Now, What, ActionOf, Expected
<1>4. Swallowed(o.gesture) => Settled(o.gesture)
  BY DEF Settled, Shadowed
<1>5. o.obj # popup.owner
  BY <1>1
<1>6. CASE IgnorePointer(o)
  BY <1>1, <1>5, <1>6 DEF IgnorePointer, TabHeader, WithinCommit
<1>7. CASE SelectInPopup(o)
  BY <1>1, <1>7 DEF SelectInPopup, Selection
<1>8. CASE CancelPopup(o)
  <2>1. popup.owner # NoObject /\ ~ popup.committed /\ o.at - popup.since <= CorrWindow
    BY <1>5, <1>8 DEF CancelPopup, MissesPopup
  <2> QED BY <1>0, <1>4, <1>8, <2>1, FreshContext DEF CancelPopup, What
<1>9. CASE ChooseFromMenu(o)
  BY <1>1, <1>9 DEF ChooseFromMenu
<1>10. CASE TraverseMenu(o)
  <2>1. MenuOpen /\ o.at - menu.since <= CorrWindow
    BY <1>1, <1>10 DEF TraverseMenu, MissesMenu
  <2> QED BY <1>0, <1>4, <1>10, <2>1, FreshContext DEF TraverseMenu, What
<1>11. CASE OpenMenu(o)
  BY <1>1, <1>11 DEF OpenMenu
<1>12. CASE OpenSelector(o)
  BY <1>1, <1>12 DEF OpenSelector
<1>13. CASE Click(o)
  BY <1>3, <1>13 DEF Click
<1> QED BY <1>6, <1>7, <1>8, <1>9, <1>10, <1>11, <1>12, <1>13 DEF ObservePointer

(* Opening a menu traverses the open one, or opens it.                     *)
LEMMA MenuSteps ==
  ASSUME NEW o, Before(o), o.type = "pointer", What(o) = "open_menu", ObservePointer(o)
  PROVE  \/ UNCHANGED <<transcript, menu>> /\ popup' = NoPopup /\ MenuOpen
         \/ OpenMenu(o)
<1>1. /\ Kind[o.obj] = "menu" /\ o.obj # NoObject
      /\ popup.owner # NoObject => Kind[popup.owner] = "selector"
  BY ToldKinds DEF KindsOf, What, Before, RecInv, PopupInv
<1>2. o.obj # popup.owner
  BY <1>1
<1>3. ~ IgnorePointer(o) /\ ~ SelectInPopup(o) /\ ~ CancelPopup(o)
  BY <1>1, <1>2 DEF IgnorePointer, TabHeader, WithinCommit, SelectInPopup, Selection, CancelPopup,
                    MissesPopup, MenuRelated
<1>4. ~ ChooseFromMenu(o) /\ ~ OpenSelector(o) /\ ~ Click(o)
  BY <1>1 DEF ChooseFromMenu, OpenSelector, Click
<1>5. TraverseMenu(o) => UNCHANGED <<transcript, menu>> /\ popup' = NoPopup /\ MenuOpen
  BY DEF TraverseMenu
<1> QED BY <1>3, <1>4, <1>5 DEF ObservePointer

(* Opening a selector: it is open, was just used, or in the way.           *)
LEMMA SelectorSteps ==
  ASSUME NEW o, Before(o), o.type = "pointer", What(o) = "open_selector", ObservePointer(o)
  PROVE  /\ UNCHANGED transcript
         /\ menu' = menu \/ menu' = NoMenu
         /\ \/ popup' = popup /\ popup.owner = o.obj
            \/ popup' = NoPopup /\ (Swallowed(o.gesture) \/ ReopenedBy(o.gesture))
            \/ popup' = [NoPopup EXCEPT !.owner = o.obj, !.fw = o.fw, !.since = o.at]
<1> DEFINE h == o.gesture
<1>0. Opening(o)
  BY DEF Opening, Opens
<1>1. Kind[o.obj] = "selector" /\ o.obj # NoObject
  BY ToldKinds DEF KindsOf, What
<1>2. o.detail = "primary" /\ o.value = NoValue
  BY DEF Before, Serially, Told, Tells, What
<1>3. CASE IgnorePointer(o)
  BY <1>1, <1>3 DEF IgnorePointer, TabHeader, WithinCommit, contexts
<1>4. CASE SelectInPopup(o)
  BY <1>2, <1>4 DEF SelectInPopup, Selection
<1>5. CASE CancelPopup(o)
  <2>1. CASE o.obj # popup.owner
    <3>1. popup.owner # NoObject /\ ~ popup.committed /\ o.at - popup.since <= CorrWindow
      BY <1>5, <2>1 DEF CancelPopup, MissesPopup
    <3> QED BY <1>0, <1>5, <3>1, FreshContext DEF CancelPopup, What
  <2>2. CASE o.obj = popup.owner
    <3>1. popup.owner # NoObject /\ ~ popup.committed
      BY <1>5 DEF CancelPopup, MissesPopup
    <3>2. PICK m \in DOMAIN gestures :
            Heard(m) /\ gestures[m].what = "open_selector" /\ Unpicked(m)
      BY <3>1 DEF Before, RecInv, PopupInv
    <3>3. m < h /\ m \in Nat /\ m >= 1 /\ h \in Nat /\ DOMAIN gestures = 1 .. Len(gestures) /\ h \in DOMAIN gestures
      <4>1. gestures \in Seq(MadeType)
        BY DEF Before, IInv, TypeOK, MadeType
      <4>2. m < h
        BY <1>0, <3>2 DEF Before, Serially
      <4> QED BY <4>1, <4>2, <3>2, ToldKinds
    <3>4. ASSUME NEW j \in m .. h PROVE gestures[j].what \notin Picks
      <4>1. CASE j = h
        BY <4>1 DEF What, Picks
      <4>2. CASE j # h
        <5>1. j \in DOMAIN gestures /\ j < h /\ j >= m
          BY <3>3, <4>2
        <5>2. CASE Heard(j)
          BY <3>2, <5>1, <5>2 DEF Unpicked
        <5>3. CASE gestures[j].what = "dismiss"
          BY <5>3 DEF Picks
        <5>4. CASE Ahead(j)
          <6>1. PICK i \in DOMAIN Feed : Feed[i].gesture = j
            BY <5>4 DEF Ahead
          <6>2. i = 1 \/ 1 < i
            BY DEF Before, TakesFirst
          <6>3. Feed[1].gesture = h /\ 1 \in DOMAIN Feed
            BY DEF Before, TakesFirst
          <6>4. 1 < i => h < Feed[i].gesture \/ h = Feed[i].gesture
            BY <6>3 DEF Before, FeedOrder
          <6> QED BY <3>3, <5>1, <6>1, <6>2, <6>3, <6>4
        <5> QED BY <5>1, <5>2, <5>3, <5>4 DEF Heard, Begun
      <4> QED BY <4>1, <4>2
    <3>5. ReopenedBy(h)
      <4>1. m \in 1 .. h - 1
        BY <3>3
      <4> QED BY <3>2, <3>4, <4>1 DEF ReopenedBy
    <3> QED BY <1>5, <3>5 DEF CancelPopup
  <2> QED BY <2>1, <2>2
<1>6. CASE ChooseFromMenu(o)
  BY <1>1, <1>6 DEF ChooseFromMenu
<1>7. CASE TraverseMenu(o)
  <2>1. MenuOpen /\ o.at - menu.since <= CorrWindow
    BY <1>1, <1>7 DEF TraverseMenu, MissesMenu
  <2> QED BY <1>0, <1>7, <2>1, FreshContext DEF TraverseMenu, What
<1>8. CASE OpenMenu(o)
  BY <1>1, <1>8 DEF OpenMenu
<1>9. CASE OpenSelector(o)
  BY <1>9 DEF OpenSelector
<1>10. CASE Click(o)
  BY <1>1, <1>2, <1>10 DEF Click
<1> QED BY <1>3, <1>4, <1>5, <1>6, <1>7, <1>8, <1>9, <1>10 DEF ObservePointer

(* A choice is made in the open menu.                                      *)
LEMMA ChooseSteps ==
  ASSUME NEW o, Before(o), o.type = "pointer", What(o) = "choose", ObservePointer(o)
  PROVE  /\ MenuOpen /\ Begin("click", NoValue, o, menu)
         /\ menu' = NoMenu /\ popup' = NoPopup
<1>0. Opening(o)
  BY DEF Opening, Opens
<1>1. /\ Kind[o.obj] = "item" /\ o.fw = "javafx" /\ o.obj # NoObject
      /\ popup.owner # NoObject => Kind[popup.owner] = "selector"
  BY ToldKinds DEF KindsOf, What, Before, RecInv, PopupInv
<1>2. o.obj # popup.owner
  BY <1>1
<1>3. MenuOpen
  <2>1. After(o.gesture, "open_menu")
    BY ToldKinds DEF Before, GestureInv, What
  <2>2. Newest(o.gesture - 1)
    BY <1>0, <2>1, Previous DEF Before
  <2>3. o.gesture - 1 \in DOMAIN gestures /\ gestures[o.gesture - 1].what = "open_menu"
    BY <2>1 DEF After
  <2> QED BY <2>2, <2>3 DEF Before, RecInv, OpenInv
<1>4. o.detail = "primary"
  BY DEF Before, Serially, Told, Tells, What
<1>5. ClickOf(o) = "click"
  BY <1>4 DEF ClickOf
<1>6. ~ IgnorePointer(o) /\ ~ SelectInPopup(o) /\ ~ CancelPopup(o)
  BY <1>1, <1>2 DEF IgnorePointer, TabHeader, WithinCommit, SelectInPopup, Selection, CancelPopup,
                    MissesPopup, MenuRelated
<1>7. ~ TraverseMenu(o) /\ ~ OpenMenu(o) /\ ~ OpenSelector(o) /\ ~ Click(o)
  BY <1>1, <1>3 DEF TraverseMenu, MissesMenu, MenuRelated, OpenMenu, OpenSelector, Click, PassesMenu
<1> QED BY <1>3, <1>5, <1>6, <1>7 DEF ObservePointer, ChooseFromMenu

(* An item of a selector is picked by a click.                             *)
LEMMA PickSteps ==
  ASSUME NEW o, Before(o), o.type = "pointer", What(o) = "pick", ObservePointer(o)
  PROVE  Commit(o.value, o) /\ o.value = gestures[o.gesture].value
<1>1. /\ Kind[o.obj] = "selector" /\ o.obj # NoObject
  BY ToldKinds DEF KindsOf, What
<1>2. o.value = gestures[o.gesture].value /\ o.value # NoValue
  BY ToldKinds DEF Before, Serially, Told, Tells, What, GestureInv, Picks
<1>3. Selection(o)
  BY <1>1, <1>2 DEF Selection
<1>4. ~ TabHeader(o)
  BY <1>1 DEF TabHeader
<1> QED BY <1>1, <1>2, <1>3, <1>4
        DEF ObservePointer, IgnorePointer, SelectInPopup, CancelPopup, ChooseFromMenu, TraverseMenu,
            OpenMenu, OpenSelector, Click, PassesMenu, PassesPopup

(* A selection commits, unless it is the same item again.                  *)
CommitsTo(o) ==
  popup' = [owner |-> o.obj, committed |-> TRUE, value |-> o.value, at |-> o.at,
            fw |-> IF Continues(o) THEN popup.fw ELSE o.fw,
            since |-> IF Continues(o) THEN popup.since ELSE o.at]

(* A repeated selection changes nothing; another one begins an             *)
(* interaction.                                                            *)
LEMMA CommitSteps ==
  ASSUME NEW o, Before(o), Opening(o), What(o) \in Picks, o.value = gestures[o.gesture].value,
         Commit(o.value, o)
  PROVE  /\ UNCHANGED menu
         /\ \/ /\ UNCHANGED <<transcript, popup>> /\ Settled(o.gesture)
               /\ popup.committed /\ popup.owner = o.obj /\ popup.value = o.value
               /\ o.at - popup.at <= DupWindow
            \/ CommitsTo(o) /\ Begin("select_item", o.value, o, NoMenu)
<1> DEFINE h == o.gesture
<1>1. CASE WithinCommit(o) /\ popup.value = o.value /\ UNCHANGED <<transcript, popup>>
  <2>1. popup.committed /\ popup.owner = o.obj /\ o.at - popup.at <= DupWindow
    BY <1>1 DEF WithinCommit
  <2>2. PICK m \in DOMAIN gestures :
          /\ Heard(m) /\ gestures[m].what \in Picks /\ gestures[m].at = popup.at
          /\ gestures[m].obj = popup.owner /\ gestures[m].value = popup.value
    BY <2>1 DEF Before, RecInv, PopupInv
  <2>3. m \in 1 .. h - 1
    <3>1. gestures \in Seq(MadeType)
      BY DEF Before, IInv, TypeOK, MadeType
    <3>2. m < h
      BY <2>2 DEF Before, Serially
    <3> QED BY <2>2, <3>1, <3>2, ToldKinds
  <2>4. Repeated(h)
    BY <1>1, <2>1, <2>2, <2>3, ToldKinds DEF Repeated, Since, What
  <2>5. Settled(h)
    BY <2>4 DEF Settled, Shadowed
  <2> QED BY <1>1, <2>1, <2>5 DEF Commit
<1>2. CASE CommitsTo(o) /\ Begin("select_item", o.value, o, NoMenu)
  BY <1>2 DEF Commit
<1> QED BY <1>1, <1>2 DEF Commit, CommitsTo

(* What a half reported gesture still needs is there.                      *)
LEMMA HalfReported ==
  ASSUME NEW o, Before(o), ~ Opening(o)
  PROVE  /\ ~ Settled(o.gesture) => pending # <<>> /\ o.gesture \in Last.of /\ SameLogicalTarget(o) /\ Holding(o.gesture)
         /\ What(o) = "choose" => SameLogicalTarget(o)
         /\ What(o) = "pick" =>
              /\ popup.committed /\ popup.owner = o.obj /\ popup.value = gestures[o.gesture].value
              /\ o.at - popup.at <= DupWindow
<1>1. Underway(o.gesture) /\ o.gesture \in DOMAIN gestures
  BY ToldKinds DEF Before, Serially
<1>2. ~ Settled(o.gesture) => /\ pending # <<>> /\ o.gesture \in Last.of
                              /\ Filed(o.gesture) \/ Holding(o.gesture)
  BY <1>1 DEF Before, RecInv, KeptInv, Underway
<1>3. ~ Settled(o.gesture) => Holding(o.gesture)
  BY <1>2 DEF Filed
<1> QED BY <1>1, <1>2, <1>3, ToldKinds DEF Holding, Fits, SameLogicalTarget, Before, RecInv, PopupInv, ItemInv, What

(* What a state change does, by the gesture that made it.                  *)
LEMMA StateSteps ==
  ASSUME NEW o, Before(o), o.type = "state", ObserveState(o)
  PROVE  /\ UNCHANGED menu
         /\ \/ What(o) = "check" /\ AddDelta(o) /\ UNCHANGED popup
            \/ What(o) = "pick" /\ UNCHANGED <<transcript, popup>>
            \/ What(o) = "pick_by_key" /\ popup.owner = o.obj /\ Commit(o.value, o)
            \/ What(o) = "pick_by_key" /\ popup.owner = NoObject /\ Settled(o.gesture) /\ AddDelta(o) /\ UNCHANGED popup
<1> DEFINE h == o.gesture
<1>1. \/ What(o) = "check" /\ o.detail = "selected"
      \/ What(o) \in Picks /\ o.detail = "value" /\ o.value = gestures[h].value
  BY DEF Before, Serially, Told, Tells, What
<1>2. CASE What(o) = "check"
  BY <1>1, <1>2 DEF ObserveState, Picks, contexts
<1>3. CASE What(o) = "pick"
  <2>1. ~ Opening(o)
    BY <1>3 DEF Opening, Opens, What
  <2>2. WithinCommit(o) /\ popup.value = o.value
    BY <1>1, <1>3, <2>1, HalfReported DEF WithinCommit
  <2>3. Commit(o.value, o)
    BY <1>1, <1>3, <2>2 DEF ObserveState, WithinCommit
  <2> QED BY <1>3, <2>2, <2>3 DEF Commit
<1>4. CASE What(o) = "pick_by_key"
  <2>1. Opening(o)
    BY <1>4 DEF Opening, Opens, What
  <2>2. o.detail = "value"
    BY <1>1, <1>4
  <2>3. CASE popup.owner = o.obj
    <3>1. Commit(o.value, o)
      BY <2>2, <2>3 DEF ObserveState
    <3> QED BY <1>4, <2>3, <3>1 DEF Commit
  <2>4. CASE popup.owner # o.obj
    <3>1. AddDelta(o) /\ UNCHANGED contexts
      BY <2>2, <2>4 DEF ObserveState
    <3>2. After(h, "open_selector") /\ gestures[h - 1].obj = gestures[h].obj
      BY <1>4, ToldKinds DEF Before, GestureInv, What, Picks
    <3>3. Newest(h - 1) /\ h - 1 \in DOMAIN gestures /\ gestures[h - 1].what = "open_selector"
      BY <2>1, <3>2, Previous DEF Before, After
    <3>4. popup.owner = NoObject /\ (Swallowed(h - 1) \/ ReopenedBy(h - 1))
      BY <2>4, <3>2, <3>3, ToldKinds DEF Before, RecInv, OpenInv
    <3>5. h - 1 \in 1 .. h - 1 /\ h \in Nat
      <4>1. gestures \in Seq(MadeType)
        BY DEF Before, IInv, TypeOK, MadeType
      <4> QED BY <3>3, <4>1, ToldKinds
    <3>6. Settled(h)
      <4>1. CASE Swallowed(h - 1)
        BY <1>4, <3>3, <3>5, <4>1 DEF Settled, Shadowed, What
      <4>2. CASE ReopenedBy(h - 1)
        <5>1. PICK m \in 1 .. h - 1 - 1 : gestures[m].what = "open_selector" /\ \A j \in m .. h - 1 : gestures[j].what \notin Picks
          BY <4>2 DEF ReopenedBy
        <5>2. m \in 1 .. h - 1 /\ m < h - 1
          BY <3>5, <5>1
        <5>3. Reopened(h)
          BY <3>3, <3>5, <5>1, <5>2 DEF Reopened
        <5> QED BY <1>4, <5>3 DEF Settled, Shadowed, What
      <4> QED BY <3>4, <4>1, <4>2
    <3> QED BY <1>4, <3>1, <3>4, <3>6 DEF contexts
  <2> QED BY <2>3, <2>4
<1> QED BY <1>1, <1>2, <1>3, <1>4 DEF Picks

(* An action event is an echo, merges, or begins what is settled.          *)
LEMMA ActionSteps ==
  ASSUME NEW o, Before(o), o.type = "action", ObserveAction(o)
  PROVE  /\ UNCHANGED popup /\ menu' \in {menu, NoMenu}
         /\ \/ UNCHANGED transcript
            \/ \E context \in {menu, NoMenu} : SameLogicalTarget(o) /\ MergeAction(o, context)
            \/ \E context \in {menu, NoMenu} :
                 /\ Begin("activate", NoValue, o, context)
                 /\ Settled(o.gesture) /\ What(o) # "choose"
<1>1. o.detail = "activate"
  BY DEF Before, Serially, Told, Tells
<1>2. ~ Opening(o)
  BY DEF Opening, Opens
<1>3. CASE UNCHANGED <<transcript, contexts>>
  BY <1>3 DEF contexts
<1>4. CASE ~ UNCHANGED <<transcript, contexts>>
  <2>1. UNCHANGED popup /\ menu' \in {menu, NoMenu}
    BY <1>4 DEF ObserveAction
  <2>2. \E context \in {menu, NoMenu} :
          \/ SameLogicalTarget(o) /\ MergeAction(o, context)
          \/ ~ SameLogicalTarget(o) /\ Begin("activate", NoValue, o, context)
    BY <1>1, <1>4 DEF ObserveAction
  <2> QED BY <1>2, <2>1, <2>2, HalfReported
<1> QED BY <1>3, <1>4

-----------------------------------------------------------------------------
(* The outcomes of an observation *)

NewAction(o) ==
  IF o.type = "state" /\ What(o) = "check" THEN Promoted(Last.action, "selected") ELSE Last.action

ChosenFrom(o, context) == Opening(o) /\ What(o) = "choose" => context = menu /\ MenuOpen

(* The transcript is left alone.                                           *)
Idle(o) ==
  /\ UNCHANGED transcript
  /\ Opening(o) => Settled(o.gesture) /\ What(o) # "choose"
  /\ o.type = "state" /\ What(o) = "check" => ~ SameLogicalTarget(o)

(* The pending interaction takes the observation in.                       *)
Extends(o, context) ==
  /\ Extended(o, NewAction(o), context) /\ ChosenFrom(o, context)
  /\ Opening(o) =>
       \/ Settled(o.gesture) /\ What(o) = "pick_by_key"
       \/ Last.action = Now(o.gesture) /\ (What(o) \in Picks => Last.value = gestures[o.gesture].value)

(* The observation founds an interaction of its own.                       *)
Founds(o, context) ==
  /\ \E action, value :
       /\ Opened(o, action, value, context)
       /\ Opening(o) => action = Now(o.gesture) /\ (What(o) \in Picks => value = gestures[o.gesture].value)
       /\ ~ Opening(o) => action = "activate"
  /\ ChosenFrom(o, context)
  /\ ~ Opening(o) => Settled(o.gesture) /\ What(o) # "choose"

(* A menu takes the pending interaction for its opener.                    *)
Takes(o) ==
  /\ What(o) = "open_menu" /\ Absorbs(o)
  /\ pending' = <<>> /\ UNCHANGED interactions /\ menu'.absorbed = Last.of

(* What an observation can do to the transcript.                           *)
Outcome(o) ==
  \/ Takes(o)
  \/ /\ menu'.absorbed \subseteq menu.absorbed
     /\ \/ Idle(o)
        \/ \E context \in {menu, NoMenu} : Extends(o, context) \/ Founds(o, context)

(* To begin is to extend or to found.                                      *)
LEMMA BeginOutcome ==
  ASSUME NEW o, Before(o), Opening(o), NEW value, NEW context \in {menu, NoMenu},
         Begin(Now(o.gesture), value, o, context),
         What(o) \in {"click", "right_click", "check", "choose", "pick", "pick_by_key"},
         What(o) \in Picks => value = gestures[o.gesture].value,
         ChosenFrom(o, context), menu'.absorbed \subseteq menu.absorbed
  PROVE  Outcome(o)
<1>1. context \in Context
  BY NoMenuIsContext DEF Before, Contexts, Context
<1>2. Now(o.gesture) \in {"click", "right_click", "select_item"}
      /\ (What(o) \in Picks => Now(o.gesture) = "select_item")
  BY DEF Now, ActionOf, Expected, What, Picks
<1>3. Ready(o)
  BY DEF Before
<1>4. \/ Correlates(Now(o.gesture), value, o) /\ Extended(o, Last.action, context)
      \/ ~ Correlates(Now(o.gesture), value, o) /\ Opened(o, Now(o.gesture), value, context)
  BY <1>1, <1>2, <1>3, BeginNatively
<1>5. CASE Correlates(Now(o.gesture), value, o) /\ Extended(o, Last.action, context)
  <2>1. Last.action = Now(o.gesture) /\ (What(o) \in Picks => Last.value = gestures[o.gesture].value)
    BY <1>2, <1>5 DEF Correlates
  <2>2. ~ (o.type = "state" /\ What(o) = "check")
    BY DEF Opening, Opens, What
  <2>3. Extends(o, context)
    BY <1>5, <2>1, <2>2 DEF Extends, NewAction
  <2> QED BY <2>3 DEF Outcome
<1>6. CASE Opened(o, Now(o.gesture), value, context)
  <2>1. Founds(o, context)
    BY <1>6 DEF Founds
  <2> QED BY <2>1 DEF Outcome
<1> QED BY <1>4, <1>5, <1>6

(* A selection is idle, extends or founds.                                 *)
LEMMA CommitOutcome ==
  ASSUME NEW o, Before(o), Opening(o), What(o) \in Picks, o.value = gestures[o.gesture].value,
         Commit(o.value, o)
  PROVE  Outcome(o)
<1>1. UNCHANGED menu
  BY CommitSteps
<1>2. Now(o.gesture) = "select_item"
  BY DEF Now, ActionOf, Expected, What, Picks
<1>3. What(o) # "choose" /\ What(o) # "check" /\ What(o) \in {"pick", "pick_by_key"}
  BY DEF Picks
<1>4. CASE UNCHANGED <<transcript, popup>> /\ Settled(o.gesture)
  BY <1>1, <1>3, <1>4 DEF Outcome, Idle
<1>5. CASE Begin("select_item", o.value, o, NoMenu)
  <2>1. ChosenFrom(o, NoMenu)
    BY <1>3 DEF ChosenFrom
  <2> QED BY <1>1, <1>2, <1>3, <1>5, <2>1, BeginOutcome
<1> QED BY <1>4, <1>5, CommitSteps

(* The outcomes of a pointer.                                              *)
LEMMA PointerOutcome ==
  ASSUME NEW o, Before(o), o.type = "pointer", ObservePointer(o)
  PROVE  Outcome(o)
<1>0. Opening(o)
  BY DEF Opening, Opens
<1>1. What(o) \in DOMAIN KindsOf /\ What(o) # "pick_by_key"
  BY ToldKinds DEF What, Before, Serially, Told, Tells
<1>2. ~ Recordable(o.gesture) => Settled(o.gesture)
  BY DEF Settled
<1>3. NoMenu.absorbed = {} /\ NoMenu.absorbed \subseteq menu.absorbed
  BY DEF NoMenu
<1>4. CASE What(o) \in {"click", "right_click", "check"}
  <2>1. CASE UNCHANGED <<transcript, menu>> /\ Settled(o.gesture)
    BY <1>0, <1>4, <2>1 DEF Outcome, Idle
  <2>2. CASE Begin(Now(o.gesture), NoValue, o, NoMenu) /\ menu' = NoMenu
    <3>1. ChosenFrom(o, NoMenu) /\ What(o) \notin Picks
      BY <1>4 DEF ChosenFrom, Picks
    <3> QED BY <1>0, <1>3, <1>4, <2>2, <3>1, BeginOutcome
  <2> QED BY <1>4, <2>1, <2>2, ClickSteps
<1>5. CASE What(o) = "open_menu"
  <2>1. Settled(o.gesture)
    BY <1>2, <1>5 DEF Recordable, IsOpener, Openers, What
  <2>2. CASE UNCHANGED <<transcript, menu>>
    BY <1>5, <2>1, <2>2 DEF Outcome, Idle
  <2>3. CASE OpenMenu(o)
    <3>1. CASE Absorbs(o) /\ pending' = <<>> /\ menu' = [owner |-> o.obj, since |-> o.at, absorbed |-> Last.of]
      BY <1>5, <2>3, <3>1 DEF Outcome, Takes, OpenMenu
    <3>2. CASE UNCHANGED pending /\ menu' = [owner |-> o.obj, since |-> o.at, absorbed |-> {}]
      BY <1>5, <2>1, <2>3, <3>2 DEF Outcome, Idle, OpenMenu, transcript
    <3> QED BY <2>3, <3>1, <3>2 DEF OpenMenu
  <2> QED BY <1>5, <2>2, <2>3, MenuSteps
<1>6. CASE What(o) = "open_selector"
  <2>1. Settled(o.gesture)
    BY <1>2, <1>6 DEF Recordable, IsOpener, Openers, What
  <2> QED BY <1>3, <1>6, <2>1, SelectorSteps DEF Outcome, Idle
<1>7. CASE What(o) = "choose"
  <2>1. MenuOpen /\ Begin("click", NoValue, o, menu) /\ menu' = NoMenu
    BY <1>7, ChooseSteps
  <2>2. Now(o.gesture) = "click" /\ What(o) \notin Picks
    BY <1>7 DEF Now, ActionOf, Expected, What, Picks
  <2>3. ChosenFrom(o, menu)
    BY <2>1 DEF ChosenFrom
  <2> QED BY <1>0, <1>3, <1>7, <2>1, <2>2, <2>3, BeginOutcome
<1>8. CASE What(o) = "pick"
  BY <1>0, <1>8, PickSteps, CommitOutcome DEF Picks
<1> QED BY <1>1, <1>4, <1>5, <1>6, <1>7, <1>8 DEF KindsOf

(* The outcomes of a state change.                                         *)
LEMMA StateOutcome ==
  ASSUME NEW o, Before(o), o.type = "state", ObserveState(o)
  PROVE  Outcome(o)
<1>1. UNCHANGED menu /\ Ready(o)
  BY StateSteps DEF Before
<1>2. \/ What(o) = "check" /\ o.detail = "selected"
      \/ What(o) \in Picks /\ o.detail = "value" /\ o.value = gestures[o.gesture].value
  BY DEF Before, Serially, Told, Tells, What
<1>3. Opening(o) <=> What(o) = "pick_by_key"
  BY DEF Opening, Opens, What
<1>4. CASE What(o) = "check" /\ AddDelta(o)
  <2>1. o.detail = "selected" /\ ~ Opening(o)
    BY <1>2, <1>3, <1>4 DEF Picks
  <2>2. CASE ~ SameLogicalTarget(o) /\ UNCHANGED transcript
    BY <1>1, <2>1, <2>2 DEF Outcome, Idle
  <2>3. CASE Extended(o, Promoted(Last.action, o.detail), NoMenu)
    <3>1. Extends(o, NoMenu)
      BY <1>4, <2>1, <2>3 DEF Extends, NewAction, ChosenFrom
    <3> QED BY <1>1, <3>1 DEF Outcome
  <2> QED BY <1>1, <1>4, <2>2, <2>3, AddDeltaNatively
<1>5. CASE What(o) = "pick" /\ UNCHANGED transcript
  BY <1>1, <1>3, <1>5 DEF Outcome, Idle
<1>6. CASE What(o) = "pick_by_key" /\ Commit(o.value, o)
  BY <1>2, <1>3, <1>6, CommitOutcome DEF Picks
<1>7. CASE What(o) = "pick_by_key" /\ Settled(o.gesture) /\ AddDelta(o)
  <2>1. o.detail = "value"
    BY <1>2, <1>7
  <2>2. CASE UNCHANGED transcript
    BY <1>1, <1>7, <2>2 DEF Outcome, Idle
  <2>3. CASE Extended(o, Promoted(Last.action, o.detail), NoMenu)
    <3>1. Extends(o, NoMenu)
      BY <1>7, <2>1, <2>3 DEF Extends, NewAction, ChosenFrom, Promoted
    <3> QED BY <1>1, <3>1 DEF Outcome
  <2> QED BY <1>1, <1>7, <2>2, <2>3, AddDeltaNatively
<1> QED BY <1>4, <1>5, <1>6, <1>7, StateSteps

(* The outcomes of an action event.                                        *)
LEMMA ActionOutcome ==
  ASSUME NEW o, Before(o), o.type = "action", ObserveAction(o)
  PROVE  Outcome(o)
<1>1. Ready(o) /\ ~ Opening(o) /\ o.detail = "activate"
  BY DEF Before, Opening, Opens, Serially, Told, Tells
<1>2. menu'.absorbed \subseteq menu.absorbed
  BY ActionSteps DEF NoMenu
<1>3. menu \in Context /\ NoMenu \in Context
  BY NoMenuIsContext DEF Before, Contexts, Context
<1>4. CASE UNCHANGED transcript
  BY <1>1, <1>2, <1>4 DEF Outcome, Idle
<1>5. CASE \E context \in {menu, NoMenu} : SameLogicalTarget(o) /\ MergeAction(o, context)
  <2>1. PICK context \in {menu, NoMenu} : SameLogicalTarget(o) /\ MergeAction(o, context)
    BY <1>5
  <2>2. Extended(o, Last.action, context)
    BY <1>1, <1>3, <2>1, MergeNatively
  <2>3. Extends(o, context)
    BY <1>1, <2>2 DEF Extends, NewAction, ChosenFrom
  <2> QED BY <1>2, <2>3 DEF Outcome
<1>6. CASE \E context \in {menu, NoMenu} :
             Begin("activate", NoValue, o, context) /\ Settled(o.gesture) /\ What(o) # "choose"
  <2>1. PICK context \in {menu, NoMenu} :
             Begin("activate", NoValue, o, context) /\ Settled(o.gesture) /\ What(o) # "choose"
    BY <1>6
  <2>2. ~ Correlates("activate", NoValue, o)
    BY DEF Correlates
  <2>3. Opened(o, "activate", NoValue, context)
    BY <1>1, <1>3, <2>1, <2>2, BeginNatively
  <2>4. Founds(o, context)
    BY <1>1, <2>1, <2>3 DEF Founds, ChosenFrom
  <2> QED BY <1>2, <2>4 DEF Outcome
<1> QED BY <1>4, <1>5, <1>6, ActionSteps

-----------------------------------------------------------------------------
(* Every gesture is kept *)

(* The pending interaction becomes the last recorded one.                  *)
LEMMA Appended ==
  ASSUME Transcript, interactions' = interactions \o pending
  PROVE  /\ pending = <<>> => interactions' = interactions
         /\ pending # <<>> =>
              /\ Len(interactions) \in Nat /\ DOMAIN interactions = 1 .. Len(interactions)
              /\ DOMAIN interactions' = 1 .. Len(interactions) + 1
              /\ \A i \in DOMAIN interactions : interactions'[i] = interactions[i]
              /\ interactions'[Len(interactions) + 1] = Last
  BY DEF Transcript, Last

(* The parts of KeptInv, of one gesture. *)
Kept(n) ==
  /\ Ahead(n) => Unseen(n)
  /\ Begun(n) /\ ~ Settled(n) => Filed(n) \/ Holding(n)
  /\ Underway(n) /\ ~ Settled(n) => pending # <<>> /\ n \in Last.of

(* For another gesture than the observed one the feed is as it was.        *)
LEMMA OthersAsBefore ==
  ASSUME NEW o, Before(o), NEW n \in DOMAIN gestures, n # o.gesture
  PROVE  /\ Ahead(n)' => Unseen(n)
         /\ Begun(n)' /\ ~ Settled(n)' => /\ Filed(n) \/ Holding(n)
                                          /\ ~ StateAhead(n) /\ n \notin menu.absorbed
         /\ ~ Underway(n)' /\ (Settled(n)' <=> Settled(n)) /\ gestures'[n] = gestures[n]
<1>1. Kept(n) /\ UNCHANGED gestures
  BY DEF Before, RecInv, KeptInv, Kept, TakesFirst
<1>2. /\ Ahead(n)' <=> Ahead(n)
      /\ Begun(n)' <=> Begun(n)
      /\ ~ Underway(n)'
      /\ Begun(n) => ~ StateAhead(n)
  BY DEF Before, Serially
<1>3. Settled(n)' <=> Settled(n)
  BY <1>1, SettledSame
<1>4. n \in menu.absorbed => Settled(n)
  BY DEF Before, RecInv, MenuInv
<1> QED BY <1>1, <1>2, <1>3, <1>4 DEF Kept

(* A gesture is kept when the transcript is left alone.                    *)
LEMMA KeptIdle ==
  ASSUME NEW o, Before(o), Idle(o), menu'.absorbed \subseteq menu.absorbed, NEW n \in DOMAIN gestures
  PROVE  Kept(n)'
<1> DEFINE h == o.gesture
<1>1. UNCHANGED <<interactions, pending, gestures>> /\ Last' = Last
  BY DEF Idle, transcript, Before, TakesFirst, Last
<1>2. CASE n # h
  <2>1. Ahead(n)' => Unseen(n)'
    BY <1>1, <1>2, OthersAsBefore DEF Unseen
  <2>2. Filed(n) => Filed(n)'
    BY <1>1 DEF Filed, Right, Fits, ActionOf
  <2>3. Holding(n) /\ ~ StateAhead(n) => Holding(n)'
    BY <1>1 DEF Holding, Fits, ActionOf
  <2> QED BY <1>2, <2>1, <2>2, <2>3, OthersAsBefore DEF Kept
<1>3. CASE n = h
  <2>1. ~ Ahead(n)'
    BY <1>3 DEF Before, Serially
  <2>2. Settled(n)' <=> Settled(n)
    BY <1>1, SettledSame
  <2>3. CASE Settled(n)
    BY <2>1, <2>2, <2>3 DEF Kept
  <2>4. CASE ~ Settled(n)
    <3>1. ~ Opening(o)
      BY <1>3, <2>4 DEF Idle
    <3>2. pending # <<>> /\ n \in Last.of /\ SameLogicalTarget(o) /\ Holding(n)
      BY <1>3, <2>4, <3>1, HalfReported
    <3>3. o.type = "action" \/ What(o) # "check"
      BY <3>1, <3>2 DEF Idle, Opening, Opens, Before, Serially, Told, Tells
    <3>4. Last.action = ActionOf(n)
      BY <1>3, <3>2, <3>3 DEF Holding, Before, Serially, What
    <3>5. Holding(n)'
      BY <1>1, <3>2, <3>4 DEF Holding, Fits, ActionOf
    <3> QED BY <1>1, <2>1, <3>2, <3>5 DEF Kept
  <2> QED BY <2>3, <2>4
<1> QED BY <1>2, <1>3

(* A gesture is kept when the pending interaction grows.                   *)
LEMMA KeptExtends ==
  ASSUME NEW o, Before(o), NEW context \in {menu, NoMenu}, Extends(o, context),
         menu'.absorbed \subseteq menu.absorbed, NEW n \in DOMAIN gestures
  PROVE  Kept(n)'
<1> DEFINE h == o.gesture
<1>1. /\ UNCHANGED <<interactions, gestures>> /\ pending # <<>> /\ pending' # <<>>
      /\ Last'.obj = Last.obj /\ Last'.value = Last.value /\ Last'.action = NewAction(o) /\ Last.obj = o.obj
      /\ Last.of \cup {h} \subseteq Last'.of
      /\ Last'.of \subseteq Last.of \cup {h} \cup menu.absorbed
  BY DEF Extends, Extended, Accrues, Before, TakesFirst, NoMenu
<1>2. CASE n # h
  <2>1. Ahead(n)' => Unseen(n)'
    BY <1>1, <1>2, OthersAsBefore DEF Unseen
  <2>2. ASSUME Begun(n)', ~ Settled(n)' PROVE Filed(n)' \/ Holding(n)'
    <3>1. (Filed(n) \/ Holding(n)) /\ ~ StateAhead(n) /\ n \notin menu.absorbed
      BY <1>2, <2>2, OthersAsBefore
    <3>2. CASE Filed(n)
      BY <1>1, <1>2, <3>1, <3>2 DEF Filed, Right, Fits, ActionOf
    <3>3. CASE Holding(n)
      <4>1. Last.action = ActionOf(n) /\ Fits(n, Last) /\ n \in Last.of
        BY <3>1, <3>3 DEF Holding
      <4>2. NewAction(o) = Last.action
        <5> SUFFICES ASSUME o.type = "state", What(o) = "check" PROVE Promoted(Last.action, "selected") = Last.action
          BY DEF NewAction
        <5>1. Kind[Last.obj] = "check"
          BY <1>1, ToldKinds DEF KindsOf, What
        <5>2. gestures[n].what = "check"
          <6>1. Recordable(n) /\ OnKind(gestures[n])
            BY <2>2, OthersAsBefore, <1>2 DEF Settled, Before, GestureInv
          <6>2. Kind[gestures[n].obj] = "check"
            BY <4>1, <5>1 DEF Fits
          <6> QED BY <6>1, <6>2 DEF OnKind, KindsOf, Recordable
        <5>3. Last.action = "select"
          BY <4>1, <5>2 DEF ActionOf, Expected
        <5> QED BY <5>3 DEF Promoted
      <4> QED BY <1>1, <3>3, <4>1, <4>2 DEF Holding, Fits, ActionOf
    <3> QED BY <3>1, <3>2, <3>3
  <2> QED BY <1>2, <2>1, <2>2, OthersAsBefore DEF Kept
<1>3. CASE n = h
  <2>1. ~ Ahead(n)'
    BY <1>3 DEF Before, Serially
  <2>2. Settled(n)' <=> Settled(n)
    BY <1>1, SettledSame
  <2>3. CASE Settled(n)
    BY <2>1, <2>2, <2>3 DEF Kept
  <2>4. CASE ~ Settled(n) /\ ~ Opening(o)
    <3>1. pending # <<>> /\ n \in Last.of /\ SameLogicalTarget(o) /\ Holding(n)
      BY <1>3, <2>4, HalfReported
    <3>2. Last'.action = ActionOf(n)
      <4>1. CASE o.type = "state" /\ What(o) = "check"
        <5>1. Last.action \in {"click", "select"} /\ ActionOf(n) = "select"
          BY <1>3, <3>1, <4>1 DEF Holding, ActionOf, Expected, What
        <5> QED BY <1>1, <4>1, <5>1 DEF NewAction, Promoted
      <4>2. CASE o.type = "action" \/ What(o) # "check"
        BY <1>1, <1>3, <3>1, <4>2 DEF Holding, NewAction, Before, Serially, What
      <4> QED BY <2>4, <4>1, <4>2 DEF Opening, Opens, Before, Serially, Told, Tells
    <3> QED BY <1>1, <2>1, <3>1, <3>2 DEF Kept, Holding, Fits, ActionOf
  <2>5. CASE ~ Settled(n) /\ Opening(o)
    <3>1. Last.action = Now(n) /\ (What(o) \in Picks => Last.value = gestures[n].value)
      BY <1>3, <2>5 DEF Extends
    <3>2. What(o) # "check"
      <4> SUFFICES ASSUME What(o) = "check" PROVE FALSE
        OBVIOUS
      <4>1. Kind[Last.obj] = "check" /\ Last.action = "click"
        BY <1>1, <1>3, <3>1, ToldKinds DEF KindsOf, What, Now
      <4>2. PICK m \in DOMAIN gestures : Begun(m) /\ StateAhead(m)
        BY <1>1, <4>1 DEF Before, RecInv, PendingInv
      <4>3. m = h /\ Ahead(h)
        BY <2>5, <4>2 DEF Before, Serially
      <4> QED BY <4>2, <4>3 DEF Begun
    <3>3. Last'.action = ActionOf(n)
      BY <1>1, <1>3, <3>1, <3>2 DEF NewAction, Now, What
    <3>4. Unseen(n)
      BY <1>3, <2>5 DEF Before, Serially, RecInv, KeptInv
    <3>5. Fits(n, Last')
      BY <1>1, <1>3, <3>1, ToldKinds DEF Fits, What
    <3>6. Fits(n, Last)'
      BY <1>1, <3>5 DEF Fits
    <3> QED BY <1>1, <1>3, <2>1, <3>3, <3>4, <3>6 DEF Kept, Holding, Unseen, ActionOf
  <2> QED BY <2>3, <2>4, <2>5
<1> QED BY <1>2, <1>3

(* A gesture is kept when the pending interaction is recorded.             *)
LEMMA KeptFounds ==
  ASSUME NEW o, Before(o), NEW context \in {menu, NoMenu}, Founds(o, context),
         menu'.absorbed \subseteq menu.absorbed, NEW n \in DOMAIN gestures
  PROVE  Kept(n)'
<1> DEFINE h == o.gesture
<1>0. PICK action, value :
       /\ Opened(o, action, value, context)
       /\ Opening(o) => action = Now(h) /\ (What(o) \in Picks => value = gestures[h].value)
  BY DEF Founds
<1>1. /\ UNCHANGED gestures /\ pending' # <<>> /\ interactions' = interactions \o pending
      /\ Last'.obj = o.obj /\ Last'.value = value /\ Last'.action = action
      /\ h \in Last'.of /\ Last'.of \subseteq {h} \cup menu.absorbed
  BY <1>0 DEF Opened, Accrues, Before, TakesFirst, NoMenu
<1>2. Transcript
  BY DEF Before, Ready
<1>3. /\ pending = <<>> => interactions' = interactions
      /\ pending # <<>> =>
           /\ Len(interactions) \in Nat /\ DOMAIN interactions = 1 .. Len(interactions)
           /\ DOMAIN interactions' = 1 .. Len(interactions) + 1
           /\ \A i \in DOMAIN interactions : interactions'[i] = interactions[i]
           /\ interactions'[Len(interactions) + 1] = Last
  BY <1>1, <1>2, Appended
<1>4. Unseen(n) => \A i \in DOMAIN interactions' : n \notin interactions'[i].of
  <2>1. CASE pending = <<>>
    BY <1>3, <2>1 DEF Unseen
  <2>2. CASE pending # <<>>
    <3>1. \A i \in DOMAIN interactions' : i \in DOMAIN interactions \/ i = Len(interactions) + 1
      BY <1>3, <2>2
    <3> QED BY <1>3, <2>2, <3>1 DEF Unseen
  <2> QED BY <2>1, <2>2
<1>5. CASE n # h
  <2>1. Ahead(n)' => Unseen(n)'
    BY <1>1, <1>4, <1>5, OthersAsBefore DEF Unseen
  <2>2. ASSUME Begun(n)', ~ Settled(n)' PROVE Filed(n)'
    <3>1. (Filed(n) \/ Holding(n)) /\ ~ StateAhead(n) /\ n \notin menu.absorbed
      BY <1>5, <2>2, OthersAsBefore
    <3>2. n \notin Last'.of
      BY <1>1, <1>5, <3>1
    <3>3. \A i : (Right(n, i))' <=> Right(n, i')
      BY <1>1 DEF Right, Fits, ActionOf
    <3>4. \E i \in DOMAIN interactions' :
            /\ n \in interactions'[i].of /\ Right(n, interactions'[i])
            /\ \A j \in DOMAIN interactions' : n \in interactions'[j].of => j = i
      <4>1. CASE pending = <<>>
        BY <1>3, <3>1, <4>1 DEF Filed, Holding
      <4>2. CASE pending # <<>>
        <5>1. \A i \in DOMAIN interactions' : i \in DOMAIN interactions \/ i = Len(interactions) + 1
          BY <1>3, <4>2
        <5>2. CASE Filed(n)
          <6>1. PICK i \in DOMAIN interactions :
                  /\ n \in interactions[i].of /\ Right(n, interactions[i])
                  /\ \A j \in DOMAIN interactions : n \in interactions[j].of => j = i
            BY <5>2 DEF Filed
          <6>2. n \notin Last.of
            BY <4>2, <5>2 DEF Filed
          <6>3. i \in DOMAIN interactions' /\ interactions'[i] = interactions[i]
            BY <1>3, <4>2, <6>1
          <6>4. \A j \in DOMAIN interactions' : n \in interactions'[j].of => j = i
            BY <1>3, <4>2, <5>1, <6>1, <6>2
          <6> QED BY <6>1, <6>3, <6>4
        <5>3. CASE Holding(n)
          <6>1. Right(n, Last) /\ n \in Last.of /\ \A i \in DOMAIN interactions : n \notin interactions[i].of
            BY <3>1, <5>3 DEF Holding, Right
          <6>2. Len(interactions) + 1 \in DOMAIN interactions'
            BY <1>3, <4>2
          <6>3. \A j \in DOMAIN interactions' : n \in interactions'[j].of => j = Len(interactions) + 1
            BY <1>3, <4>2, <5>1, <6>1
          <6> QED BY <1>3, <4>2, <6>1, <6>2, <6>3
        <5> QED BY <3>1, <5>2, <5>3
      <4> QED BY <4>1, <4>2
    <3>5. \A i \in DOMAIN interactions' : Right(n, interactions'[i]) => Right(n, interactions[i])'
      BY <1>1 DEF Right, Fits, ActionOf
    <3> QED BY <1>1, <3>2, <3>4, <3>5 DEF Filed
  <2> QED BY <1>5, <2>1, <2>2, OthersAsBefore DEF Kept
<1>6. CASE n = h
  <2>1. ~ Ahead(n)'
    BY <1>6 DEF Before, Serially
  <2>2. Settled(n)' <=> Settled(n)
    BY <1>1, SettledSame
  <2>3. CASE Settled(n)
    BY <2>1, <2>2, <2>3 DEF Kept
  <2>4. CASE ~ Settled(n)
    <3>1. Opening(o)
      BY <1>6, <2>4 DEF Founds
    <3>2. Unseen(n)
      BY <1>6, <3>1 DEF Before, Serially, RecInv, KeptInv
    <3>3. Fits(n, Last)'
      BY <1>0, <1>1, <1>6, <3>1, ToldKinds DEF Fits, What
    <3>4. Last'.action = ActionOf(n) \/ (gestures[n].what = "check" /\ Last'.action = "click")
      BY <1>0, <1>1, <1>6, <3>1 DEF Now
    <3>5. gestures[n].what = "check" => StateAhead(n)'
      BY <1>6, <3>1 DEF Before, Serially, Opening, Opens
    <3> QED BY <1>1, <1>4, <1>6, <2>1, <3>2, <3>3, <3>4, <3>5 DEF Kept, Holding, ActionOf
  <2> QED BY <2>3, <2>4
<1> QED BY <1>5, <1>6

(* What the menu takes for its opener is in its shadow.                    *)
LEMMA TakenSettled ==
  ASSUME NEW o, Before(o), o.type = "pointer", Takes(o), NEW n \in Last.of
  PROVE  n \in DOMAIN gestures /\ Settled(n)
<1> DEFINE h == o.gesture
<1>0. Opening(o)
  BY DEF Opening, Opens
<1>1. /\ pending # <<>> /\ Last.action \in {"click", "right_click"}
      /\ o.at - Last.completed <= CorrWindow
  BY DEF Takes, Absorbs
<1>2. PICK k \in DOMAIN gestures : Upto(k)
  BY <1>1 DEF Before, RecInv, PendingInv
<1>3. n \in DOMAIN gestures /\ (Settled(n) \/ (gestures[n].obj = Last.obj /\ n <= k))
  BY <1>2 DEF Upto
<1> SUFFICES ASSUME gestures[n].obj = Last.obj, n <= k, Recordable(n) PROVE Shadowed(n)
  BY <1>3 DEF Settled
<1>4. /\ k < h /\ h \in DOMAIN gestures /\ gestures[h].at = o.at /\ gestures[k].at = Last.completed
      /\ gestures[h].what = "open_menu" /\ gestures[k].obj = gestures[n].obj
  BY <1>0, <1>2, ToldKinds DEF Upto, Before, Serially, Takes, What
<1>5. DOMAIN gestures = 1 .. Len(gestures) /\ Len(gestures) \in Nat
  <2>1. gestures \in Seq(MadeType)
    BY DEF Before, IInv, TypeOK, MadeType
  <2> QED BY <2>1
<1>6. OnKind(gestures[n]) /\ Kind[gestures[n].obj] = Kind[Last.obj]
  BY <1>3 DEF Before, GestureInv
<1>7. Kind[Last.obj] # "check"
  <2> SUFFICES ASSUME Kind[Last.obj] = "check" PROVE FALSE
    OBVIOUS
  <2>1. Last.action = "click"
    <3>1. Last.action # "right_click"
      BY <1>1 DEF Before, RecInv, PendingInv
    <3> QED BY <1>1, <3>1
  <2>2. PICK m \in DOMAIN gestures : Begun(m) /\ StateAhead(m)
    BY <1>1, <2>1 DEF Before, RecInv, PendingInv
  <2>3. m = h /\ Ahead(h)
    BY <1>0, <2>2 DEF Before, Serially
  <2> QED BY <2>2, <2>3 DEF Begun
<1>8. Kind[Last.obj] # "selector"
  BY <1>1 DEF Before, RecInv, PendingInv
<1>9. gestures[n].what \in {"click", "right_click", "choose"}
  BY <1>6, <1>7, <1>8 DEF OnKind, KindsOf, Recordable, IsOpener, Openers
<1>10. Absorbed(n)
  <2>1. h \in n + 1 .. Len(gestures) /\ k \in n .. h - 1
    BY <1>2, <1>3, <1>4, <1>5
  <2>2. Since(k, h) <= CorrWindow
    BY <1>1, <1>4 DEF Since
  <2> QED BY <1>4, <1>9, <2>1, <2>2 DEF Absorbed
<1> QED BY <1>10 DEF Shadowed

(* A gesture is kept, or settled, when a menu takes its interaction.       *)
LEMMA KeptTakes ==
  ASSUME NEW o, Before(o), o.type = "pointer", Takes(o), NEW n \in DOMAIN gestures
  PROVE  Kept(n)'
<1> DEFINE h == o.gesture
<1>1. /\ UNCHANGED <<interactions, gestures>> /\ pending # <<>> /\ pending' = <<>> /\ menu'.absorbed = Last.of
      /\ What(o) = "open_menu"
  BY DEF Takes, Absorbs, Before, TakesFirst
<1>2. Settled(n)' <=> Settled(n)
  BY <1>1, SettledSame
<1>3. CASE n # h
  <2>1. Ahead(n)' => Unseen(n)'
    BY <1>1, <1>3, OthersAsBefore DEF Unseen
  <2>2. ASSUME Begun(n)', ~ Settled(n)' PROVE Filed(n)'
    <3>1. Filed(n) \/ Holding(n)
      BY <1>3, <2>2, OthersAsBefore
    <3>2. ~ Holding(n)
      BY <1>2, <2>2, TakenSettled DEF Holding
    <3> QED BY <1>1, <3>1, <3>2 DEF Filed, Right, Fits, ActionOf
  <2> QED BY <1>3, <2>1, <2>2, OthersAsBefore DEF Kept
<1>4. CASE n = h
  <2>1. Settled(n)
    BY <1>1, <1>4 DEF Settled, Recordable, IsOpener, Openers, What
  <2>2. ~ Ahead(n)'
    BY <1>4 DEF Before, Serially
  <2> QED BY <1>2, <2>1, <2>2 DEF Kept
<1> QED BY <1>3, <1>4

(* Only a pointer opens a menu.                                            *)
LEMMA TakesPointer ==
  ASSUME NEW o, Before(o), Takes(o)
  PROVE  o.type = "pointer" /\ Opening(o)
  BY DEF Takes, Before, Serially, Told, Tells, What, Picks, Opening, Opens

(* Every gesture is kept by an observation.                                *)
LEMMA ObserveKeepsKept ==
  ASSUME NEW o, Before(o), Outcome(o)
  PROVE  KeptInv'
<1>1. ASSUME NEW n \in DOMAIN gestures PROVE Kept(n)'
  BY KeptTakes, TakesPointer, KeptIdle, KeptExtends, KeptFounds DEF Outcome
<1>2. gestures' = gestures
  BY DEF Before, TakesFirst
<1> QED BY <1>1, <1>2 DEF KeptInv, Kept

(* What is recorded was pending. *)
LEMMA OnceLast ==
  ASSUME NEW o, Before(o), Outcome(o), NEW i \in DOMAIN interactions'
  PROVE  \/ i \in DOMAIN interactions /\ interactions'[i] = interactions[i]
         \/ pending # <<>> /\ interactions'[i] = Last /\ i \notin DOMAIN interactions
            /\ \E context \in {menu, NoMenu} : Founds(o, context)
<1>1. CASE UNCHANGED interactions
  BY <1>1
<1>2. CASE \E context \in {menu, NoMenu} : Founds(o, context)
  <2>1. interactions' = interactions \o pending
    BY <1>2 DEF Founds, Opened
  <2>2. Transcript
    BY DEF Before, Ready
  <2> QED BY <1>2, <2>1, <2>2, Appended
<1> QED BY <1>1, <1>2 DEF Outcome, Takes, Idle, transcript, Extends, Extended

(* Interactions go on accounting for gestures.                             *)
LEMMA ObserveKeepsKnown ==
  ASSUME NEW o, Before(o), Outcome(o)
  PROVE  KnownInv'
<1>1. gestures' = gestures
  BY DEF Before, TakesFirst
<1>2. pending # <<>> => Last.of \subseteq DOMAIN gestures
  BY DEF Before, RecInv, PendingInv, Upto
<1> QED BY <1>1, <1>2, OnceLast DEF KnownInv, Before, RecInv

(* The gesture that is observed is the last one heard. *)
LEMMA ObservedHeard ==
  ASSUME NEW o, Before(o)
  PROVE  /\ Heard(o.gesture)' /\ Begun(o.gesture)'
         /\ \A n \in DOMAIN gestures : Heard(n) => Heard(n)' /\ n <= o.gesture
  BY DEF Before, Serially, Heard, TakesFirst

(* The pending interaction ends with the gesture that extended it.         *)
LEMMA ExtendsKeepsPending ==
  ASSUME NEW o, Before(o), NEW context \in {menu, NoMenu}, Extends(o, context)
  PROVE  PendingInv'
<1> DEFINE h == o.gesture
<1>1. /\ UNCHANGED gestures /\ pending # <<>> /\ pending' # <<>> /\ Last'.fw = "javafx"
      /\ Last'.obj = Last.obj /\ Last'.action = NewAction(o) /\ Last.obj = o.obj /\ Last'.completed = o.at
      /\ Last'.of \subseteq Last.of \cup {h} \cup menu.absorbed
  BY DEF Extends, Extended, Accrues, Before, TakesFirst, NoMenu
<1>2. /\ gestures[h].obj = o.obj /\ gestures[h].at = o.at /\ h \in DOMAIN gestures
      /\ Heard(h)' /\ \A n \in DOMAIN gestures : Heard(n) => n <= h
  BY ToldKinds, ObservedHeard
<1>3. Upto(h)'
  <2>1. PICK k \in DOMAIN gestures : Upto(k)
    BY <1>1 DEF Before, RecInv, PendingInv
  <2>2. k <= h /\ DOMAIN gestures \subseteq Nat
    BY <1>2, <2>1 DEF Upto, Before, TakesFirst
  <2>3. ASSUME NEW n \in Last'.of
        PROVE  n \in DOMAIN gestures /\ (Settled(n) \/ (gestures[n].obj = o.obj /\ n <= h))
    <3>1. CASE n \in Last.of
      BY <1>1, <1>2, <2>1, <2>2, <3>1 DEF Upto
    <3>2. CASE n = h
      BY <1>2, <2>2, <3>2
    <3>3. CASE n \in menu.absorbed
      BY <3>3 DEF Before, RecInv, MenuInv
    <3> QED BY <1>1, <3>1, <3>2, <3>3
  <2>4. \A n : Settled(n)' <=> Settled(n)
    BY <1>1, SettledSame
  <2> QED BY <1>1, <1>2, <2>3, <2>4 DEF Upto
<1>4. What(o) = "check" => Kind[o.obj] = "check"
  BY ToldKinds DEF KindsOf, What
<1>5. NewAction(o) # Last.action => Last.action = "click" /\ NewAction(o) = "select" /\ Kind[o.obj] = "check"
  BY <1>4 DEF NewAction, Promoted
<1>6. ASSUME Kind[o.obj] = "check", NewAction(o) = "click" PROVE FALSE
  <2>1. Last.action = "click"
    BY <1>5, <1>6
  <2>2. PICK m \in DOMAIN gestures : Begun(m) /\ StateAhead(m)
    BY <1>1, <1>6, <2>1 DEF Before, RecInv, PendingInv
  <2>3. m = h /\ ~ Ahead(h)
    BY <2>2 DEF Before, Serially, Begun
  <2>4. ~ Opening(o)
    BY <2>3 DEF Before, Serially
  <2>5. What(o) = "check"
    BY <1>6, ToldKinds DEF KindsOf, What
  <2>6. o.type = "state"
    BY <2>2, <2>3, <2>4 DEF Before, Serially, Told, Tells, Opening, Opens
  <2> QED BY <2>1, <2>5, <2>6, <1>6 DEF NewAction, Promoted
<1>7. Kind[Last'.obj] = "selector" => Last'.action \in {"select_item", "activate"}
  BY <1>1, <1>5 DEF Before, RecInv, PendingInv
<1>8. Kind[Last'.obj] = "check" => Last'.action # "right_click"
  BY <1>1, <1>5 DEF Before, RecInv, PendingInv
<1> QED BY <1>1, <1>2, <1>3, <1>6, <1>7, <1>8 DEF PendingInv

(* The pending interaction ends with the gesture that founded it.          *)
LEMMA FoundsKeepsPending ==
  ASSUME NEW o, Before(o), NEW context \in {menu, NoMenu}, Founds(o, context)
  PROVE  PendingInv'
<1> DEFINE h == o.gesture
<1>0. PICK action, value :
       /\ Opened(o, action, value, context)
       /\ Opening(o) => action = Now(h)
       /\ ~ Opening(o) => action = "activate"
  BY DEF Founds
<1>1. /\ UNCHANGED gestures /\ pending' # <<>> /\ Last'.fw = "javafx"
      /\ Last'.obj = o.obj /\ Last'.action = action /\ Last'.completed = o.at
      /\ Last'.of \subseteq {h} \cup menu.absorbed
  BY <1>0 DEF Opened, Accrues, Before, TakesFirst, NoMenu
<1>2. /\ gestures[h].obj = o.obj /\ gestures[h].at = o.at /\ h \in DOMAIN gestures
      /\ Heard(h)' /\ Begun(h)' /\ What(o) \in DOMAIN KindsOf /\ Kind[o.obj] = KindsOf[What(o)]
  BY ToldKinds, ObservedHeard DEF What
<1>3. Upto(h)'
  <2>1. h <= h
    BY <1>2 DEF Before, TakesFirst
  <2>2. ASSUME NEW n \in Last'.of
        PROVE  n \in DOMAIN gestures /\ (Settled(n) \/ (gestures[n].obj = o.obj /\ n <= h))
    BY <1>1, <1>2, <2>1 DEF Before, RecInv, MenuInv
  <2>3. \A n : Settled(n)' <=> Settled(n)
    BY <1>1, SettledSame
  <2> QED BY <1>1, <1>2, <2>2, <2>3 DEF Upto
<1>4. Kind[o.obj] = "selector" => action \in {"select_item", "activate"}
  BY <1>0, <1>2 DEF KindsOf, Now, ActionOf, Expected, What
<1>5. Kind[o.obj] = "check" => action # "right_click"
  BY <1>0, <1>2 DEF KindsOf, Now, ActionOf, Expected, What
<1>6. Kind[o.obj] = "check" /\ action = "click" => StateAhead(h)'
  <2> SUFFICES ASSUME Kind[o.obj] = "check", action = "click" PROVE StateAhead(h)'
    OBVIOUS
  <2>1. What(o) = "check" /\ Opening(o)
    BY <1>0, <1>2 DEF KindsOf
  <2>2. o.type = "pointer"
    BY <2>1 DEF Opening, Opens, What
  <2> QED BY <2>1, <2>2 DEF Before, Serially, What
<1> QED BY <1>1, <1>2, <1>3, <1>4, <1>5, <1>6 DEF PendingInv

(* An idle observation leaves the pending interaction as it was.           *)
LEMMA IdleKeepsPending ==
  ASSUME NEW o, Before(o), Idle(o)
  PROVE  PendingInv'
<1> DEFINE h == o.gesture
<1>1. UNCHANGED <<gestures, pending>> /\ Last' = Last
  BY DEF Idle, transcript, Before, TakesFirst, Last
<1> SUFFICES ASSUME pending # <<>> PROVE PendingInv'
  BY <1>1 DEF PendingInv
<1>2. PendingInv
  BY DEF Before, RecInv
<1>3. \E k \in DOMAIN gestures : Upto(k)'
  <2>1. PICK k \in DOMAIN gestures : Upto(k)
    BY <1>2 DEF PendingInv
  <2>2. \A n : Settled(n)' <=> Settled(n)
    BY <1>1, SettledSame
  <2>3. Heard(k)'
    BY <2>1, ObservedHeard DEF Upto
  <2>4. Upto(k)'
    BY <1>1, <2>1, <2>2, <2>3 DEF Upto
  <2> QED BY <2>4
<1>4. ASSUME Kind[Last.obj] = "check", Last.action = "click"
      PROVE  \E n \in DOMAIN gestures : Begun(n)' /\ StateAhead(n)' /\ gestures[n].obj = Last.obj
  <2>1. PICK m \in DOMAIN gestures : Begun(m) /\ StateAhead(m) /\ gestures[m].obj = Last.obj
    BY <1>2, <1>4 DEF PendingInv
  <2>2. m = h /\ ~ Ahead(h)
    BY <2>1 DEF Before, Serially, Begun
  <2>3. ~ Opening(o) /\ What(o) = "check" /\ SameLogicalTarget(o)
    <3>1. ~ Opening(o)
      BY <2>2 DEF Before, Serially
    <3>2. o.obj = Last.obj
      BY <2>1, <2>2, ToldKinds
    <3> QED BY <1>4, <3>1, <3>2, ToldKinds DEF KindsOf, What, SameLogicalTarget
  <2>4. o.type # "state" /\ o.type # "action" /\ o.type # "pointer"
    BY <2>1, <2>2, <2>3 DEF Idle, Before, Serially, Opening, Opens
  <2> QED BY <2>4 DEF Before, Serially, Told, Tells
<1> QED BY <1>1, <1>2, <1>3, <1>4 DEF PendingInv

LEMMA ObserveKeepsPending ==
  ASSUME NEW o, Before(o), Outcome(o)
  PROVE  PendingInv'
<1>1. Takes(o) => PendingInv'
  BY DEF Takes, PendingInv
<1> QED BY <1>1, IdleKeepsPending, ExtendsKeepsPending, FoundsKeepsPending DEF Outcome

-----------------------------------------------------------------------------
(* The contexts *)

(* What an observation makes of the popup. *)
PopupOutcome(o) ==
  \/ popup' = NoPopup /\ What(o) \notin Picks
  \/ /\ UNCHANGED popup
     /\ Opening(o) /\ What(o) \in Picks => popup.owner = NoObject \/ popup.committed
     /\ What(o) = "pick" =>
          /\ popup.committed /\ popup.owner = o.obj /\ popup.value = gestures[o.gesture].value
          /\ o.at - popup.at <= DupWindow
  \/ CommitsTo(o) /\ What(o) \in Picks /\ Opening(o) /\ o.value = gestures[o.gesture].value
  \/ What(o) = "open_selector" /\ popup' = [NoPopup EXCEPT !.owner = o.obj, !.fw = o.fw, !.since = o.at]

MenuOutcome(o) ==
  \/ menu' \in {menu, NoMenu}
  \/ What(o) = "open_menu" /\ menu'.owner = o.obj /\ menu'.since = o.at

(* An opener that was just observed left its context. *)
OpenOutcome(o) ==
  /\ What(o) = "open_menu" => menu'.owner # NoObject
  /\ What(o) = "open_selector" =>
       popup'.owner = o.obj \/ (popup'.owner = NoObject /\ (Swallowed(o.gesture) \/ ReopenedBy(o.gesture)))

ContextOutcome(o) == PopupOutcome(o) /\ MenuOutcome(o) /\ OpenOutcome(o)

(* What a selection makes of the contexts.                                 *)
LEMMA CommitContext ==
  ASSUME NEW o, Before(o), Opening(o), What(o) \in Picks, o.value = gestures[o.gesture].value,
         Commit(o.value, o)
  PROVE  ContextOutcome(o)
<1>1. UNCHANGED menu
  BY CommitSteps
<1>2. OpenOutcome(o)
  BY DEF OpenOutcome, Picks
<1>3. CASE /\ UNCHANGED popup
           /\ popup.committed /\ popup.owner = o.obj /\ popup.value = o.value
           /\ o.at - popup.at <= DupWindow
  BY <1>1, <1>2, <1>3 DEF ContextOutcome, PopupOutcome, MenuOutcome
<1>4. CASE CommitsTo(o)
  BY <1>1, <1>2, <1>4 DEF ContextOutcome, PopupOutcome, MenuOutcome
<1> QED BY <1>3, <1>4, CommitSteps

(* What a pointer makes of the contexts.                                   *)
LEMMA PointerContext ==
  ASSUME NEW o, Before(o), o.type = "pointer", ObservePointer(o)
  PROVE  ContextOutcome(o)
<1>0. Opening(o)
  BY DEF Opening, Opens
<1>1. What(o) \in DOMAIN KindsOf /\ What(o) # "pick_by_key" /\ o.obj # NoObject
  BY ToldKinds DEF What, Before, Serially, Told, Tells
<1>2. CASE What(o) \in {"click", "right_click", "check"}
  BY <1>2, ClickSteps DEF ContextOutcome, PopupOutcome, MenuOutcome, OpenOutcome, Picks
<1>3. CASE What(o) = "open_menu"
  <2>1. CASE UNCHANGED <<transcript, menu>> /\ popup' = NoPopup /\ MenuOpen
    BY <1>3, <2>1 DEF ContextOutcome, PopupOutcome, MenuOutcome, OpenOutcome, Picks, MenuOpen
  <2>2. CASE OpenMenu(o)
    <3>1. menu'.owner = o.obj /\ menu'.since = o.at /\ popup' = NoPopup
      BY <2>2 DEF OpenMenu
    <3> QED BY <1>1, <1>3, <3>1 DEF ContextOutcome, PopupOutcome, MenuOutcome, OpenOutcome, Picks
  <2> QED BY <1>3, <2>1, <2>2, MenuSteps
<1>4. CASE What(o) = "open_selector"
  <2>1. /\ menu' \in {menu, NoMenu}
        /\ \/ popup' = popup /\ popup.owner = o.obj
           \/ popup' = NoPopup /\ (Swallowed(o.gesture) \/ ReopenedBy(o.gesture))
           \/ popup' = [NoPopup EXCEPT !.owner = o.obj, !.fw = o.fw, !.since = o.at]
    BY <1>4, SelectorSteps
  <2>2. NoPopup.owner = NoObject /\ [NoPopup EXCEPT !.owner = o.obj, !.fw = o.fw, !.since = o.at].owner = o.obj
    BY DEF NoPopup
  <2>3. OpenOutcome(o)
    BY <1>4, <2>1, <2>2 DEF OpenOutcome
  <2>4. PopupOutcome(o)
    BY <1>4, <2>1 DEF PopupOutcome, Picks
  <2> QED BY <2>1, <2>3, <2>4 DEF ContextOutcome, MenuOutcome
<1>5. CASE What(o) = "choose"
  BY <1>5, ChooseSteps DEF ContextOutcome, PopupOutcome, MenuOutcome, OpenOutcome, Picks
<1>6. CASE What(o) = "pick"
  BY <1>0, <1>6, PickSteps, CommitContext DEF Picks
<1> QED BY <1>1, <1>2, <1>3, <1>4, <1>5, <1>6 DEF KindsOf

(* What a state change makes of the contexts.                              *)
LEMMA StateContext ==
  ASSUME NEW o, Before(o), o.type = "state", ObserveState(o)
  PROVE  ContextOutcome(o)
<1>1. UNCHANGED menu
  BY StateSteps
<1>2. \/ What(o) = "check"
      \/ What(o) \in Picks /\ o.value = gestures[o.gesture].value
  BY DEF Before, Serially, Told, Tells, What
<1>3. Opening(o) <=> What(o) = "pick_by_key"
  BY DEF Opening, Opens, What
<1>4. OpenOutcome(o)
  BY <1>2 DEF OpenOutcome, Picks
<1>5. CASE What(o) = "check" /\ UNCHANGED popup
  BY <1>1, <1>4, <1>5 DEF ContextOutcome, PopupOutcome, MenuOutcome, Picks
<1>6. CASE What(o) = "pick" /\ UNCHANGED popup
  BY <1>1, <1>3, <1>4, <1>6, HalfReported DEF ContextOutcome, PopupOutcome, MenuOutcome
<1>7. CASE What(o) = "pick_by_key" /\ Commit(o.value, o)
  BY <1>2, <1>3, <1>7, CommitContext DEF Picks
<1>8. CASE What(o) = "pick_by_key" /\ popup.owner = NoObject /\ UNCHANGED popup
  BY <1>1, <1>4, <1>8 DEF ContextOutcome, PopupOutcome, MenuOutcome
<1> QED BY <1>5, <1>6, <1>7, <1>8, StateSteps

(* What an action event makes of the contexts.                             *)
LEMMA ActionContext ==
  ASSUME NEW o, Before(o), o.type = "action", ObserveAction(o)
  PROVE  ContextOutcome(o)
<1>1. ~ Opening(o) /\ What(o) \notin {"open_menu", "open_selector"}
  BY DEF Opening, Opens, Before, Serially, Told, Tells, What, Picks
<1>2. UNCHANGED popup /\ menu' \in {menu, NoMenu}
  BY ActionSteps
<1> QED BY <1>1, <1>2, HalfReported DEF ContextOutcome, PopupOutcome, MenuOutcome, OpenOutcome

(* The popup context stays that of the last opening or selection heard.    *)
LEMMA ObserveKeepsPopup ==
  ASSUME NEW o, Before(o), PopupOutcome(o)
  PROVE  PopupInv'
<1> DEFINE h == o.gesture
<1>1. UNCHANGED gestures
  BY DEF Before, TakesFirst
<1>2. /\ h \in DOMAIN gestures /\ gestures[h].obj = o.obj /\ gestures[h].at = o.at /\ o.obj # NoObject
      /\ What(o) = gestures[h].what /\ o.at \in Nat
      /\ What(o) \in DOMAIN KindsOf /\ Kind[o.obj] = KindsOf[What(o)]
  BY ToldKinds DEF What
<1>3. /\ Heard(h)' /\ \A n \in DOMAIN gestures : Heard(n) => Heard(n)' /\ n <= h
      /\ \A n \in DOMAIN gestures : Heard(n)' => Heard(n) \/ n = h
      /\ \A n \in DOMAIN gestures : Underway(n)' => n = h
      /\ ~ Opening(o) => Heard(h)
  BY ObservedHeard DEF Before, Serially, Underway, Heard
<1>4. PopupInv
  BY DEF Before, RecInv
<1>5. popup'.owner # NoObject => Kind[popup'.owner] = "selector"
  <2>1. CASE UNCHANGED popup
    BY <1>4, <2>1 DEF PopupInv
  <2>2. CASE popup' = NoPopup
    BY <2>2 DEF NoPopup
  <2>3. CASE CommitsTo(o) /\ What(o) \in Picks
    BY <1>2, <2>3 DEF CommitsTo, Picks, KindsOf
  <2>4. CASE What(o) = "open_selector" /\ popup' = [NoPopup EXCEPT !.owner = o.obj, !.fw = o.fw, !.since = o.at]
    BY <1>2, <2>4 DEF NoPopup, KindsOf
  <2> QED BY <2>1, <2>2, <2>3, <2>4 DEF PopupOutcome
<1>6. ASSUME popup'.owner # NoObject, ~ popup'.committed
      PROVE  \E m \in DOMAIN gestures :
               /\ Heard(m)' /\ gestures[m].what = "open_selector" /\ gestures[m].at = popup'.since
               /\ \A j \in DOMAIN gestures : j >= m /\ Heard(j)' => gestures[j].what \notin Picks
  <2>1. CASE UNCHANGED popup /\ (Opening(o) /\ What(o) \in Picks => popup.owner = NoObject \/ popup.committed)
    <3>1. PICK m \in DOMAIN gestures :
            /\ Heard(m) /\ gestures[m].what = "open_selector" /\ gestures[m].at = popup.since /\ Unpicked(m)
      BY <1>4, <1>6, <2>1 DEF PopupInv
    <3>2. Opening(o) => What(o) \notin Picks
      BY <1>6, <2>1
    <3> QED BY <1>2, <1>3, <2>1, <3>1, <3>2 DEF Unpicked
  <2>2. CASE What(o) = "open_selector" /\ popup' = [NoPopup EXCEPT !.owner = o.obj, !.fw = o.fw, !.since = o.at]
    <3>1. popup'.since = o.at
      BY <2>2 DEF NoPopup
    <3>2. ASSUME NEW j \in DOMAIN gestures, j >= h, Heard(j)' PROVE gestures[j].what \notin Picks
      <4>1. j <= h /\ j \in Nat /\ h \in Nat
        BY <1>2, <1>3, <3>2 DEF Before, TakesFirst
      <4>2. j = h
        BY <3>2, <4>1
      <4> QED BY <1>2, <2>2, <4>2 DEF Picks
    <3> QED BY <1>2, <1>3, <2>2, <3>1, <3>2
  <2>3. popup' # NoPopup /\ ~ CommitsTo(o)
    BY <1>6 DEF NoPopup, CommitsTo
  <2>4. PopupOutcome(o)
    OBVIOUS
  <2>5. \/ UNCHANGED popup /\ (Opening(o) /\ What(o) \in Picks => popup.owner = NoObject \/ popup.committed)
        \/ What(o) = "open_selector" /\ popup' = [NoPopup EXCEPT !.owner = o.obj, !.fw = o.fw, !.since = o.at]
    BY <2>3, <2>4, Zenon DEF PopupOutcome
  <2> QED BY <2>1, <2>2, <2>5
<1>7. ASSUME popup'.committed
      PROVE  \E m \in DOMAIN gestures :
               /\ Heard(m)' /\ gestures[m].what \in Picks /\ gestures[m].at = popup'.at
               /\ gestures[m].obj = popup'.owner /\ gestures[m].value = popup'.value
  <2>1. UNCHANGED popup \/ (CommitsTo(o) /\ What(o) \in Picks /\ o.value = gestures[h].value)
    <3>1. popup' # NoPopup /\ popup' # [NoPopup EXCEPT !.owner = o.obj, !.fw = o.fw, !.since = o.at]
      <4>1. ~ NoPopup.committed /\ ~ [NoPopup EXCEPT !.owner = o.obj, !.fw = o.fw, !.since = o.at].committed
        BY DEF NoPopup
      <4> QED BY <1>7, <4>1, Zenon
    <3>2. PopupOutcome(o)
      OBVIOUS
    <3> QED BY <3>1, <3>2, Zenon DEF PopupOutcome
  <2>2. CASE UNCHANGED popup
    BY <1>3, <1>4, <1>7, <2>2 DEF PopupInv
  <2>3. CASE CommitsTo(o) /\ What(o) \in Picks /\ o.value = gestures[h].value
    BY <1>2, <1>3, <2>3 DEF CommitsTo
  <2> QED BY <2>1, <2>2, <2>3
<1>8. ASSUME NEW n \in DOMAIN gestures, Underway(n)', gestures[n].what = "pick"
      PROVE  /\ popup'.committed /\ popup'.owner = gestures[n].obj /\ popup'.value = gestures[n].value
             /\ gestures[n].at - popup'.at <= DupWindow
  <2>1. n = h /\ What(o) = "pick"
    BY <1>2, <1>3, <1>8
  <2>2. o.at - o.at <= DupWindow
    BY <1>2, WindowsAssumption
  <2> QED BY <1>2, <2>1, <2>2 DEF PopupOutcome, CommitsTo, Picks
<1> QED BY <1>1, <1>5, <1>6, <1>7, <1>8 DEF PopupInv, Unpicked

(* The menu context stays that of an opening heard.                        *)
LEMMA ObserveKeepsMenu ==
  ASSUME NEW o, Before(o), Outcome(o), MenuOutcome(o)
  PROVE  MenuInv'
<1> DEFINE h == o.gesture
<1>1. UNCHANGED gestures /\ MenuInv /\ \A n : Settled(n)' <=> Settled(n)
  BY SettledSame DEF Before, TakesFirst, RecInv
<1>2. \A n \in menu'.absorbed : n \in DOMAIN gestures /\ Settled(n)
  BY <1>1, TakesPointer, TakenSettled DEF Outcome, Takes, MenuInv
<1>3. menu'.owner # NoObject => \E m \in DOMAIN gestures :
       Heard(m)' /\ gestures[m].what = "open_menu" /\ gestures[m].obj = menu'.owner /\ gestures[m].at = menu'.since
  <2>1. CASE menu' = menu
    BY <1>1, <2>1, ObservedHeard DEF MenuInv, MenuOpen
  <2>2. CASE menu' = NoMenu
    BY <2>2 DEF NoMenu
  <2>3. CASE What(o) = "open_menu" /\ menu'.owner = o.obj /\ menu'.since = o.at
    BY <2>3, ObservedHeard, ToldKinds DEF What
  <2> QED BY <2>1, <2>2, <2>3 DEF MenuOutcome
<1> QED BY <1>1, <1>2, <1>3 DEF MenuInv, MenuOpen

(* An opener that was just heard left its context.                         *)
LEMMA ObserveKeepsOpen ==
  ASSUME NEW o, Before(o), OpenOutcome(o)
  PROVE  OpenInv'
<1> DEFINE h == o.gesture
<1>1. UNCHANGED gestures /\ (\A n : Swallowed(n)' <=> Swallowed(n)) /\ (\A n : ReopenedBy(n)' <=> ReopenedBy(n))
  BY SettledSame DEF Before, TakesFirst
<1>2. ASSUME NEW m \in DOMAIN gestures, Newest(m)' PROVE m = h
  <2>1. Heard(m)' /\ ~ (h > m)
    BY <1>1, <1>2, ObservedHeard, ToldKinds DEF Newest
  <2>2. m <= h
    BY <2>1, ObservedHeard, ToldKinds DEF Before, Serially, TakesFirst
  <2> QED BY <2>1, <2>2, ToldKinds DEF Before, TakesFirst
<1>3. What(o) = gestures[h].what /\ o.obj = gestures[h].obj
  BY ToldKinds DEF What
<1> QED BY <1>1, <1>2, <1>3 DEF OpenInv, OpenOutcome, MenuOpen

-----------------------------------------------------------------------------
(* Items and order *)

(* The owner of the open menu is a menu.                                   *)
LEMMA OpenMenuIsMenu ==
  ASSUME IInv, GestureInv, MenuInv, MenuOpen
  PROVE  menu.owner \in Objects /\ Kind[menu.owner] = "menu" /\ menu.owner # NoObject
<1>1. PICK m \in DOMAIN gestures : gestures[m].what = "open_menu" /\ gestures[m].obj = menu.owner
  BY DEF MenuInv
<1>2. gestures[m] \in MadeType
  <2>1. gestures \in Seq(MadeType)
    BY DEF IInv, TypeOK, MadeType
  <2> QED BY <1>1, <2>1
<1> QED BY <1>1, <1>2 DEF GestureInv, OnKind, KindsOf, MenuOpen, MadeType

ItemKnown(i) == Kind[i.obj] = "item" => i.menu \in Objects /\ Kind[i.menu] = "menu"

(* An item that is chosen knows its menu.                                  *)
LEMMA ObserveKeepsItem ==
  ASSUME NEW o, Before(o), Outcome(o)
  PROVE  ItemInv'
<1> DEFINE h == o.gesture
<1>1. UNCHANGED gestures /\ ItemInv
  BY DEF Before, TakesFirst, RecInv
<1>2. /\ What(o) = gestures[h].what /\ o.obj = gestures[h].obj
      /\ What(o) \in DOMAIN KindsOf /\ Kind[o.obj] = KindsOf[What(o)]
  BY ToldKinds DEF What
<1>3. MenuOpen => menu.owner \in Objects /\ Kind[menu.owner] = "menu" /\ menu.owner # NoObject
  BY OpenMenuIsMenu DEF Before, RecInv
<1>4. \A context \in {menu, NoMenu} : context.owner # NoObject => context = menu /\ MenuOpen
  BY DEF NoMenu, MenuOpen
<1>5. pending # <<>> => ItemKnown(Last)
  BY <1>1 DEF ItemInv, ItemKnown
<1>6. pending' # <<>> => ItemKnown(Last')
  <2>1. CASE Idle(o)
    <3>1. pending' = pending /\ Last' = Last
      BY <2>1 DEF Idle, transcript, Last
    <3> QED BY <1>5, <3>1
  <2>2. ASSUME NEW context \in {menu, NoMenu}, Extends(o, context) PROVE ItemKnown(Last')
    <3>1. /\ pending # <<>> /\ Last'.obj = o.obj /\ Last.obj = o.obj
          /\ context.owner # NoObject => Last'.menu = context.owner
          /\ context.owner = NoObject => Last'.menu = Last.menu
      BY <2>2 DEF Extends, Extended, Accrues
    <3> QED BY <1>3, <1>4, <1>5, <3>1 DEF ItemKnown
  <2>3. ASSUME NEW context \in {menu, NoMenu}, Founds(o, context) PROVE ItemKnown(Last')
    <3>1. Last'.obj = o.obj /\ (context.owner # NoObject => Last'.menu = context.owner)
      BY <2>3 DEF Founds, Opened, Accrues
    <3>2. Kind[o.obj] = "item" => context = menu /\ MenuOpen
      BY <1>2, <2>3 DEF Founds, ChosenFrom, KindsOf
    <3> QED BY <1>3, <3>1, <3>2 DEF ItemKnown, MenuOpen
  <2>4. Takes(o) => pending' = <<>>
    BY DEF Takes
  <2> QED BY <2>1, <2>2, <2>3, <2>4 DEF Outcome
<1>7. \A i \in DOMAIN interactions' : ItemKnown(interactions'[i])
  <2> TAKE i \in DOMAIN interactions'
  <2>1. CASE i \in DOMAIN interactions /\ interactions'[i] = interactions[i]
    BY <1>1, <2>1 DEF ItemInv, ItemKnown
  <2> QED BY <1>5, <2>1, OnceLast
<1>8. ASSUME NEW n \in DOMAIN gestures, Underway(n)', gestures[n].what = "choose"
      PROVE  pending' # <<>> /\ Last'.obj = gestures[n].obj
  <2>1. n = h /\ What(o) = "choose"
    BY <1>2, <1>8 DEF Before, Serially
  <2>2. ~ Takes(o)
    BY <2>1 DEF Takes
  <2>3. CASE Idle(o)
    <3>1. ~ Opening(o)
      BY <2>1, <2>3 DEF Idle
    <3>2. SameLogicalTarget(o)
      BY <2>1, <3>1, HalfReported
    <3> QED BY <1>2, <2>1, <2>3, <3>2 DEF SameLogicalTarget, Idle, transcript, Last
  <2>4. ASSUME NEW context \in {menu, NoMenu}, Extends(o, context) \/ Founds(o, context)
        PROVE  pending' # <<>> /\ Last'.obj = o.obj
    BY <2>4 DEF Extends, Extended, Founds, Opened, Accrues
  <2> QED BY <1>2, <2>1, <2>2, <2>3, <2>4 DEF Outcome
<1> QED BY <1>1, <1>6, <1>7, <1>8 DEF ItemInv, ItemKnown

(* The order of the interactions is that of the observations.              *)
Timely(t) ==
  /\ t.started <= t.completed
  /\ \A i \in DOMAIN Feed' : t.completed <= Feed'[i].at
  /\ \E n \in DOMAIN gestures' : t.completed <= gestures'[n].at

Sorted(list, end) ==
  \A i \in DOMAIN list :
    /\ end # <<>> => Precedes(list[i], end[1])
    /\ \A j \in DOMAIN list : i < j => Precedes(list[i], list[j])

Ordered(list, end) ==
  /\ end # <<>> => Timely(end[1])
  /\ \A i \in DOMAIN list : Timely(list[i])
  /\ Sorted(list, end)

LEMMA OrderedNext ==
  ASSUME Ordered(interactions', pending')
  PROVE  OrderInv'
  BY DEF Ordered, Sorted, OrderInv, InTime, Timely, Precedes, Last

LEMMA OrderedAlready ==
  ASSUME OrderInv, \A t : InTime(t) => Timely(t)
  PROVE  Ordered(interactions, pending)
  BY DEF OrderInv, Ordered, Sorted, Last

(* A sorted list stays sorted when the pending interaction is recorded.    *)
LEMMA SortedAppended ==
  ASSUME Transcript, Sorted(interactions, pending)
  PROVE  Sorted(interactions \o pending, <<>>)
<1>1. CASE pending = <<>>
  <2>1. interactions \o pending = interactions
    BY <1>1 DEF Transcript
  <2> QED BY <2>1 DEF Sorted
<1>2. CASE pending # <<>>
  <2> DEFINE k == Len(interactions)
             list == interactions \o pending
  <2>1. /\ k \in Nat /\ DOMAIN list = 1 .. k + 1 /\ DOMAIN interactions = 1 .. k
        /\ \A i \in 1 .. k : list[i] = interactions[i]
        /\ list[k + 1] = pending[1]
    BY <1>2 DEF Transcript
  <2>2. ASSUME NEW i \in DOMAIN list, NEW j \in DOMAIN list, i < j
        PROVE  Precedes(list[i], list[j])
    <3> HIDE DEF list
    <3>1. i \in DOMAIN interactions /\ list[i] = interactions[i]
      BY <2>1, <2>2
    <3>2. CASE j = k + 1
      BY <1>2, <2>1, <3>1, <3>2 DEF Sorted
    <3>3. CASE j # k + 1
      <4>1. j \in DOMAIN interactions /\ list[j] = interactions[j]
        BY <2>1, <2>2, <3>3
      <4> QED BY <2>2, <3>1, <4>1 DEF Sorted
    <3> QED BY <3>2, <3>3
  <2> QED BY <2>2 DEF Sorted
<1> QED BY <1>1, <1>2

LEMMA OrderedAppended ==
  ASSUME Transcript, Ordered(interactions, pending)
  PROVE  Ordered(interactions \o pending, <<>>)
<1>1. Sorted(interactions \o pending, <<>>)
  BY SortedAppended DEF Ordered
<1>2. ASSUME NEW i \in DOMAIN (interactions \o pending)
      PROVE  Timely((interactions \o pending)[i])
  <2>1. \/ i \in DOMAIN interactions /\ (interactions \o pending)[i] = interactions[i]
        \/ pending # <<>> /\ (interactions \o pending)[i] = pending[1]
    BY DEF Transcript
  <2> QED BY <2>1 DEF Ordered
<1> QED BY <1>1, <1>2 DEF Ordered

(* Interactions stay ordered when an observation is taken.                 *)
LEMMA ObserveKeepsInTime ==
  ASSUME IInv, OrderInv, NEW o, TakesFirst(o), Serially(o),
         \/ UNCHANGED transcript
         \/ Before(o) /\ Outcome(o)
  PROVE  OrderInv'
<1> DEFINE h == o.gesture
<1>1. /\ UNCHANGED gestures
      /\ \A i \in DOMAIN Feed' : i + 1 \in DOMAIN Feed /\ Feed'[i] = Feed[i + 1]
      /\ h \in DOMAIN gestures /\ gestures[h].at = o.at
      /\ \A i \in DOMAIN Feed : o.at <= Feed[i].at
      /\ o.at \in Nat
  BY DEF TakesFirst, Serially, Told, Tells, Observation
<1>2. \A t : InTime(t) => Timely(t)
  BY <1>1 DEF InTime, Timely
<1>3. Ordered(interactions, pending)
  BY <1>2, OrderedAlready
<1>4. CASE UNCHANGED transcript
  BY <1>3, <1>4, OrderedNext DEF transcript
<1>5. Transcript
  BY DEF IInv, TypeOK, Transcript
<1>6. Ordered(interactions \o pending, <<>>)
  BY <1>3, <1>5, OrderedAppended
<1>7. ASSUME NEW t, t.started <= o.at, t.completed = o.at PROVE Timely(t)
  BY <1>1, <1>7 DEF Timely
<1>8. ASSUME pending # <<>>, Before(o) PROVE /\ Last.started \in Nat /\ Last.completed \in Nat /\ Last = pending[1]
                                             /\ Last.started <= Last.completed /\ Last.completed <= o.at
  <2>1. Last \in Interaction /\ Last = pending[1]
    BY <1>5, <1>8 DEF Transcript, Last
  <2>2. Last.completed <= o.at
    BY <1>8 DEF Before, Ready
  <2>3. Last.started <= Last.completed
    BY <1>8 DEF OrderInv, InTime
  <2> QED BY <2>1, <2>2, <2>3 DEF Interaction
<1>9. ASSUME NEW i \in DOMAIN interactions PROVE interactions[i].started \in Nat /\ interactions[i].completed \in Nat
  <2>1. interactions[i] \in Interaction
    BY <1>5 DEF Transcript
  <2> QED BY <2>1 DEF Interaction
<1>10. CASE Before(o) /\ Takes(o)
  BY <1>3, <1>10, OrderedNext DEF Takes, Ordered, Sorted
<1>11. ASSUME Before(o), NEW context \in {menu, NoMenu}, Extends(o, context) PROVE OrderInv'
  <2>1. /\ pending # <<>> /\ pending' # <<>> /\ interactions' = interactions
        /\ Last'.started = Last.started /\ Last'.completed = o.at /\ Last' = pending'[1]
    BY <1>11 DEF Extends, Extended, Accrues, Last
  <2>2. Timely(Last')
    BY <1>1, <1>7, <1>8, <1>11, <2>1
  <2>3. \A i \in DOMAIN interactions : Precedes(interactions[i], Last')
    BY <1>1, <1>3, <1>8, <1>9, <1>11, <2>1 DEF Ordered, Sorted, Precedes
  <2>4. Ordered(interactions', pending')
    BY <1>3, <2>1, <2>2, <2>3 DEF Ordered, Sorted
  <2> QED BY <2>4, OrderedNext
<1>12. ASSUME Before(o), Outcome(o), NEW context \in {menu, NoMenu}, Founds(o, context) PROVE OrderInv'
  <2>1. /\ pending' # <<>> /\ interactions' = interactions \o pending
        /\ Last'.started = o.at /\ Last'.completed = o.at /\ Last' = pending'[1]
    BY <1>12 DEF Founds, Opened, Accrues, Last
  <2>2. Timely(Last')
    BY <1>1, <1>7, <2>1
  <2>3. \A i \in DOMAIN interactions' : Precedes(interactions'[i], Last')
    <3> TAKE i \in DOMAIN interactions'
    <3>1. interactions'[i] = Last /\ pending # <<>> => Precedes(interactions'[i], Last')
      BY <1>1, <1>8, <1>12, <2>1 DEF Precedes
    <3>2. \/ i \in DOMAIN interactions /\ interactions'[i] = interactions[i]
          \/ interactions'[i] = Last /\ pending # <<>>
      BY <1>12, OnceLast
    <3>3. i \in DOMAIN interactions => interactions[i].started <= interactions[i].completed /\ interactions[i].completed <= o.at
      BY DEF OrderInv, InTime, TakesFirst
    <3>4. i \in DOMAIN interactions => Precedes(interactions[i], Last')
      BY <1>1, <1>9, <2>1, <3>3 DEF Precedes
    <3> QED BY <3>1, <3>2, <3>4
  <2>4. Ordered(interactions', pending')
    BY <1>6, <2>1, <2>2, <2>3 DEF Ordered, Sorted
  <2> QED BY <2>4, OrderedNext
<1>13. CASE Before(o) /\ Idle(o)
  BY <1>4, <1>13 DEF Idle
<1> QED BY <1>4, <1>10, <1>11, <1>12, <1>13 DEF Outcome

-----------------------------------------------------------------------------
(* Observing, and the next gesture *)

(* observe keeps the invariant.                                            *)
LEMMA ObserveKeepsNative ==
  ASSUME NativeWindow, CInv, NInv, NEW a \in Frameworks, Observe(a)
  PROVE  NInv'
<1> DEFINE o == Head(feed[a])
<1>1. IInv /\ GestureInv /\ FeedOrder /\ OrderInv /\ LifeInv
  BY DEF CInv, NInv
<1>2. a = "javafx" /\ TakesFirst(o)
  BY <1>1, TakenFirst
<1>3. Serially(o)
  BY <1>1, <1>2, Serial
<1>4. GestureInv'
  BY <1>1, <1>2, StutterKeepsGestures DEF TakesFirst
<1>5. FeedOrder'
  BY <1>1, <1>2, ObserveKeepsOrder
<1>6. UNCHANGED <<phase, faulty>>
  BY <1>2 DEF TakesFirst
<1>7. CASE ~ Active
  <2>1. UNCHANGED transcript
    BY <1>7 DEF Observe
  <2>2. OrderInv'
    BY <1>1, <1>2, <1>3, <2>1, ObserveKeepsInTime
  <2>3. faulty # {}
    <3> SUFFICES ASSUME faulty = {} PROVE FALSE
      OBVIOUS
    <3>1. feed["javafx"] = <<>>
      BY <1>1, <1>7 DEF LifeInv, Frameworks
    <3> QED BY <1>2, <3>1 DEF TakesFirst, Feed
  <2> QED BY <1>4, <1>5, <1>6, <1>7, <2>2, <2>3 DEF NInv, Active
<1>8. CASE Active
  <2>1. RecInv
    BY <1>8 DEF NInv
  <2>2. Ready(o)
    <3>1. Transcript
      BY <1>1 DEF IInv, TypeOK, Transcript
    <3>2. o.fw = "javafx" /\ o \in Observation /\ 1 \in DOMAIN Feed /\ o = Feed[1]
      BY <1>2, <1>3 DEF TakesFirst, Serially, Told, Tells
    <3>3. pending # <<>> => Last.fw = "javafx"
      BY <2>1 DEF RecInv, PendingInv
    <3>4. pending # <<>> => Last.completed <= o.at
      BY <1>1, <3>2 DEF OrderInv, InTime
    <3> QED BY <3>1, <3>2, <3>3, <3>4 DEF Ready
  <2>3. Contexts
    BY <1>1 DEF IInv, TypeOK, Contexts
  <2>4. Before(o)
    BY <1>1, <1>2, <1>3, <1>8, <2>1, <2>2, <2>3 DEF Before
  <2>5. \/ o.type = "pointer" /\ ObservePointer(o)
        \/ o.type = "action" /\ ObserveAction(o)
        \/ o.type = "state" /\ ObserveState(o)
    <3>1. o.type \in {"pointer", "action", "state"}
      BY <1>3 DEF Serially, Told, Tells
    <3>2. \/ o.type = "pointer" /\ ObservePointer(o)
          \/ o.type = "text" /\ ObserveText(o)
          \/ o.type = "action" /\ ObserveAction(o)
          \/ o.type = "state" /\ ObserveState(o)
      BY <1>8 DEF Observe
    <3> QED BY <3>1, <3>2
  <2>6. Outcome(o) /\ ContextOutcome(o)
    BY <2>4, <2>5, PointerOutcome, StateOutcome, ActionOutcome, PointerContext, StateContext, ActionContext
  <2>7. OrderInv'
    BY <1>1, <1>2, <1>3, <2>4, <2>6, ObserveKeepsInTime
  <2>8. RecInv'
    BY <2>4, <2>6, ObserveKeepsKnown, ObserveKeepsKept, ObserveKeepsPending, ObserveKeepsPopup, ObserveKeepsMenu,
       ObserveKeepsOpen, ObserveKeepsItem DEF RecInv, ContextOutcome
  <2> QED BY <1>4, <1>5, <2>7, <2>8 DEF NInv
<1> QED BY <1>7, <1>8

(* A gesture the user makes: what was heard is what was heard before.      *)
Later(n) ==
  /\ ~ Heard(n)' /\ ~ Underway(n)' /\ (Begun(n)' => Settled(n)') /\ n \notin DOMAIN gestures
  /\ DOMAIN gestures' = DOMAIN gestures \cup {n}
  /\ \A m \in DOMAIN gestures :
       /\ m \in Nat /\ m < n /\ gestures'[m] = gestures[m]
       /\ Ahead(m)' <=> Ahead(m)
       /\ StateAhead(m)' <=> StateAhead(m)
       /\ Begun(m)' <=> Begun(m)
       /\ Heard(m)' <=> Heard(m)
       /\ Underway(m)' <=> Underway(m)
       /\ Settled(m) => Settled(m)'
       /\ Swallowed(m) => Swallowed(m)'
       /\ ReopenedBy(m) => ReopenedBy(m)'

(* What is settled stays settled when another gesture is made.             *)
LEMMA SettledLater ==
  ASSUME IInv, Gesticulate, NEW g, NEW n, Made(g, n), NEW m \in DOMAIN gestures
  PROVE  /\ Swallowed(m) => Swallowed(m)'
         /\ ReopenedBy(m) => ReopenedBy(m)'
         /\ Settled(m) => Settled(m)'
<1>1. gestures \in Seq(MadeType)
  BY DEF IInv, TypeOK, MadeType
<1>2. /\ DOMAIN gestures = 1 .. Len(gestures) /\ Len(gestures) \in Nat
      /\ Len(gestures') = Len(gestures) + 1
      /\ \A k \in DOMAIN gestures : gestures'[k] = gestures[k]
  <2>1. \E made : gestures' = Append(gestures, made)
    BY DEF Gesticulate
  <2> QED BY <1>1, <2>1 DEF Made
<1>3. \A k \in 1 .. m - 1 : k \in DOMAIN gestures
  BY <1>2
<1>4. \A k, j \in DOMAIN gestures : (IsOpener(k)' <=> IsOpener(k)) /\ (Since(k, j)' = Since(k, j))
  BY <1>2 DEF IsOpener, Since
<1>5. Swallowed(m) => Swallowed(m)'
  BY <1>2, <1>3, <1>4 DEF Swallowed
<1>6. ReopenedBy(m) => ReopenedBy(m)'
  <2> SUFFICES ASSUME ReopenedBy(m) PROVE ReopenedBy(m)'
    OBVIOUS
  <2>1. PICK k \in 1 .. m - 1 : gestures[k].what = "open_selector" /\ \A j \in k .. m : gestures[j].what \notin Picks
    BY DEF ReopenedBy
  <2>2. \A j \in k .. m : j \in DOMAIN gestures
    BY <1>2, <2>1
  <2> QED BY <1>2, <1>3, <2>1, <2>2 DEF ReopenedBy
<1>7. Recordable(m)' <=> Recordable(m)
  BY <1>2 DEF Recordable, IsOpener
<1>8. Absorbed(m) => Absorbed(m)'
  <2> SUFFICES ASSUME Absorbed(m) PROVE Absorbed(m)'
    OBVIOUS
  <2>0. PICK l \in m + 1 .. Len(gestures) : \E k \in m .. l - 1 :
       /\ gestures[l].what = "open_menu" /\ Since(k, l) <= CorrWindow
       /\ gestures[k].obj = gestures[m].obj
    BY DEF Absorbed
  <2>1. PICK k \in m .. l - 1 :
       /\ gestures[l].what = "open_menu" /\ Since(k, l) <= CorrWindow
       /\ gestures[k].obj = gestures[m].obj
    BY <2>0
  <2>2. l \in DOMAIN gestures /\ k \in DOMAIN gestures /\ l \in m + 1 .. Len(gestures')
    BY <1>2, <2>1
  <2>3. gestures'[l].what = "open_menu" /\ Since(k, l)' <= CorrWindow /\ gestures'[k].obj = gestures'[m].obj
    BY <1>2, <1>4, <2>1, <2>2
  <2>4. gestures[m].what \in {"click", "right_click", "choose"} /\ gestures'[m] = gestures[m]
    BY <1>2 DEF Absorbed
  <2> QED BY <2>1, <2>2, <2>3, <2>4 DEF Absorbed
<1>9. Repeated(m) => Repeated(m)'
  BY <1>2, <1>3, <1>4 DEF Repeated
<1>10. Reopened(m) => Reopened(m)'
  <2> SUFFICES ASSUME Reopened(m) PROVE Reopened(m)'
    OBVIOUS
  <2>1. PICK l \in 1 .. m - 1, k \in 1 .. m - 1 :
    /\ l < k /\ gestures[l].what = "open_selector" /\ gestures[k].what = "open_selector"
    /\ \A j \in l .. k : gestures[j].what \notin Picks
    BY DEF Reopened
  <2>2. \A j \in l .. k : j \in DOMAIN gestures
    BY <1>2, <2>1
  <2>3. /\ gestures'[l].what = "open_selector" /\ gestures'[k].what = "open_selector"
        /\ \A j \in l .. k : gestures'[j].what \notin Picks
    BY <1>2, <1>3, <2>1, <2>2
  <2> QED BY <2>1, <2>3 DEF Reopened
<1>11. ASSUME gestures[m].what = "pick_by_key",
              NEW k \in 1 .. m - 1, gestures[k].what = "open_selector", Swallowed(k)
       PROVE  Shadowed(m)'
  <2>1. k \in DOMAIN gestures /\ \A j \in 1 .. k - 1 : j \in DOMAIN gestures
    BY <1>2, <1>3
  <2>2. Swallowed(k)'
    BY <1>2, <1>4, <1>11, <2>1 DEF Swallowed
  <2> QED BY <1>2, <1>11, <2>1, <2>2 DEF Shadowed
<1>12. Shadowed(m) => Shadowed(m)'
  BY <1>2, <1>5, <1>8, <1>9, <1>10, <1>11 DEF Shadowed
<1> QED BY <1>5, <1>6, <1>7, <1>12 DEF Settled

(* A new gesture is one of which nothing was heard.                        *)
LEMMA GestureIsLater ==
  ASSUME NativeWindow, IInv, GestureInv, FeedOrder, Gesticulate
  PROVE  /\ \E n : Later(n)
         /\ UNCHANGED <<phase, attached, faulty, interactions, pending, menu, popup>>
<1>1. PICK g, n, r : Made(g, n) /\ NewFeed(g, n, r)
  BY GesticulateFeeds
<1>2. /\ gestures'[n] = g /\ n \in DOMAIN gestures' /\ n \in Nat /\ n \notin DOMAIN gestures
      /\ DOMAIN gestures' = DOMAIN gestures \cup {n}
      /\ \A m \in DOMAIN gestures : m < n /\ m \in Nat /\ gestures'[m] = gestures[m]
  BY <1>1 DEF Made
<1>3. \A i \in DOMAIN Feed : Feed'[i] = Feed[i] /\ i \in DOMAIN Feed' /\ Feed[i].gesture \in DOMAIN gestures
  BY <1>1 DEF NewFeed
<1>4. \A i \in DOMAIN Feed' \ DOMAIN Feed : Feed'[i].gesture = n /\ Tells(Feed'[i], g)
  BY <1>1 DEF NewFeed, NativeReport
<1>5. ASSUME NEW m \in DOMAIN gestures
      PROVE  /\ Ahead(m)' <=> Ahead(m)
             /\ StateAhead(m)' <=> StateAhead(m)
             /\ (\E i \in DOMAIN Feed' : Feed'[i].gesture = m) <=> (\E i \in DOMAIN Feed : Feed[i].gesture = m)
  <2>1. m # n /\ gestures'[m] = gestures[m]
    BY <1>2
  <2>2. \A i \in DOMAIN Feed' : Feed'[i].gesture = m => i \in DOMAIN Feed
    BY <1>4, <2>1
  <2> QED BY <1>2, <1>3, <2>1, <2>2 DEF Ahead, StateAhead, Opening, Opens
<1>6. g.what # "dismiss" => Ahead(n)'
  <2> SUFFICES ASSUME g.what # "dismiss" PROVE Ahead(n)'
    OBVIOUS
  <2>1. PICK j \in DOMAIN r : Opens(r[j], g) /\ r[j].gesture = n
    BY <1>1 DEF NewFeed, NativeReport
  <2>2. Len(Feed) + j \in DOMAIN Feed' /\ Feed'[Len(Feed) + j] = r[j]
    BY <1>1 DEF NewFeed
  <2> QED BY <1>2, <2>1, <2>2 DEF Ahead, Opening, Opens
<1>7. g.what = "dismiss" => ~ \E i \in DOMAIN Feed' : Feed'[i].gesture = n
  <2>1. \A i \in DOMAIN Feed : Feed'[i].gesture # n
    BY <1>2, <1>3
  <2>2. \A i \in DOMAIN Feed' \ DOMAIN Feed : g.what # "dismiss"
    BY <1>4 DEF Tells, Picks
  <2> QED BY <2>1, <2>2
<1>8. /\ ~ Heard(n)' /\ ~ Underway(n)' /\ (Begun(n)' => Settled(n)')
  BY <1>2, <1>6, <1>7 DEF Heard, Underway, Begun, Settled, Recordable
<1>9. ASSUME NEW m \in DOMAIN gestures
      PROVE  /\ Begun(m)' <=> Begun(m)
             /\ Heard(m)' <=> Heard(m)
             /\ Underway(m)' <=> Underway(m)
  BY <1>2, <1>5 DEF Begun, Heard, Underway
<1>10. Later(n)
  BY <1>1, <1>2, <1>5, <1>8, <1>9, SettledLater DEF Later
<1> QED BY <1>10, GesticulateFeeds

(* A gesture leaves the record as it was.                                  *)
LEMMA GesticulateKeepsRecords ==
  ASSUME RecInv, NEW n, Later(n), UNCHANGED <<phase, interactions, pending, menu, popup>>
  PROVE  RecInv'
<1>0. Last' = Last
  BY DEF Last
<1>1. /\ DOMAIN gestures' = DOMAIN gestures \cup {n} /\ n \notin DOMAIN gestures
      /\ ~ Heard(n)' /\ ~ Underway(n)' /\ (Begun(n)' => Settled(n)')
      /\ \A m \in DOMAIN gestures : m \in Nat /\ m < n /\ gestures'[m] = gestures[m]
  BY DEF Later
<1>2. KnownInv'
  BY <1>1 DEF RecInv, KnownInv
<1>3. pending # <<>> => Last.of \subseteq DOMAIN gestures
  BY DEF RecInv, PendingInv, Upto
<1>4. Unseen(n)'
  BY <1>0, <1>1, <1>3 DEF Unseen, RecInv, KnownInv, MenuInv
<1>5. ASSUME NEW m \in DOMAIN gestures PROVE Kept(m)'
  <2>1. /\ Ahead(m)' <=> Ahead(m)
        /\ Begun(m)' <=> Begun(m)
        /\ Underway(m)' <=> Underway(m)
        /\ Settled(m) => Settled(m)'
        /\ StateAhead(m)' <=> StateAhead(m)
        /\ gestures'[m] = gestures[m]
    BY DEF Later
  <2>2. Unseen(m) => Unseen(m)'
    BY <1>0 DEF Unseen
  <2>3. Filed(m) => Filed(m)'
    BY <1>0, <2>1 DEF Filed, Right, Fits, ActionOf
  <2>4. Holding(m) => Holding(m)'
    BY <1>0, <2>1 DEF Holding, Fits, ActionOf
  <2>5. /\ Ahead(m) => Unseen(m)
        /\ Begun(m) /\ ~ Settled(m) => Filed(m) \/ Holding(m)
        /\ Underway(m) /\ ~ Settled(m) => pending # <<>> /\ m \in Last.of
    BY DEF RecInv, KeptInv
  <2> QED BY <1>0, <2>1, <2>2, <2>3, <2>4, <2>5 DEF Kept
<1>6. KeptInv'
  <2>1. Kept(n)'
    BY <1>1, <1>4 DEF Kept
  <2>2. \A m \in DOMAIN gestures' : Kept(m)'
    BY <1>1, <1>5, <2>1
  <2> QED BY <2>2 DEF KeptInv, Kept
<1>7. PendingInv'
  <2> SUFFICES ASSUME pending # <<>> PROVE PendingInv'
    BY DEF PendingInv
  <2>1. PICK k \in DOMAIN gestures : Upto(k)
    BY DEF RecInv, PendingInv
  <2>2. Heard(k)' /\ gestures'[k] = gestures[k] /\ k \in DOMAIN gestures'
    BY <1>1, <2>1 DEF Later, Upto
  <2>3. \A m \in Last.of : /\ m \in DOMAIN gestures /\ m \in DOMAIN gestures' /\ gestures'[m] = gestures[m]
                           /\ Settled(m) => Settled(m)'
    BY <1>1, <2>1 DEF Later, Upto
  <2>4. Upto(k)'
    BY <1>0, <2>1, <2>2, <2>3 DEF Upto
  <2>5. ASSUME Kind[Last.obj] = "check", Last.action = "click"
        PROVE \E m \in DOMAIN gestures' : Begun(m)' /\ StateAhead(m)' /\ gestures'[m].obj = Last.obj
    <3>1. PICK m \in DOMAIN gestures : Begun(m) /\ StateAhead(m) /\ gestures[m].obj = Last.obj
      BY <2>5 DEF RecInv, PendingInv
    <3> QED BY <3>1 DEF Later
  <2> QED BY <1>0, <2>2, <2>4, <2>5 DEF PendingInv, RecInv
<1>8. PopupInv'
  <2>1. \A m \in DOMAIN gestures : Unpicked(m) => Unpicked(m)'
    BY DEF Later, Unpicked
  <2>2. \A m \in DOMAIN gestures : m \in DOMAIN gestures' /\ gestures'[m] = gestures[m]
                                   /\ (Heard(m)' <=> Heard(m)) /\ (Underway(m)' <=> Underway(m))
    BY DEF Later
  <2>3. PopupInv
    BY DEF RecInv
  <2>4. popup'.owner # NoObject => Kind[popup'.owner] = "selector"
    BY <2>3 DEF PopupInv
  <2>5. popup'.owner # NoObject /\ ~ popup'.committed =>
          \E m \in DOMAIN gestures' :
            /\ Heard(m)' /\ gestures'[m].what = "open_selector" /\ gestures'[m].at = popup'.since
            /\ Unpicked(m)'
    BY <2>1, <2>2, <2>3 DEF PopupInv
  <2>6. popup'.committed =>
          \E m \in DOMAIN gestures' :
            /\ Heard(m)' /\ gestures'[m].what \in Picks /\ gestures'[m].at = popup'.at
            /\ gestures'[m].obj = popup'.owner /\ gestures'[m].value = popup'.value
    BY <2>2, <2>3 DEF PopupInv
  <2>7. \A m \in DOMAIN gestures' : Underway(m)' /\ gestures'[m].what = "pick" =>
       /\ popup'.committed /\ popup'.owner = gestures'[m].obj /\ popup'.value = gestures'[m].value
       /\ gestures'[m].at - popup'.at <= DupWindow
    BY <1>1, <2>2, <2>3 DEF PopupInv
  <2> QED BY <2>4, <2>5, <2>6, <2>7 DEF PopupInv
<1>9. MenuInv'
  <2>1. \A m \in DOMAIN gestures : m \in DOMAIN gestures' /\ gestures'[m] = gestures[m]
                                   /\ (Heard(m)' <=> Heard(m)) /\ (Settled(m) => Settled(m)')
    BY DEF Later
  <2> QED BY <2>1 DEF RecInv, MenuInv, MenuOpen
<1>10. OpenInv'
  <2>1. ASSUME NEW m \in DOMAIN gestures', Newest(m)' PROVE m \in DOMAIN gestures /\ Newest(m)
    <3>1. m \in DOMAIN gestures
      BY <1>1, <2>1 DEF Newest
    <3>2. Heard(m)
      BY <2>1, <3>1 DEF Later, Newest
    <3>3. \A j \in DOMAIN gestures : j > m => ~ Heard(j)
      BY <2>1, <3>1 DEF Later, Newest
    <3> QED BY <3>1, <3>2, <3>3 DEF Newest
  <2>2. \A m \in DOMAIN gestures : gestures'[m] = gestures[m] /\ (Swallowed(m) => Swallowed(m)')
                                   /\ (ReopenedBy(m) => ReopenedBy(m)')
    BY DEF Later
  <2> QED BY <2>1, <2>2 DEF RecInv, OpenInv, MenuOpen, Active
<1>11. ItemInv'
  <2>1. \A m \in DOMAIN gestures : gestures'[m] = gestures[m] /\ (Underway(m)' <=> Underway(m))
    BY DEF Later
  <2> QED BY <1>0, <1>1, <2>1 DEF RecInv, ItemInv
<1> QED BY <1>2, <1>6, <1>7, <1>8, <1>9, <1>10, <1>11 DEF RecInv

(* Interactions are no later than a new gesture.                           *)
LEMMA GesticulateKeepsInTime ==
  ASSUME NativeWindow, IInv, GestureInv, FeedOrder, OrderInv, Gesticulate
  PROVE  OrderInv'
<1>1. PICK g, n, r : Made(g, n) /\ NewFeed(g, n, r)
  BY GesticulateFeeds
<1>2. UNCHANGED <<interactions, pending>>
  BY GesticulateFeeds
<1>3. /\ gestures'[n] = g /\ n \in DOMAIN gestures' /\ n \notin DOMAIN gestures
      /\ DOMAIN gestures' = DOMAIN gestures \cup {n}
      /\ \A m \in DOMAIN gestures : m < n /\ m \in Nat /\ gestures'[m] = gestures[m] /\ gestures[m].at \in Nat
      /\ g.at \in Nat /\ n \in Nat
  <2>1. gestures \in Seq(MadeType)
    BY DEF IInv, TypeOK, MadeType
  <2>2. \A m \in DOMAIN gestures : gestures[m] \in MadeType
    BY <2>1
  <2>3. \A m \in DOMAIN gestures : gestures[m].at \in Nat
    BY <2>2 DEF MadeType
  <2>4. g.at \in Nat
    BY <1>1 DEF Made, MadeType
  <2>5. n \notin DOMAIN gestures /\ n \in Nat
    BY <1>1, <2>1 DEF Made
  <2> QED BY <1>1, <2>3, <2>4, <2>5 DEF Made
<1>4. \A m \in DOMAIN gestures : gestures[m].at <= g.at
  <2>1. GestureInv'
    BY GesticulateKeepsGestures
  <2> QED BY <1>3, <2>1 DEF GestureInv
<1>5. \A i \in DOMAIN Feed : Feed'[i] = Feed[i]
  BY <1>1 DEF NewFeed
<1>6. \A i \in DOMAIN Feed' \ DOMAIN Feed : Feed'[i].at = g.at
  BY <1>1 DEF NewFeed, NativeReport, Tells
<1>7. ASSUME NEW t, t.completed \in Nat, InTime(t) PROVE Timely(t)
  <2>1. PICK m \in DOMAIN gestures : t.completed <= gestures[m].at
    BY <1>7 DEF InTime
  <2>2. t.completed <= g.at
    BY <1>3, <1>4, <1>7, <2>1
  <2>3. \A i \in DOMAIN Feed' : t.completed <= Feed'[i].at
    BY <1>5, <1>6, <1>7, <2>2 DEF InTime
  <2>4. \E k \in DOMAIN gestures' : t.completed <= gestures'[k].at
    BY <1>3, <2>2
  <2> QED BY <1>7, <2>3, <2>4 DEF InTime, Timely
<1>8. Transcript
  BY DEF IInv, TypeOK, Transcript
<1>9. pending # <<>> => Last.completed \in Nat
  <2>1. pending # <<>> => Last \in Interaction
    BY <1>8 DEF Transcript, Last
  <2> QED BY <2>1 DEF Interaction
<1>10. \A i \in DOMAIN interactions : interactions[i].completed \in Nat
  <2>1. \A i \in DOMAIN interactions : interactions[i] \in Interaction
    BY <1>8 DEF Transcript
  <2> QED BY <2>1 DEF Interaction
<1>11. Ordered(interactions, pending)
  BY <1>7, <1>9, <1>10 DEF OrderInv, Ordered, Sorted, Last
<1> QED BY <1>2, <1>11, OrderedNext

(* A gesture keeps the invariant.                                          *)
LEMMA GesticulateKeepsNative ==
  ASSUME NativeWindow, CInv, NInv, Gesticulate
  PROVE  NInv'
<1>1. IInv /\ GestureInv /\ FeedOrder /\ OrderInv
  BY DEF CInv, NInv
<1>2. GestureInv' /\ FeedOrder' /\ OrderInv'
  BY <1>1, GesticulateKeepsGestures, GesticulateKeepsOrder, GesticulateKeepsInTime
<1>3. PICK n : Later(n)
  BY <1>1, GestureIsLater
<1>4. UNCHANGED <<phase, attached, faulty, interactions, pending, menu, popup>>
  BY <1>1, GestureIsLater
<1>5. RecInv => RecInv'
  BY <1>3, <1>4, GesticulateKeepsRecords
<1> QED BY <1>2, <1>4, <1>5 DEF NInv, Active

(* A step the correlator takes no part in.                                 *)
LEMMA StutterKeepsRecords ==
  ASSUME RecInv, UNCHANGED <<feed, interactions, pending, menu, popup, gestures>>, Active' => Active
  PROVE  RecInv'
<1>1. /\ \A n : Settled(n)' <=> Settled(n)
      /\ \A n : Swallowed(n)' <=> Swallowed(n)
      /\ \A n : ReopenedBy(n)' <=> ReopenedBy(n)
  BY SettledSame
<1>2. Feed' = Feed /\ Last' = Last
  BY DEF Feed, Last
<1>3. /\ \A n : Ahead(n)' <=> Ahead(n)
      /\ \A n : StateAhead(n)' <=> StateAhead(n)
  BY <1>2 DEF Ahead, StateAhead, Opening, Opens
<1>4. /\ \A n : Begun(n)' <=> Begun(n)
      /\ \A n : Heard(n)' <=> Heard(n)
      /\ \A n : Underway(n)' <=> Underway(n)
  BY <1>2, <1>3 DEF Begun, Heard, Underway
<1>5. KeptInv'
  <2>1. \A n : Unseen(n)' <=> Unseen(n)
    BY <1>2 DEF Unseen
  <2>2. \A n : Filed(n)' <=> Filed(n)
    BY <1>2 DEF Filed, Right, Fits, ActionOf
  <2>3. \A n : Holding(n)' <=> Holding(n)
    BY <1>2, <1>3 DEF Holding, Fits, ActionOf
  <2> QED BY <1>1, <1>2, <1>3, <1>4, <2>1, <2>2, <2>3 DEF RecInv, KeptInv
<1>6. PendingInv'
  <2>1. \A k : Upto(k)' <=> Upto(k)
    BY <1>1, <1>2, <1>4 DEF Upto
  <2> QED BY <1>2, <1>3, <1>4, <2>1 DEF RecInv, PendingInv
<1>7. PopupInv'
  BY <1>4 DEF RecInv, PopupInv, Unpicked
<1>8. MenuInv'
  BY <1>1, <1>4 DEF RecInv, MenuInv, MenuOpen
<1>9. OpenInv'
  BY <1>1, <1>4 DEF RecInv, OpenInv, Newest, MenuOpen
<1>10. ItemInv'
  BY <1>2, <1>4 DEF RecInv, ItemInv
<1>11. KnownInv'
  BY DEF RecInv, KnownInv
<1> QED BY <1>5, <1>6, <1>7, <1>8, <1>9, <1>10, <1>11 DEF RecInv

-----------------------------------------------------------------------------
(* The life of a session, and what a complete one recorded *)

(* So does every step of the life cycle that records nothing.              *)
LEMMA QuietKeepsNative ==
  ASSUME NInv, UNCHANGED <<feed, interactions, pending, menu, popup, gestures, ui>>,
         attached' \subseteq {"javafx"}, Active' => Active, faulty \subseteq faulty'
  PROVE  NInv'
<1>1. GestureInv'
  BY StutterKeepsGestures DEF NInv
<1>2. Feed' = Feed /\ Last' = Last
  BY DEF Feed, Last
<1>3. FeedOrder'
  BY <1>2 DEF NInv, FeedOrder, Told, Tells, Rank, Ahead, StateAhead, Opening, Opens
<1>4. OrderInv'
  BY <1>2 DEF NInv, OrderInv, InTime, Precedes
<1>5. Active' \/ faulty' = {} => RecInv
  BY DEF NInv
<1>6. Active' \/ faulty' = {} => RecInv'
  BY <1>5, StutterKeepsRecords
<1> QED BY <1>1, <1>3, <1>4, <1>6 DEF NInv

(* The flush of stop() records the pending interaction as it is.           *)
LEMMA FinishStopKeepsNative ==
  ASSUME CInv, NInv, FinishStop
  PROVE  NInv'
<1>1. /\ UNCHANGED <<feed, gestures, ui, attached, faulty>>
      /\ attached = {} /\ interactions' = interactions \o pending /\ pending' = <<>>
      /\ menu' = NoMenu /\ popup' = NoPopup /\ Active /\ ~ Active'
  BY DEF FinishStop, user, Active
<1>2. Feed' = Feed /\ Transcript
  BY <1>1 DEF Feed, CInv, IInv, TypeOK, Transcript
<1>3. GestureInv'
  BY <1>1, StutterKeepsGestures DEF NInv
<1>4. FeedOrder'
  BY <1>1, <1>2 DEF NInv, FeedOrder, Told, Tells, Rank, Ahead, StateAhead, Opening, Opens
<1>5. OrderInv'
  <2>1. \A t : InTime(t) => Timely(t)
    BY <1>1, <1>2 DEF InTime, Timely
  <2>2. Ordered(interactions, pending)
    BY <2>1, OrderedAlready DEF NInv
  <2>3. Ordered(interactions', pending')
    BY <1>1, <1>2, <2>2, OrderedAppended
  <2> QED BY <2>3, OrderedNext
<1>6. RecInv
  BY <1>1 DEF NInv
<1>7. ASSUME faulty = {} PROVE RecInv'
  <2>1. Feed' = <<>> /\ Feed = <<>>
    BY <1>1, <1>7 DEF CInv, LifeInv, Frameworks, Feed
  <2>2. \A n : ~ Ahead(n)' /\ ~ Underway(n)' /\ ~ Ahead(n) /\ ~ StateAhead(n)
    BY <2>1 DEF Ahead, Underway, StateAhead
  <2>3. \A n : Settled(n)' <=> Settled(n)
    BY <1>1, SettledSame
  <2>4. /\ pending = <<>> => interactions' = interactions
        /\ pending # <<>> =>
             /\ Len(interactions) \in Nat /\ DOMAIN interactions = 1 .. Len(interactions)
             /\ DOMAIN interactions' = 1 .. Len(interactions) + 1
             /\ \A i \in DOMAIN interactions : interactions'[i] = interactions[i]
             /\ interactions'[Len(interactions) + 1] = Last
    BY <1>1, <1>2, Appended
  <2>5. \A i \in DOMAIN interactions' :
          \/ i \in DOMAIN interactions /\ interactions'[i] = interactions[i]
          \/ pending # <<>> /\ interactions'[i] = Last /\ i \notin DOMAIN interactions
    BY <2>4
  <2>6. KnownInv'
    BY <1>1, <1>6, <2>5 DEF RecInv, KnownInv, PendingInv, Upto
  <2>7. ASSUME NEW n \in DOMAIN gestures, ~ Settled(n) PROVE Filed(n)'
    <3>1. Filed(n) \/ Holding(n)
      BY <1>6, <2>2, <2>7 DEF RecInv, KeptInv, Begun
    <3>2. \E i \in DOMAIN interactions' :
            /\ n \in interactions'[i].of /\ Right(n, interactions'[i])
            /\ \A j \in DOMAIN interactions' : n \in interactions'[j].of => j = i
      <4>1. CASE Filed(n)
        <5>1. PICK i \in DOMAIN interactions :
                /\ n \in interactions[i].of /\ Right(n, interactions[i])
                /\ \A j \in DOMAIN interactions : n \in interactions[j].of => j = i
          BY <4>1 DEF Filed
        <5>2. pending # <<>> => n \notin Last.of
          BY <4>1 DEF Filed
        <5>3. i \in DOMAIN interactions' /\ interactions'[i] = interactions[i]
          BY <2>4, <5>1
        <5>4. \A j \in DOMAIN interactions' : n \in interactions'[j].of => j = i
          BY <2>5, <5>1, <5>2
        <5> QED BY <5>1, <5>3, <5>4
      <4>2. CASE Holding(n)
        <5>1. pending # <<>> /\ n \in Last.of /\ Right(n, Last) /\ \A i \in DOMAIN interactions : n \notin interactions[i].of
          BY <2>2, <4>2 DEF Holding, Right
        <5>2. Len(interactions) + 1 \in DOMAIN interactions' /\ interactions'[Len(interactions) + 1] = Last
          BY <2>4, <5>1
        <5>3. \A j \in DOMAIN interactions' : n \in interactions'[j].of => j = Len(interactions) + 1
          BY <2>4, <5>1
        <5> QED BY <5>1, <5>2, <5>3
      <4> QED BY <3>1, <4>1, <4>2
    <3>3. \A i \in DOMAIN interactions' : Right(n, interactions'[i]) => Right(n, interactions[i])'
      BY <1>1 DEF Right, Fits, ActionOf
    <3> QED BY <1>1, <3>2, <3>3 DEF Filed
  <2>8. KeptInv'
    BY <1>1, <2>2, <2>3, <2>7 DEF KeptInv
  <2>9. PendingInv'
    BY <1>1 DEF PendingInv
  <2>10. PopupInv'
    <3>1. popup'.owner = NoObject /\ ~ popup'.committed
      BY <1>1 DEF NoPopup
    <3> QED BY <2>2, <3>1 DEF PopupInv
  <2>11. MenuInv'
    BY <1>1 DEF MenuInv, MenuOpen, NoMenu
  <2>12. OpenInv'
    BY <1>1 DEF OpenInv
  <2>13. ItemInv'
    BY <1>1, <1>6, <2>2, <2>5 DEF RecInv, ItemInv
  <2> QED BY <2>6, <2>8, <2>9, <2>10, <2>11, <2>12, <2>13 DEF RecInv
<1> QED BY <1>1, <1>3, <1>4, <1>5, <1>7 DEF NInv

(* Every step keeps the invariant.                                         *)
LEMMA NextNInv ==
  ASSUME Alone, NativeWindow, CInv, NInv, [Next]_vars
  PROVE  NInv'
<1>1. attached \subseteq {"javafx"}
  BY DEF NInv, FeedOrder
<1>2. ASSUME NEW a \in DOMAIN feed, Observe(a) PROVE NInv'
  <2>1. a \in Frameworks
    BY DEF CInv, IInv, TypeOK
  <2> QED BY <1>2, <2>1, ObserveKeepsNative
<1>3. ASSUME NEW a \in DOMAIN feed, StopAdapter(a) PROVE NInv'
  <2>1. /\ UNCHANGED <<feed, interactions, pending, menu, popup, gestures, ui, phase>>
        /\ attached' \subseteq {"javafx"} /\ faulty \subseteq faulty'
    BY <1>1, <1>3 DEF StopAdapter, transcript, contexts, user
  <2> QED BY <2>1, QuietKeepsNative DEF Active
<1>4. CASE StartAdapter
  <2>1. /\ UNCHANGED <<feed, interactions, pending, menu, popup, gestures, ui, faulty>> /\ Active
    BY <1>4 DEF StartAdapter, transcript, contexts, user, Active
  <2>2. PICK i \in DOMAIN Adapters : attached' = attached \cup {Adapters[i]}
    BY <1>4 DEF StartAdapter
  <2>3. Adapters[i] = "javafx"
    BY <2>2 DEF Alone
  <2> QED BY <1>1, <2>1, <2>2, <2>3, QuietKeepsNative
<1>5. CASE StartFails \/ RequestStop \/ Abandon
  <2>1. /\ UNCHANGED <<attached, faulty, feed, interactions, pending, menu, popup, gestures, ui>> /\ Active
    BY <1>5 DEF StartFails, RequestStop, Abandon, transcript, contexts, user, Active
  <2> QED BY <1>1, <2>1, QuietKeepsNative
<1>6. CASE FinishStop
  BY <1>6, FinishStopKeepsNative
<1>7. CASE Gesticulate
  BY <1>7, GesticulateKeepsNative
<1>8. CASE UNCHANGED vars
  <2>1. UNCHANGED <<phase, attached, faulty, feed, interactions, pending, menu, popup, gestures, ui>>
    BY <1>8 DEF vars, transcript, contexts, user
  <2> QED BY <1>1, <2>1, QuietKeepsNative DEF Active
<1> QED BY <1>2, <1>3, <1>4, <1>5, <1>6, <1>7, <1>8 DEF Next, Terminated

LEMMA InitNInv == Init => NInv
<1> SUFFICES ASSUME Init PROVE NInv
  OBVIOUS
<1>1. /\ Feed = <<>> /\ feed["atspi"] = <<>> /\ gestures = <<>> /\ interactions = <<>> /\ pending = <<>> /\ ui = NoObject
      /\ attached = {}
  BY DEF Init, Feed, Frameworks
<1>2. menu.owner = NoObject /\ menu.absorbed = {} /\ popup.owner = NoObject /\ ~ popup.committed
  BY DEF Init, NoMenu, NoPopup
<1>3. GestureInv
  BY <1>1 DEF GestureInv
<1>4. FeedOrder
  BY <1>1 DEF FeedOrder
<1>5. OrderInv
  BY <1>1 DEF OrderInv
<1>6. RecInv
  BY <1>1, <1>2 DEF RecInv, KnownInv, KeptInv, PendingInv, PopupInv, MenuInv, MenuOpen, OpenInv, ItemInv
<1> QED BY <1>3, <1>4, <1>5, <1>6 DEF NInv

(* What the invariant says of a session that ended.                        *)
LEMMA FaithfulOfNInv == ASSUME CInv, NInv PROVE Faithful
<1> SUFFICES ASSUME Complete, NEW n \in DOMAIN gestures, Recordable(n), ~ Shadowed(n)
             PROVE  \E i \in DOMAIN interactions :
                      /\ AccountsFor(n) = {i}
                      /\ interactions[i].obj = gestures[n].obj
                      /\ interactions[i].action = IF gestures[n].what \in DOMAIN Expected
                                                  THEN Expected[gestures[n].what] ELSE "select_item"
                      /\ gestures[n].what \in Picks \cup {"switch_tab"} =>
                           interactions[i].value = gestures[n].value
  BY DEF Faithful
<1>1. RecInv /\ GestureInv
  BY DEF NInv, Complete
<1>2. Feed = <<>> /\ pending = <<>>
  BY DEF CInv, LifeInv, Complete, Active, Feed, Frameworks
<1>3. Begun(n)
  BY <1>2 DEF Begun, Ahead
<1>4. Filed(n)
  BY <1>1, <1>2, <1>3 DEF RecInv, KeptInv, Settled, Holding
<1>5. PICK i \in DOMAIN interactions :
        /\ n \in interactions[i].of /\ Right(n, interactions[i])
        /\ \A j \in DOMAIN interactions : n \in interactions[j].of => j = i
  BY <1>4 DEF Filed
<1>6. AccountsFor(n) = {i}
  BY <1>5 DEF AccountsFor
<1>7. gestures[n].what # "switch_tab"
  BY <1>1 DEF GestureInv, OnKind, KindsOf
<1> QED BY <1>5, <1>6, <1>7 DEF Right, Fits, ActionOf

LEMMA InOrderOfNInv == ASSUME CInv, NInv PROVE InOrder
<1>1. Transcript
  BY DEF CInv, IInv, TypeOK, Transcript
<1>2. Sorted(interactions, pending)
  BY DEF NInv, OrderInv, Sorted, Last
<1>3. Sorted(interactions \o pending, <<>>)
  BY <1>1, <1>2, SortedAppended
<1> QED BY <1>3 DEF Sorted, Precedes, InOrder

LEMMA MenusOfNInv == ASSUME NativeWindow, CInv, NInv PROVE ChoicesKnowTheirMenu
<1> SUFFICES ASSUME Complete, NEW n \in DOMAIN gestures, gestures[n].what = "choose",
                    NEW i \in AccountsFor(n), interactions[i].obj = gestures[n].obj
             PROVE  \E m \in 1 .. n : gestures[m].what = "open_menu" /\ gestures[m].obj = interactions[i].menu
  BY DEF ChoicesKnowTheirMenu
<1>1. RecInv /\ GestureInv
  BY DEF NInv, Complete
<1>2. Kind[gestures[n].obj] = "item" /\ n - 1 \in DOMAIN gestures /\ gestures[n - 1].what = "open_menu"
  BY <1>1 DEF GestureInv, OnKind, KindsOf, After
<1>3. Kind[gestures[n - 1].obj] = "menu"
  BY <1>1, <1>2 DEF GestureInv, OnKind, KindsOf
<1>4. interactions[i].menu \in Objects /\ Kind[interactions[i].menu] = "menu"
  BY <1>1, <1>2 DEF RecInv, ItemInv, AccountsFor
<1>5. gestures \in Seq(MadeType)
  BY DEF CInv, IInv, TypeOK, MadeType
<1>6. gestures[n - 1].obj \in Objects /\ n - 1 \in 1 .. n
  <2>1. gestures[n - 1] \in MadeType
    BY <1>2, <1>5
  <2>2. n - 1 \in 1 .. n
    BY <1>2, <1>5
  <2> QED BY <2>1, <2>2 DEF MadeType
<1> QED BY <1>2, <1>3, <1>4, <1>6 DEF NativeWindow

(* With the native agent alone, whatever the objects, the windows and the  *)
(* pace of the reports: every gesture outside the shadow of an opener      *)
(* becomes exactly one interaction on its object, with the action and the  *)
(* value to replay; the interactions are in the order of the gestures; and *)
(* a chosen item is recorded with its menu.                                *)
THEOREM NativelyRecorded ==
  ASSUME Alone, NativeWindow
  PROVE  Spec => [](Faithful /\ InOrder /\ ChoicesKnowTheirMenu)
<1>1. Init => CInv /\ NInv
  BY InitCInv, InitNInv
<1>2. CInv /\ NInv /\ [Next]_vars => CInv' /\ NInv'
  BY NextCInv, NextNInv
<1>3. CInv /\ NInv => Faithful /\ InOrder /\ ChoicesKnowTheirMenu
  BY FaithfulOfNInv, InOrderOfNInv, MenusOfNInv
<1> QED BY <1>1, <1>2, <1>3, PTL DEF Spec

-----------------------------------------------------------------------------
(* A user who waits for both adapters *)

(* The kind of object each gesture is made on.                             *)
SceneKinds ==
  [click |-> "button", right_click |-> "button", check |-> "check", type |-> "field",
   switch_tab |-> "tabs", choose |-> "item", open_menu |-> "menu", open_selector |-> "selector",
   pick |-> "selector", pick_by_key |-> "selector"]

OnScene(g) ==
  /\ g.what = "dismiss" \/ (g.what \in DOMAIN SceneKinds /\ Kind[g.obj] = SceneKinds[g.what])
  /\ g.what \in Picks => g.value # NoValue

SceneInv ==
  \A n \in DOMAIN gestures :
    /\ OnScene(gestures[n])
    /\ \A m \in DOMAIN gestures : m <= n => gestures[m].at <= gestures[n].at

(* What an adapter reports of a gesture.                                   *)
Says(a, o, g) ==
  /\ o.at = g.at /\ (a = "javafx" => o.fw = "javafx")
  /\ \/ /\ o.type = "pointer" /\ g.what \notin {"dismiss", "type", "pick_by_key"}
        /\ o.detail = IF g.what = "right_click" THEN "secondary" ELSE "primary"
        /\ o.value = IF o.fw = "javafx" /\ g.what = "pick" THEN g.value ELSE NoValue
     \/ o.type = "text" /\ g.what = "type"
     \/ o.type = "state" /\ g.what = "check" /\ o.detail \in {"selected", "checked"}
     \/ o.type = "state" /\ g.what = "switch_tab" /\ o.detail = "tab_selection"
     \/ /\ a = "javafx" /\ o.type = "state" /\ g.what \in Picks
        /\ o.detail = "value" /\ o.value = g.value
     \/ o.type = "action" /\ g.what = "check"
     \/ a = "javafx" /\ o.type = "action" /\ g.what \in Clicks \cup Picks /\ o.detail = "activate"

(* The adapters still report the latest gesture only, the native agent the *)
(* release before anything else.                                           *)
CalmFeed ==
  /\ \A a \in Frameworks : \A i \in DOMAIN feed[a] :
       /\ feed[a][i].gesture = Len(gestures)
       /\ Says(a, feed[a][i], gestures[Len(gestures)])
  /\ \A i \in DOMAIN feed["javafx"] : feed["javafx"][i].type = "pointer" => i = 1

ReleaseAhead(n) ==
  \E i \in DOMAIN feed["javafx"] : feed["javafx"][i].gesture = n /\ feed["javafx"][i].type = "pointer"

InFlight(n) == \E a \in Frameworks : \E i \in DOMAIN feed[a] : feed[a][i].gesture = n

Observed(S) == S \subseteq DOMAIN gestures

(* What was recorded is of gestures made; the pending interaction was last *)
(* extended by the latest gesture it accounts for.                         *)
SourcesInv ==
  /\ \A i \in DOMAIN interactions : Observed(interactions[i].of)
  /\ Observed(menu.absorbed)
  /\ pending # <<>> =>
       /\ Observed(Last.of)
       /\ \E k \in DOMAIN gestures :
            /\ gestures[k].obj = Last.obj /\ gestures[k].at = Last.completed
            /\ \A n \in Last.of : n <= k

(* The contexts stem from gestures.                                        *)
OpenedInv ==
  /\ MenuOpen => \E m \in DOMAIN gestures :
       gestures[m].what = "open_menu" /\ gestures[m].at = menu.since
  /\ popup.owner # NoObject => Kind[popup.owner] = "selector"
  /\ popup.owner # NoObject /\ ~ popup.committed /\ popup.fw = "javafx" =>
       \E m \in DOMAIN gestures :
         gestures[m].what = "open_selector" /\ gestures[m].at = popup.since

PickedFor(m) ==
  /\ gestures[m].what \in Picks /\ gestures[m].at = popup.at
  /\ gestures[m].obj = popup.owner /\ gestures[m].value = popup.value

CommittedInv == popup.committed => \E m \in DOMAIN gestures : PickedFor(m)

(* The gestures both adapters report as one interaction.                   *)
Counted(n) ==
  /\ SeenByAll(n)
  /\ \/ gestures[n].what \in Clicks /\ ~ Swallowed(n)
     \/ gestures[n].what = "pick" /\ ~ Repeated(n)

Nowhere(n) ==
  /\ pending # <<>> => n \notin Last.of
  /\ \A i \in DOMAIN interactions : n \notin interactions[i].of
  /\ n \notin menu.absorbed

(* It is accounted for in one place at most.                               *)
Apart(n) ==
  /\ \A i, j \in DOMAIN interactions : n \in interactions[i].of /\ n \in interactions[j].of => i = j
  /\ n \in menu.absorbed => \A i \in DOMAIN interactions : n \notin interactions[i].of
  /\ pending # <<>> /\ n \in Last.of =>
       n \notin menu.absorbed /\ \A i \in DOMAIN interactions : n \notin interactions[i].of

(* An interaction that records gesture n.                                  *)
Records(n, i) ==
  /\ i.obj = gestures[n].obj /\ i.action = ActionOf(n)
  /\ gestures[n].what = "pick" => i.value = gestures[n].value

Natively(n, i) == Records(n, i) /\ i.fw = "javafx"

(* No adapter placed it yet: the native release is still to come.          *)
Unplaced(n) ==
  /\ ReleaseAhead(n) /\ Nowhere(n)
  /\ popup.committed => \E m \in DOMAIN gestures : m # n /\ PickedFor(m)

(* One adapter placed it, and the reports to come find it.                 *)
Placed(n) ==
  /\ n = Len(gestures)
  /\ pending # <<>> /\ n \in Last.of /\ Records(n, Last)
  /\ Last.completed = gestures[n].at
  /\ Last.fw = "javafx" \/ ReleaseAhead(n)
  /\ gestures[n].what = "pick" => popup.committed /\ PickedFor(n) /\ Last.fw = "javafx"

(* It is recorded, or lost to a menu for good.                             *)
Final(n) ==
  /\ ~ InFlight(n)
  /\ \/ gestures[n].what # "pick" /\ Absorbed(n)
     \/ pending # <<>> /\ n \in Last.of /\ Natively(n, Last)
     \/ \E i \in DOMAIN interactions : n \in interactions[i].of /\ Natively(n, interactions[i])

OnceInv ==
  \A n \in DOMAIN gestures : Counted(n) => Apart(n) /\ (Unplaced(n) \/ Placed(n) \/ Final(n))

RInv == SourcesInv /\ OpenedInv /\ CommittedInv /\ OnceInv

Attachment == attached \in {{}, {"atspi"}, {"atspi", "javafx"}}

PInv ==
  /\ SceneInv /\ CalmFeed /\ Attachment
  /\ (Active \/ faulty = {} => RInv)

-----------------------------------------------------------------------------
(* What the adapters report to such a user *)

(* Two adapters, started in this order, and a user who waits for both.     *)
PatientUser == Calm /\ Adapters = <<"atspi", "javafx">>

(* What the user can do next suits its object.                             *)
LEMMA PossibleOnScene ==
  ASSUME NEW p \in Possible
  PROVE  OnScene(p)
<1>1. CASE p \in {[what |-> "dismiss", obj |-> ui, value |-> NoValue] : x \in {ui} \cap Objects}
  BY <1>1 DEF OnScene, Picks
<1>2. CASE p \in {g \in Gesture("pick", "selector", Values, TRUE)
                        \cup Gesture("pick_by_key", "selector", Values, TRUE) : g.obj = ui}
  <2>1. PICK open : \/ p \in Gesture("pick", "selector", Values, open)
                    \/ p \in Gesture("pick_by_key", "selector", Values, open)
    BY <1>2
  <2>2. /\ \/ p.what = "pick" /\ Kind[p.obj] = "selector"
           \/ p.what = "pick_by_key" /\ Kind[p.obj] = "selector"
        /\ p.value \in Values
    BY <2>1, GestureType, GestureShape
  <2> QED BY <2>2, ObjectsAssumption DEF OnScene, SceneKinds
<1>3. CASE \/ p \in Gesture("click", "button", {NoValue}, TRUE)
           \/ p \in Gesture("right_click", "button", {NoValue}, TRUE)
           \/ p \in Gesture("check", "check", {NoValue}, TRUE)
           \/ p \in Gesture("type", "field", Values, TRUE)
           \/ p \in Gesture("switch_tab", "tabs", Values, TRUE)
           \/ p \in Gesture("open_menu", "menu", {NoValue}, TRUE)
           \/ p \in Gesture("open_selector", "selector", {NoValue}, TRUE)
           \/ p \in Gesture("choose", "item", {NoValue}, ui \in Objects /\ Kind[ui] = "menu")
  <2>1. PICK values, open :
          \/ p \in Gesture("click", "button", values, open)
          \/ p \in Gesture("right_click", "button", values, open)
          \/ p \in Gesture("check", "check", values, open)
          \/ p \in Gesture("type", "field", values, open)
          \/ p \in Gesture("switch_tab", "tabs", values, open)
          \/ p \in Gesture("open_menu", "menu", values, open)
          \/ p \in Gesture("open_selector", "selector", values, open)
          \/ p \in Gesture("choose", "item", values, open)
    BY <1>3
  <2>2. \/ p.what = "click" /\ Kind[p.obj] = "button"
        \/ p.what = "right_click" /\ Kind[p.obj] = "button"
        \/ p.what = "check" /\ Kind[p.obj] = "check"
        \/ p.what = "type" /\ Kind[p.obj] = "field"
        \/ p.what = "switch_tab" /\ Kind[p.obj] = "tabs"
        \/ p.what = "open_menu" /\ Kind[p.obj] = "menu"
        \/ p.what = "open_selector" /\ Kind[p.obj] = "selector"
        \/ p.what = "choose" /\ Kind[p.obj] = "item"
    BY <2>1, GestureShape
  <2> QED BY <2>2 DEF OnScene, SceneKinds, Picks
<1> QED BY <1>1, <1>2, <1>3, Zenon DEF Possible

(* r is what adapter a reports of gesture n, whose record is g: the native *)
(* agent the release first.                                                *)
PatientReport(a, r, g, n) ==
  /\ \A i \in DOMAIN r : r[i].gesture = n /\ Says(a, r[i], g) /\ (r[i].type = "pointer" => i = 1)
  /\ a = "javafx" /\ g.what \in Clicks \cup {"pick"} => \E i \in DOMAIN r : r[i].type = "pointer"

LEMMA ReportsPatiently ==
  ASSUME NEW g, NEW n, NEW a \in Frameworks, NEW fw, OnScene(g)
  PROVE  PatientReport(a, Reported(a, g, n, fw), g, n)
<1> DEFINE f == IF a = "javafx" THEN "javafx" ELSE fw
           p == Event(g, n, f, "pointer", IF g.what = "right_click" THEN "secondary" ELSE "primary",
                      IF f = "javafx" /\ g.what = "pick" THEN g.value ELSE NoValue)
           t == Event(g, n, a, "text", "text", g.value)
           s(d) == Event(g, n, f, "state", d, g.value)
           c(d) == Event(g, n, f, "action", d, NoValue)
<1>0. PICK r : r = Reported(a, g, n, fw)
  OBVIOUS
<1>1. /\ g.what \notin {"dismiss", "type", "pick_by_key"} => Says(a, p, g)
      /\ p.gesture = n /\ p.type = "pointer"
  BY DEF Says, Event
<1>2. (g.what = "type" => Says(a, t, g)) /\ t.gesture = n /\ t.type = "text"
  BY DEF Says, Event
<1>3. ASSUME NEW d
      PROVE  /\ s(d).gesture = n /\ s(d).type = "state" /\ c(d).gesture = n /\ c(d).type = "action"
             /\ g.what = "check" /\ d \in {"selected", "checked"} => Says(a, s(d), g)
             /\ g.what = "switch_tab" /\ d = "tab_selection" => Says(a, s(d), g)
             /\ a = "javafx" /\ g.what \in Picks /\ d = "value" => Says(a, s(d), g)
             /\ g.what = "check" => Says(a, c(d), g)
             /\ a = "javafx" /\ g.what \in Clicks \cup Picks /\ d = "activate" => Says(a, c(d), g)
  BY DEF Says, Event
<1>4. a \in {"javafx", "atspi"}
  BY DEF Frameworks
<1>5. r = CASE g.what = "type" -> <<t>>
       [] g.what = "check" /\ a = "javafx" -> <<p, s("selected"), c("activate")>>
       [] g.what = "check" /\ a = "atspi" -> <<p, s("checked"), c("toggle")>>
       [] g.what \in {"click", "choose"} /\ a = "javafx" -> <<p, c("activate")>>
       [] g.what = "pick" /\ a = "javafx" -> <<p, s("value"), c("activate")>>
       [] g.what = "pick_by_key" /\ a = "javafx" -> <<s("value"), c("activate")>>
       [] g.what = "pick_by_key" /\ a = "atspi" -> <<>>
       [] g.what = "dismiss" -> <<>>
       [] g.what = "switch_tab" /\ a = "javafx" -> <<p, s("tab_selection")>>
       [] OTHER -> <<p>>
  BY <1>0 DEF Reported
<1>6. PICK s1, s2, s3, s4, c1, c2 :
        /\ s1 = s("selected") /\ s2 = s("checked") /\ s3 = s("value") /\ s4 = s("tab_selection")
        /\ c1 = c("activate") /\ c2 = c("toggle")
  OBVIOUS
<1>7. /\ \A x \in {s1, s2, s3, s4} : x.gesture = n /\ x.type = "state"
      /\ \A x \in {c1, c2} : x.gesture = n /\ x.type = "action"
      /\ g.what = "check" => Says(a, s1, g) /\ Says(a, s2, g) /\ Says(a, c1, g) /\ Says(a, c2, g)
      /\ g.what = "switch_tab" => Says(a, s4, g)
      /\ a = "javafx" /\ g.what \in Picks => Says(a, s3, g)
      /\ a = "javafx" /\ g.what \in Clicks \cup Picks => Says(a, c1, g)
  BY <1>3, <1>6
<1>8. \/ g.what \notin {"dismiss", "type", "pick_by_key"} /\ r = <<p>>
         /\ (a = "javafx" => g.what \notin {"click", "choose", "pick", "check"})
      \/ g.what = "type" /\ r = <<t>>
      \/ g.what = "check" /\ (r = <<p, s1, c1>> \/ r = <<p, s2, c2>>)
      \/ g.what \in {"click", "choose"} /\ a = "javafx" /\ r = <<p, c1>>
      \/ g.what = "pick" /\ a = "javafx" /\ r = <<p, s3, c1>>
      \/ g.what = "pick_by_key" /\ a = "javafx" /\ r = <<s3, c1>>
      \/ g.what \in {"pick_by_key", "dismiss"} /\ r = <<>>
      \/ g.what = "switch_tab" /\ r = <<p, s4>>
  BY <1>4, <1>5, <1>6
<1> HIDE DEF p, t, s, c
<1>9. CASE g.what \notin {"dismiss", "type", "pick_by_key"} /\ r = <<p>>
  <2>1. DOMAIN r = 1 .. 1 /\ r[1] = p
    BY <1>9
  <2> QED BY <1>0, <1>1, <1>9, <2>1 DEF PatientReport
<1>10. CASE g.what = "type" /\ r = <<t>>
  <2>1. DOMAIN r = 1 .. 1 /\ r[1] = t
    BY <1>10
  <2> QED BY <1>0, <1>2, <1>10, <2>1 DEF PatientReport, Clicks
<1>11. CASE g.what = "check" /\ (r = <<p, s1, c1>> \/ r = <<p, s2, c2>>)
  <2>1. DOMAIN r = 1 .. 3 /\ r[1] = p /\ r[2] \in {s1, s2} /\ r[3] \in {c1, c2}
    BY <1>11
  <2>2. /\ \A x \in {s1, s2} : Says(a, x, g) /\ x.gesture = n /\ x.type = "state"
        /\ \A x \in {c1, c2} : Says(a, x, g) /\ x.gesture = n /\ x.type = "action"
    BY <1>7, <1>11
  <2> QED BY <1>0, <1>1, <1>11, <2>1, <2>2 DEF PatientReport
<1>12. CASE g.what \in {"click", "choose"} /\ a = "javafx" /\ r = <<p, c1>>
  <2>1. DOMAIN r = 1 .. 2 /\ r[1] = p /\ r[2] = c1
    BY <1>12
  <2> QED BY <1>0, <1>1, <1>7, <1>12, <2>1 DEF PatientReport, Clicks
<1>13. CASE g.what = "pick" /\ a = "javafx" /\ r = <<p, s3, c1>>
  <2>1. DOMAIN r = 1 .. 3 /\ r[1] = p /\ r[2] = s3 /\ r[3] = c1
    BY <1>13
  <2> QED BY <1>0, <1>1, <1>7, <1>13, <2>1 DEF PatientReport, Picks
<1>14. CASE g.what = "pick_by_key" /\ a = "javafx" /\ r = <<s3, c1>>
  <2>1. DOMAIN r = 1 .. 2 /\ r[1] = s3 /\ r[2] = c1
    BY <1>14
  <2> QED BY <1>0, <1>7, <1>14, <2>1 DEF PatientReport, Picks, Clicks
<1>15. CASE g.what \in {"pick_by_key", "dismiss"} /\ r = <<>>
  BY <1>0, <1>15 DEF PatientReport, Clicks
<1>16. CASE g.what = "switch_tab" /\ r = <<p, s4>>
  <2>1. DOMAIN r = 1 .. 2 /\ r[1] = p /\ r[2] = s4
    BY <1>16
  <2> QED BY <1>0, <1>1, <1>7, <1>16, <2>1 DEF PatientReport
<1> QED BY <1>8, <1>9, <1>10, <1>11, <1>12, <1>13, <1>14, <1>15, <1>16

(* The reports of the gesture just made are all there is to deliver.       *)
NewReports(g, n) ==
  /\ \A a \in Frameworks : \A i \in DOMAIN feed'[a] :
       feed'[a][i].gesture = n /\ Says(a, feed'[a][i], g)
  /\ \A i \in DOMAIN feed'["javafx"] : feed'["javafx"][i].type = "pointer" => i = 1
  /\ "javafx" \in attached /\ g.what \in Clicks \cup {"pick"} => ReleaseAhead(n)'

LEMMA GesticulatePatiently ==
  ASSUME PatientUser, IInv, Gesticulate
  PROVE  /\ \E g, n : Made(g, n) /\ OnScene(g) /\ NewReports(g, n)
         /\ \A a \in Frameworks : feed[a] = <<>>
         /\ UNCHANGED <<phase, attached, faulty, interactions, pending, menu, popup>>
<1>1. PICK g, n : \E fw \in AtspiFrameworks : Made(g, n) /\ Delivered(g, n, fw)
  BY GestureMade
<1>2. PICK fw \in AtspiFrameworks : Made(g, n) /\ Delivered(g, n, fw)
  BY <1>1
<1>3. \A a \in Frameworks : feed[a] = <<>>
  BY DEF PatientUser, Gesticulate, IInv, TypeOK
<1>4. OnScene(g)
  <2>1. PICK p \in Possible : p = [what |-> g.what, obj |-> g.obj, value |-> g.value]
    BY <1>2 DEF Made
  <2> QED BY <2>1, PossibleOnScene DEF OnScene
<1>5. ASSUME NEW a \in Frameworks
      PROVE  LET r == Reported(a, g, n, fw) IN
             /\ PatientReport(a, r, g, n)
             /\ \A i \in DOMAIN feed'[a] : i \in DOMAIN r /\ feed'[a][i] = r[i]
             /\ a \in attached => \A i \in DOMAIN r : i \in DOMAIN feed'[a] /\ feed'[a][i] = r[i]
  <2>1. PICK r : r = Reported(a, g, n, fw)
    OBVIOUS
  <2>2. PatientReport(a, r, g, n)
    BY <1>4, <2>1, ReportsPatiently
  <2>3. feed[a] = <<>> /\ Len(feed[a]) = 0 /\ DOMAIN feed[a] = {}
    BY <1>3
  <2>4. r \in Seq(Observation)
    BY <1>2, <2>1, FeedAfter DEF Reports
  <2>5. \A j \in DOMAIN r : 0 + j = j
    BY <2>4
  <2>6. /\ \A i \in DOMAIN feed'[a] : \E j \in DOMAIN r : i = 0 + j /\ feed'[a][i] = r[j]
        /\ a \in attached => \A j \in DOMAIN r : 0 + j \in DOMAIN feed'[a] /\ feed'[a][0 + j] = r[j]
    BY <1>2, <2>1, <2>3, FeedAfter
  <2> QED BY <2>1, <2>2, <2>5, <2>6
<1>6. "javafx" \in Frameworks
  BY DEF Frameworks
<1>7. NewReports(g, n)
  <2>1. \A a \in Frameworks : \A i \in DOMAIN feed'[a] : feed'[a][i].gesture = n /\ Says(a, feed'[a][i], g)
    BY <1>5 DEF PatientReport
  <2>2. \A i \in DOMAIN feed'["javafx"] : feed'["javafx"][i].type = "pointer" => i = 1
    BY <1>5, <1>6 DEF PatientReport
  <2>3. ASSUME "javafx" \in attached, g.what \in Clicks \cup {"pick"} PROVE ReleaseAhead(n)'
    <3>1. PICK r : r = Reported("javafx", g, n, fw)
      OBVIOUS
    <3>2. PICK i \in DOMAIN r : r[i].type = "pointer" /\ r[i].gesture = n
      BY <1>5, <1>6, <2>3, <3>1 DEF PatientReport
    <3>3. i \in DOMAIN feed'["javafx"] /\ feed'["javafx"][i] = r[i]
      BY <1>5, <1>6, <2>3, <3>1, <3>2
    <3> QED BY <3>2, <3>3 DEF ReleaseAhead
  <2> QED BY <2>1, <2>2, <2>3 DEF NewReports
<1> QED BY <1>2, <1>3, <1>4, <1>7, GestureMade

-----------------------------------------------------------------------------
(* Gestures and reports of such a user *)

LEMMA GesturesGrow ==
  ASSUME IInv, Gesticulate, NEW g, NEW n, Made(g, n)
  PROVE  /\ n = Len(gestures) + 1 /\ Len(gestures) \in Nat /\ DOMAIN gestures = 1 .. Len(gestures)
         /\ DOMAIN gestures' = 1 .. n /\ Len(gestures') = n /\ gestures'[n] = g
         /\ \A m \in DOMAIN gestures : m < n /\ m \in Nat /\ gestures'[m] = gestures[m]
<1>1. gestures \in Seq(MadeType)
  BY DEF IInv, TypeOK, MadeType
<1>2. DOMAIN gestures' = 1 .. n
  BY <1>1 DEF Made
<1>3. Len(gestures') = n
  <2>1. \E m : gestures' = Append(gestures, m)
    BY DEF Gesticulate
  <2> QED BY <1>1, <2>1 DEF Made
<1> QED BY <1>1, <1>2, <1>3 DEF Made

LEMMA GestureTimes ==
  ASSUME IInv
  PROVE  /\ \A m \in DOMAIN gestures : gestures[m].at \in Nat /\ m \in Nat /\ m >= 1 /\ m <= Len(gestures)
         /\ Len(gestures) \in Nat /\ DOMAIN gestures = 1 .. Len(gestures)
<1>1. gestures \in Seq(MadeType)
  BY DEF IInv, TypeOK, MadeType
<1>2. \A m \in DOMAIN gestures : gestures[m] \in MadeType
  BY <1>1
<1> QED BY <1>1, <1>2 DEF MadeType

LEMMA GesticulateKeepsScene ==
  ASSUME PatientUser, IInv, SceneInv, Gesticulate
  PROVE  SceneInv'
<1>1. PICK g, n : Made(g, n) /\ OnScene(g)
  BY GesticulatePatiently
<1>2. /\ n = Len(gestures) + 1 /\ Len(gestures) \in Nat /\ DOMAIN gestures = 1 .. Len(gestures)
      /\ DOMAIN gestures' = 1 .. n /\ gestures'[n] = g
      /\ \A m \in DOMAIN gestures : m < n /\ m \in Nat /\ gestures'[m] = gestures[m]
  BY <1>1, GesturesGrow
<1>3. \A m \in DOMAIN gestures' : OnScene(gestures'[m])
  <2>1. \A m \in DOMAIN gestures : OnScene(gestures[m])
    BY DEF SceneInv
  <2>2. \A m \in DOMAIN gestures' : m = n \/ m \in DOMAIN gestures
    BY <1>2
  <2> QED BY <1>1, <1>2, <2>1, <2>2
<1>4. g.at \in Nat
  BY <1>1 DEF Made, MadeType
<1>5. ASSUME NEW m \in DOMAIN gestures PROVE gestures[m].at <= g.at
  <2>1. n - 1 \in DOMAIN gestures /\ m <= n - 1
    BY <1>2
  <2>2. gestures[m].at <= gestures[n - 1].at
    BY <2>1 DEF SceneInv
  <2>3. gestures[n - 1].at <= g.at
    BY <1>1, <2>1, GestureLater
  <2> QED BY <1>4, <2>1, <2>2, <2>3, GestureTimes
<1>6. ASSUME NEW k \in DOMAIN gestures', NEW m \in DOMAIN gestures', m <= k
      PROVE  gestures'[m].at <= gestures'[k].at
  <2>1. CASE k = n
    <3>1. CASE m = n
      BY <1>2, <1>4, <2>1, <3>1
    <3>2. CASE m # n
      <4>1. m \in DOMAIN gestures
        BY <1>2, <3>2
      <4> QED BY <1>2, <1>5, <2>1, <4>1
    <3> QED BY <3>1, <3>2
  <2>2. CASE k # n
    <3>1. k \in DOMAIN gestures /\ m \in DOMAIN gestures
      BY <1>2, <1>6, <2>2
    <3> QED BY <1>2, <1>6, <3>1 DEF SceneInv
  <2> QED BY <2>1, <2>2
<1> QED BY <1>3, <1>6 DEF SceneInv, OnScene

LEMMA GesticulateKeepsFeed ==
  ASSUME PatientUser, IInv, Gesticulate
  PROVE  CalmFeed'
<1>1. PICK g, n : Made(g, n) /\ NewReports(g, n)
  BY GesticulatePatiently
<1>2. Len(gestures') = n /\ gestures'[n] = g
  BY <1>1, GesturesGrow
<1> QED BY <1>1, <1>2 DEF CalmFeed, NewReports, Says

(* Adapter a delivers o, of the latest gesture.                            *)
TakesCalmly(a, o) ==
  LET h == o.gesture IN
  /\ o \in Observation /\ Transcript /\ Contexts
  /\ h = Len(gestures) /\ h \in DOMAIN gestures /\ gestures[h].obj = o.obj /\ gestures[h].at = o.at
  /\ a \in Frameworks /\ Says(a, o, gestures[h])
  /\ UNCHANGED <<phase, attached, faulty, gestures, ui>>
  /\ \A n : /\ InFlight(n)' => InFlight(n)
            /\ InFlight(n) => n = h
            /\ ReleaseAhead(n)' => ReleaseAhead(n)
            /\ ReleaseAhead(n) => n = h /\ (a = "javafx" => o.type = "pointer")
            /\ ReleaseAhead(n) /\ a = "atspi" => ReleaseAhead(n)'
            /\ a = "javafx" => ~ ReleaseAhead(n)'
  /\ InFlight(h)

LEMMA NotTheFirst ==
  ASSUME IInv, NEW a \in Frameworks, Observe(a)
  PROVE  \A i \in DOMAIN feed'[a] : i + 1 # 1
<1>1. feed[a] \in Seq(Observation) /\ feed[a] # <<>> /\ feed'[a] = Tail(feed[a])
  BY DEF IInv, TypeOK, Observe
<1> QED BY <1>1

LEMMA TakenCalmly ==
  ASSUME IInv, CalmFeed, NEW a \in Frameworks, Observe(a), NEW o, o = Head(feed[a])
  PROVE  TakesCalmly(a, o)
<1>1. /\ o \in Observation /\ Traced(o) /\ Transcript /\ Contexts
      /\ UNCHANGED <<phase, attached, faulty, gestures, ui>>
      /\ 1 \in DOMAIN feed[a] /\ o = feed[a][1]
      /\ \A b \in Frameworks : b # a => feed'[b] = feed[b]
      /\ \A i \in DOMAIN feed'[a] : i + 1 \in DOMAIN feed[a] /\ feed'[a][i] = feed[a][i + 1] /\ i \in Nat
      /\ \A j \in DOMAIN feed[a] : j # 1 => j - 1 \in DOMAIN feed'[a] /\ feed'[a][j - 1] = feed[a][j]
  BY Taken
<1>2. o.gesture = Len(gestures) /\ Says(a, o, gestures[Len(gestures)])
  BY <1>1 DEF CalmFeed
<1>3. o.gesture \in DOMAIN gestures /\ gestures[o.gesture].obj = o.obj
  BY <1>1 DEF Traced
<1>4. gestures[o.gesture].at = o.at
  BY <1>2 DEF Says
<1>5. InFlight(o.gesture)
  BY <1>1 DEF InFlight
<1>6. "javafx" \in Frameworks /\ "atspi" \in Frameworks
  BY DEF Frameworks
<1>7. ASSUME NEW b \in Frameworks, NEW i \in DOMAIN feed'[b]
      PROVE  \E j \in DOMAIN feed[b] : feed[b][j] = feed'[b][i] /\ (b = a => j # 1)
  <2>1. CASE b = a
    <3>1. i + 1 # 1
      BY <2>1, NotTheFirst
    <3> QED BY <1>1, <2>1, <3>1
  <2>2. CASE b # a
    BY <1>1, <2>2
  <2> QED BY <2>1, <2>2
<1>8. ASSUME NEW n
      PROVE  /\ InFlight(n)' => InFlight(n)
             /\ InFlight(n) => n = o.gesture
             /\ ReleaseAhead(n)' => ReleaseAhead(n)
             /\ ReleaseAhead(n) => n = o.gesture /\ (a = "javafx" => o.type = "pointer")
             /\ ReleaseAhead(n) /\ a = "atspi" => ReleaseAhead(n)'
             /\ a = "javafx" => ~ ReleaseAhead(n)'
  <2>1. InFlight(n)' => InFlight(n)
    BY <1>7 DEF InFlight
  <2>2. InFlight(n) => n = o.gesture
    BY <1>2 DEF InFlight, CalmFeed
  <2>3. ReleaseAhead(n)' => ReleaseAhead(n)
    BY <1>6, <1>7 DEF ReleaseAhead
  <2>4. ReleaseAhead(n) => n = o.gesture /\ (a = "javafx" => o.type = "pointer")
    BY <1>1, <1>2, <1>6 DEF ReleaseAhead, CalmFeed
  <2>5. ReleaseAhead(n) /\ a = "atspi" => ReleaseAhead(n)'
    BY <1>1, <1>6 DEF ReleaseAhead
  <2>6. a = "javafx" => ~ ReleaseAhead(n)'
    BY <1>6, <1>7 DEF ReleaseAhead, CalmFeed
  <2> QED BY <2>1, <2>2, <2>3, <2>4, <2>5, <2>6
<1> QED BY <1>1, <1>2, <1>3, <1>4, <1>5, <1>8 DEF TakesCalmly

LEMMA ObserveKeepsFeed ==
  ASSUME IInv, CalmFeed, NEW a \in Frameworks, Observe(a)
  PROVE  CalmFeed'
<1>1. PICK o : o = Head(feed[a])
  OBVIOUS
<1>2. /\ UNCHANGED gestures
      /\ \A b \in Frameworks : b # a => feed'[b] = feed[b]
      /\ \A i \in DOMAIN feed'[a] : i + 1 \in DOMAIN feed[a] /\ feed'[a][i] = feed[a][i + 1] /\ i \in Nat
      /\ \A j \in DOMAIN feed[a] : j # 1 => j - 1 \in DOMAIN feed'[a] /\ feed'[a][j - 1] = feed[a][j]
  BY <1>1, Taken
<1>3. "javafx" \in Frameworks
  BY DEF Frameworks
<1>4. ASSUME NEW b \in Frameworks, NEW i \in DOMAIN feed'[b]
      PROVE  \E j \in DOMAIN feed[b] : feed[b][j] = feed'[b][i]
  BY <1>2
<1>5. \A i \in DOMAIN feed'["javafx"] : feed'["javafx"][i].type = "pointer" => i = 1
  <2>1. CASE a = "javafx"
    <3>1. \A i \in DOMAIN feed'[a] : i + 1 # 1
      BY NotTheFirst
    <3> QED BY <1>2, <2>1, <3>1 DEF CalmFeed
  <2>2. CASE a # "javafx"
    BY <1>2, <1>3, <2>2 DEF CalmFeed
  <2> QED BY <2>1, <2>2
<1> QED BY <1>2, <1>4, <1>5 DEF CalmFeed, Says

LEMMA NextKeepsAttachment ==
  ASSUME PatientUser, IInv, Attachment, [Next]_vars
  PROVE  Attachment'
<1>1. CASE UNCHANGED attached
  BY <1>1 DEF Attachment
<1>2. CASE StartAdapter
  <2>1. PICK i \in DOMAIN Adapters :
          /\ attached = {Adapters[j] : j \in 1 .. i - 1} /\ attached' = attached \cup {Adapters[i]}
    BY <1>2 DEF StartAdapter
  <2>2. i = 1 \/ i = 2
    BY DEF PatientUser
  <2>3. CASE i = 1
    <3>1. Adapters[1] = "atspi" /\ 1 .. 1 - 1 = {}
      BY DEF PatientUser
    <3> QED BY <2>1, <2>3, <3>1 DEF Attachment
  <2>4. CASE i = 2
    <3>1. Adapters[1] = "atspi" /\ Adapters[2] = "javafx" /\ 1 .. 2 - 1 = {1}
      BY DEF PatientUser
    <3> QED BY <2>1, <2>4, <3>1 DEF Attachment
  <2> QED BY <2>2, <2>3, <2>4
<1>3. ASSUME NEW a \in Frameworks, StopAdapter(a) PROVE Attachment'
  <2>1. a \in attached /\ attached' = attached \ {a} /\ \A b \in attached : Position(b) <= Position(a)
    BY <1>3 DEF StopAdapter
  <2>2. Position("atspi") = 1 /\ Position("javafx") = 2
    <3>1. DOMAIN Adapters = {1, 2} /\ Adapters[1] = "atspi" /\ Adapters[2] = "javafx"
      BY DEF PatientUser
    <3> QED BY <3>1 DEF Position
  <2>3. attached = {"atspi", "javafx"} => a = "javafx"
    BY <2>1, <2>2
  <2> QED BY <2>1, <2>3 DEF Attachment
<1>4. ASSUME NEW a \in Frameworks, Observe(a) PROVE UNCHANGED attached
  BY <1>4 DEF Observe
<1>5. StartFails \/ RequestStop \/ FinishStop \/ Abandon \/ Gesticulate \/ Terminated => UNCHANGED attached
  BY DEF StartFails, RequestStop, FinishStop, Abandon, Gesticulate, Terminated, vars
<1>6. DOMAIN feed = Frameworks
  BY DEF IInv, TypeOK
<1>7. UNCHANGED vars => UNCHANGED attached
  BY DEF vars
<1> QED BY <1>1, <1>2, <1>3, <1>4, <1>5, <1>6, <1>7 DEF Next

-----------------------------------------------------------------------------
(* What one report does to the pending interaction *)

(* The pending interaction takes the observation in.                       *)
Joined(o, action, value, S) ==
  /\ pending # <<>> /\ Last.obj = o.obj /\ UNCHANGED interactions
  /\ pending' # <<>> /\ Last'.obj = o.obj /\ Last'.completed = o.at
  /\ Last.of \cup {o.gesture} \subseteq Last'.of /\ Last'.of \subseteq Last.of \cup {o.gesture} \cup S
  /\ Last.fw = "javafx" \/ o.fw = "javafx" => Last'.fw = "javafx"
  /\ Last'.action = action /\ Last'.value = value

(* A new interaction starts with the observation.                          *)
Founded(o, action, value, S) ==
  /\ interactions' = interactions \o pending
  /\ pending' # <<>> /\ Last'.obj = o.obj /\ Last'.completed = o.at
  /\ o.gesture \in Last'.of /\ Last'.of \subseteq {o.gesture} \cup S
  /\ Last'.fw = o.fw /\ Last'.action = action /\ Last'.value = value

(* The observation is none of the past.                                    *)
Timed(o) ==
  /\ Transcript /\ o \in Observation
  /\ pending # <<>> => Last.completed <= o.at

LEMMA BeginPatiently ==
  ASSUME NEW o, Timed(o), NEW action, NEW value, NEW context \in Context,
         Begin(action, value, o, context)
  PROVE  \/ Correlates(action, value, o) /\ Joined(o, Last.action, Last.value, context.absorbed)
         \/ action = "set_text" /\ Joined(o, Last.action, value, {})
         \/ ~ Correlates(action, value, o) /\ Founded(o, action, value, context.absorbed)
<1>1. CASE Correlates(action, value, o)
  <2>1. Last \in Interaction /\ Last.obj = o.obj /\ pending # <<>>
    BY <1>1 DEF Correlates, SameLogicalTarget, Timed, Transcript, Last
  <2>2. ~ Coalesces(action, o)
    BY <1>1 DEF Correlates, Coalesces
  <2> DEFINE merged == [Last EXCEPT !.fw = PreferredFramework(o), !.completed = Latest(@, o.at),
                                    !.of = @ \cup {o.gesture}]
  <2>3. pending' = <<Attached(merged, context)>> /\ UNCHANGED interactions
    BY <1>1, <2>2 DEF Begin, Replace
  <2>4. /\ (Last.fw = "javafx" \/ o.fw = "javafx" => merged.fw = "javafx")
        /\ merged.completed = o.at /\ merged.of = Last.of \cup {o.gesture}
        /\ merged.obj = o.obj /\ merged.action = Last.action /\ merged.value = Last.value
        /\ merged \in Interaction
    <3>1. Latest(Last.completed, o.at) = o.at /\ o.at \in Nat /\ o.gesture \in 1 .. MaxGestures
      BY <2>1 DEF Timed, Latest, Observation, Interaction
    <3>2. PreferredFramework(o) \in Frameworks
          /\ (Last.fw = "javafx" \/ o.fw = "javafx" => PreferredFramework(o) = "javafx")
      BY <2>1 DEF PreferredFramework, Frameworks, Interaction
    <3> QED BY <2>1, <3>1, <3>2 DEF Interaction
  <2> HIDE DEF merged
  <2>5. Last' = Attached(merged, context) /\ pending' # <<>>
    BY <2>3 DEF Last
  <2>6. /\ Last'.completed = o.at /\ Last'.obj = o.obj /\ Last'.action = Last.action /\ Last'.value = Last.value
        /\ Last'.fw = merged.fw
        /\ merged.of \subseteq Last'.of /\ Last'.of \subseteq merged.of \cup context.absorbed
    <3>1. CASE context.owner = NoObject
      BY <2>4, <2>5, <3>1 DEF Attached
    <3>2. CASE context.owner # NoObject
      BY <2>4, <2>5, <3>2 DEF Attached, Interaction
    <3> QED BY <3>1, <3>2
  <2> QED BY <1>1, <2>1, <2>3, <2>4, <2>5, <2>6 DEF Joined
<1>2. CASE ~ Correlates(action, value, o) /\ Coalesces(action, o)
  <2>1. /\ Last \in Interaction /\ Last.obj = o.obj /\ Last.fw = o.fw /\ pending # <<>>
        /\ action = "set_text"
    BY <1>2 DEF Coalesces, SameTarget, SameLogicalTarget, Timed, Transcript, Last
  <2>2. pending' = <<[Last EXCEPT !.value = value, !.completed = o.at, !.of = @ \cup {o.gesture}]>>
        /\ UNCHANGED interactions
    BY <1>2 DEF Begin, Replace
  <2>3. Last' = [Last EXCEPT !.value = value, !.completed = o.at, !.of = @ \cup {o.gesture}] /\ pending' # <<>>
    BY <2>2 DEF Last
  <2>4. /\ Last'.completed = o.at /\ Last'.obj = o.obj /\ Last'.action = Last.action /\ Last'.value = value
        /\ Last'.fw = Last.fw /\ Last'.of = Last.of \cup {o.gesture}
    BY <2>1, <2>3 DEF Interaction
  <2> QED BY <2>1, <2>2, <2>3, <2>4 DEF Joined
<1>3. CASE ~ Correlates(action, value, o) /\ ~ Coalesces(action, o)
  <2> DEFINE fresh == Fresh(action, value, o)
  <2>1. interactions' = interactions \o pending /\ pending' = <<Attached(fresh, context)>>
    BY <1>3 DEF Begin
  <2>2. /\ fresh.fw = o.fw /\ fresh.completed = o.at /\ fresh.of = {o.gesture}
        /\ fresh.obj = o.obj /\ fresh.action = action /\ fresh.value = value
        /\ fresh = [action |-> action, obj |-> o.obj, fw |-> o.fw, value |-> value, started |-> o.at,
                    completed |-> o.at, menu |-> NoObject, of |-> {o.gesture}]
    BY DEF Fresh
  <2> HIDE DEF fresh
  <2>3. Last' = Attached(fresh, context) /\ pending' # <<>>
    BY <2>1 DEF Last
  <2>4. /\ Last'.fw = o.fw /\ Last'.completed = o.at
        /\ {o.gesture} \subseteq Last'.of /\ Last'.of \subseteq {o.gesture} \cup context.absorbed
        /\ Last'.obj = o.obj /\ Last'.action = action /\ Last'.value = value
    BY <2>2, <2>3 DEF Attached
  <2> QED BY <1>3, <2>1, <2>3, <2>4 DEF Founded
<1> QED BY <1>1, <1>2, <1>3

LEMMA MergePatiently ==
  ASSUME NEW o, Timed(o), o.type = "action", NEW context \in Context,
         SameLogicalTarget(o), MergeAction(o, context)
  PROVE  Joined(o, IF o.detail = "activate" THEN Last.action ELSE o.detail, Last.value, context.absorbed)
<1> DEFINE merged == [Last EXCEPT !.action = IF o.detail = "activate" THEN @ ELSE o.detail,
                                  !.fw = PreferredFramework(o), !.completed = o.at,
                                  !.of = @ \cup {o.gesture}]
           action == IF o.detail = "activate" THEN Last.action ELSE o.detail
<1>1. Last \in Interaction /\ Last.obj = o.obj /\ pending # <<>>
  BY DEF SameLogicalTarget, Timed, Transcript, Last
<1>2. pending' = <<Attached(merged, context)>> /\ UNCHANGED interactions
  BY DEF MergeAction, Replace
<1>3. /\ (Last.fw = "javafx" \/ o.fw = "javafx" => merged.fw = "javafx")
      /\ merged.completed = o.at /\ merged.of = Last.of \cup {o.gesture}
      /\ merged.obj = o.obj /\ merged.action = action /\ merged.value = Last.value
      /\ merged \in Interaction
  <2>1. /\ o.at \in Nat /\ o.gesture \in 1 .. MaxGestures
        /\ action \in Actions
    BY <1>1 DEF Timed, Observation, Interaction, Actions
  <2>2. PreferredFramework(o) \in Frameworks
        /\ (Last.fw = "javafx" \/ o.fw = "javafx" => PreferredFramework(o) = "javafx")
    BY <1>1 DEF PreferredFramework, Frameworks, Interaction
  <2>3. merged = [Last EXCEPT !.action = action, !.fw = PreferredFramework(o), !.completed = o.at,
                              !.of = Last.of \cup {o.gesture}]
    OBVIOUS
  <2> HIDE DEF merged, action
  <2> QED BY <1>1, <2>1, <2>2, <2>3 DEF Interaction
<1> HIDE DEF merged, action
<1>4. Last' = Attached(merged, context) /\ pending' # <<>>
  BY <1>2 DEF Last
<1>5. /\ Last'.completed = o.at /\ Last'.obj = o.obj /\ Last'.action = action /\ Last'.value = Last.value
      /\ Last'.fw = merged.fw
      /\ merged.of \subseteq Last'.of /\ Last'.of \subseteq merged.of \cup context.absorbed
  <2>1. CASE context.owner = NoObject
    BY <1>3, <1>4, <2>1 DEF Attached
  <2>2. CASE context.owner # NoObject
    BY <1>3, <1>4, <2>2 DEF Attached, Interaction
  <2> QED BY <2>1, <2>2
<1>6. Joined(o, action, Last.value, context.absorbed)
  BY <1>1, <1>2, <1>3, <1>4, <1>5 DEF Joined
<1> QED BY <1>6 DEF action

LEMMA AddDeltaPatiently ==
  ASSUME NEW o, Timed(o), AddDelta(o)
  PROVE  UNCHANGED transcript \/ Joined(o, Promoted(Last.action, o.detail), Last.value, {})
<1>1. CASE SameTarget(o)
  <2>1. Last \in Interaction /\ Last.obj = o.obj /\ Last.fw = o.fw /\ pending # <<>>
    BY <1>1 DEF SameTarget, SameLogicalTarget, Timed, Transcript, Last
  <2>2. Last' = [Last EXCEPT !.action = Promoted(@, o.detail), !.completed = o.at,
                             !.of = @ \cup {o.gesture}]
        /\ pending' # <<>> /\ UNCHANGED interactions
    BY <1>1 DEF AddDelta, Replace, Last
  <2>3. /\ Last'.fw = Last.fw /\ Last'.completed = o.at /\ Last'.of = Last.of \cup {o.gesture}
        /\ Last'.obj = o.obj /\ Last'.action = Promoted(Last.action, o.detail) /\ Last'.value = Last.value
    BY <2>1, <2>2 DEF Interaction
  <2> QED BY <2>1, <2>2, <2>3 DEF Joined
<1> QED BY <1>1 DEF AddDelta

-----------------------------------------------------------------------------
(* Where a report moves the gestures accounted for *)

(* Adapter a delivers o to a session that listens.                         *)
Calmly(a, o) ==
  CInv /\ SceneInv /\ CalmFeed /\ RInv /\ Active /\ TakesCalmly(a, o) /\ Observe(a)
  /\ o = Head(feed[a])

LEMMA ObservedCalmly ==
  ASSUME NEW a, NEW o, Calmly(a, o)
  PROVE  /\ \/ o.type = "pointer" /\ ObservePointer(o)
            \/ o.type = "text" /\ ObserveText(o)
            \/ o.type = "action" /\ ObserveAction(o)
            \/ o.type = "state" /\ ObserveState(o)
         /\ o \in Observation /\ Transcript /\ Contexts /\ o.obj \in Objects /\ o.obj # NoObject
         /\ Says(a, o, gestures[o.gesture]) /\ OnScene(gestures[o.gesture])
         /\ gestures[o.gesture].obj = o.obj /\ o.gesture \in DOMAIN gestures
<1>1. o \in Observation /\ Transcript /\ Contexts /\ o.gesture \in DOMAIN gestures /\ gestures[o.gesture].obj = o.obj
      /\ Says(a, o, gestures[o.gesture])
  BY DEF Calmly, TakesCalmly
<1>2. OnScene(gestures[o.gesture])
  BY <1>1 DEF Calmly, SceneInv
<1>3. o.obj \in Objects /\ o.obj # NoObject
  BY <1>1, ObjectsAssumption DEF Observation
<1> QED BY <1>1, <1>2, <1>3 DEF Calmly, Observe

LEMMA CalmlyTimed ==
  ASSUME NEW a, NEW o, Calmly(a, o)
  PROVE  Timed(o)
<1>1. o \in Observation /\ Transcript /\ o.gesture \in DOMAIN gestures /\ o.gesture = Len(gestures)
      /\ gestures[o.gesture].at = o.at
  BY DEF Calmly, TakesCalmly
<1>2. ASSUME pending # <<>> PROVE Last.completed <= o.at
  <2>1. PICK k \in DOMAIN gestures : gestures[k].at = Last.completed
    BY <1>2 DEF Calmly, RInv, SourcesInv
  <2>2. k <= o.gesture
    BY <1>1, <2>1, GestureTimes DEF Calmly, CInv
  <2> QED BY <1>1, <2>1, <2>2 DEF Calmly, SceneInv
<1> QED BY <1>1, <1>2 DEF Timed

(* The gestures an observation moves from the open menu.                   *)
Source(S) == S = {} \/ (S = menu.absorbed /\ menu'.absorbed = {})

Lasting == {"button", "item", "selector"}

Joins(o, S) ==
  \E action, value :
    /\ Joined(o, action, value, S)
    /\ Kind[o.obj] \in Lasting => action = Last.action /\ value = Last.value

StartsAnew(o, S) == \E action, value : Founded(o, action, value, S)

AbsorbsLast(o) ==
  /\ What(o) = "open_menu" /\ Absorbs(o)
  /\ pending' = <<>> /\ UNCHANGED interactions /\ menu'.absorbed = Last.of

(* What becomes of the gestures accounted for.                             *)
Move(o) ==
  \/ UNCHANGED transcript /\ menu'.absorbed \subseteq menu.absorbed
  \/ /\ menu'.absorbed \subseteq menu.absorbed
     /\ \E S : Source(S) /\ (Joins(o, S) \/ StartsAnew(o, S))
  \/ AbsorbsLast(o)

LEMMA BeginMoves ==
  ASSUME NEW a, NEW o, Calmly(a, o), NEW action, NEW value, NEW context \in Context,
         Begin(action, value, o, context), action = "set_text" => Kind[o.obj] = "field",
         Source(context.absorbed), menu'.absorbed \subseteq menu.absorbed
  PROVE  Move(o)
<1>1. \/ Joined(o, Last.action, Last.value, context.absorbed)
      \/ action = "set_text" /\ Joined(o, Last.action, value, {})
      \/ Founded(o, action, value, context.absorbed)
  BY CalmlyTimed, BeginPatiently
<1>2. Source({}) /\ "field" \notin Lasting
  BY DEF Source, Lasting
<1>3. \/ Joins(o, context.absorbed) \/ Joins(o, {}) \/ StartsAnew(o, context.absorbed)
  BY <1>1, <1>2 DEF Joins, StartsAnew
<1> QED BY <1>2, <1>3 DEF Move

LEMMA CommitMoves ==
  ASSUME NEW a, NEW o, Calmly(a, o), NEW value, Commit(value, o)
  PROVE  Move(o)
<1>1. menu' = menu
  BY DEF Commit
<1>2. CASE UNCHANGED transcript
  BY <1>1, <1>2 DEF Move
<1>3. CASE Begin("select_item", value, o, NoMenu)
  <2>1. NoMenu \in Context /\ Source(NoMenu.absorbed)
    BY NoMenuIsContext DEF NoMenu, Source
  <2> QED BY <1>1, <1>3, <2>1, BeginMoves
<1> QED BY <1>2, <1>3 DEF Commit

LEMMA MenuIsContext ==
  ASSUME Contexts
  PROVE  menu \in Context
  BY DEF Contexts, Context

LEMMA PointerMoves ==
  ASSUME NEW a, NEW o, Calmly(a, o), o.type = "pointer", ObservePointer(o)
  PROVE  Move(o)
<1>1. NoMenu \in Context /\ NoMenu.absorbed = {} /\ menu \in Context
  BY NoMenuIsContext, MenuIsContext, ObservedCalmly DEF NoMenu
<1>2. CASE IgnorePointer(o)
  BY <1>2 DEF IgnorePointer, contexts, Move
<1>3. CASE SelectInPopup(o)
  BY <1>3, CommitMoves DEF SelectInPopup
<1>4. CASE CancelPopup(o)
  BY <1>4 DEF CancelPopup, Move
<1>5. CASE ChooseFromMenu(o)
  <2>1. Begin(ClickOf(o), NoValue, o, menu) /\ menu' = NoMenu
    BY <1>5 DEF ChooseFromMenu
  <2> QED BY <1>1, <2>1, BeginMoves DEF Source, ClickOf
<1>6. CASE TraverseMenu(o)
  BY <1>6 DEF TraverseMenu, Move
<1>7. CASE OpenMenu(o)
  <2>1. What(o) = "open_menu"
    BY <1>7, ObservedCalmly DEF OpenMenu, Says, OnScene, SceneKinds, What, Picks
  <2>2. CASE Absorbs(o)
    BY <1>7, <2>1, <2>2 DEF OpenMenu, Move, AbsorbsLast
  <2>3. CASE ~ Absorbs(o)
    BY <1>7, <2>3 DEF OpenMenu, Move, transcript
  <2> QED BY <2>2, <2>3
<1>8. CASE OpenSelector(o)
  BY <1>1, <1>8 DEF OpenSelector, Move
<1>9. CASE Click(o)
  <2>1. Begin(ClickOf(o), NoValue, o, NoMenu) /\ menu' = NoMenu
    BY <1>9 DEF Click
  <2> QED BY <1>1, <2>1, BeginMoves DEF Source, ClickOf
<1> QED BY <1>2, <1>3, <1>4, <1>5, <1>6, <1>7, <1>8, <1>9 DEF ObservePointer

LEMMA ActionMoves ==
  ASSUME NEW a, NEW o, Calmly(a, o), o.type = "action", ObserveAction(o)
  PROVE  Move(o)
<1>1. CASE UNCHANGED <<transcript, contexts>>
  BY <1>1 DEF contexts, Move
<1>2. CASE ~ EchoedAction(o)
  <2>1. PICK context \in {menu, NoMenu} :
          /\ \/ SameLogicalTarget(o) /\ MergeAction(o, context)
             \/ ~ SameLogicalTarget(o) /\ Begin(o.detail, NoValue, o, context)
          /\ context = menu => menu' = NoMenu \/ menu = NoMenu
          /\ menu' \in {menu, NoMenu}
    <3>1. CASE MenuOpen /\ Kind[o.obj] = "item"
      BY <1>2, <3>1 DEF ObserveAction
    <3>2. CASE ~ (MenuOpen /\ Kind[o.obj] = "item")
      BY <1>2, <3>2 DEF ObserveAction
    <3> QED BY <3>1, <3>2
  <2>2. /\ context \in Context /\ menu'.absorbed \subseteq menu.absorbed /\ Source(context.absorbed)
    BY <2>1, NoMenuIsContext, MenuIsContext, ObservedCalmly DEF NoMenu, Source
  <2>3. o.detail # "set_text" /\ o.detail \in {"activate", "toggle"}
    BY ObservedCalmly DEF Observation
  <2>4. CASE SameLogicalTarget(o) /\ MergeAction(o, context)
    <3>1. Joined(o, IF o.detail = "activate" THEN Last.action ELSE o.detail, Last.value, context.absorbed)
      BY <2>2, <2>4, CalmlyTimed, MergePatiently
    <3>2. Kind[o.obj] \in Lasting => o.detail = "activate"
      BY ObservedCalmly DEF Says, OnScene, SceneKinds, Lasting, Clicks, Picks
    <3>3. Joins(o, context.absorbed)
      BY <3>1, <3>2 DEF Joins
    <3> QED BY <2>2, <3>3 DEF Move
  <2>5. CASE ~ SameLogicalTarget(o) /\ Begin(o.detail, NoValue, o, context)
    BY <2>2, <2>3, <2>5, BeginMoves
  <2> QED BY <2>1, <2>4, <2>5
<1> QED BY <1>1, <1>2 DEF ObserveAction

LEMMA StateMoves ==
  ASSUME NEW a, NEW o, Calmly(a, o), o.type = "state", ObserveState(o)
  PROVE  Move(o)
<1>1. CASE Begin("select_item", o.value, o, NoMenu) /\ UNCHANGED contexts
  <2>1. NoMenu \in Context /\ Source(NoMenu.absorbed)
    BY NoMenuIsContext DEF NoMenu, Source
  <2> QED BY <1>1, <2>1, BeginMoves DEF contexts
<1>2. CASE Commit(o.value, o)
  BY <1>2, CommitMoves
<1>3. CASE AddDelta(o) /\ UNCHANGED contexts /\ o.detail # "tab_selection"
  <2>1. UNCHANGED transcript \/ Joined(o, Promoted(Last.action, o.detail), Last.value, {})
    BY <1>3, CalmlyTimed, AddDeltaPatiently
  <2>2. Kind[o.obj] \in Lasting => Promoted(Last.action, o.detail) = Last.action
    <3>1. Kind[o.obj] \in Lasting => o.detail = "value"
      BY <1>3, ObservedCalmly DEF Says, OnScene, SceneKinds, Lasting, Picks
    <3> QED BY <3>1 DEF Promoted
  <2>3. UNCHANGED transcript \/ Joins(o, {})
    BY <2>1, <2>2 DEF Joins
  <2> QED BY <1>3, <2>3 DEF Move, contexts, Source
<1> QED BY <1>1, <1>2, <1>3 DEF ObserveState

LEMMA ObserveMoves ==
  ASSUME NEW a, NEW o, Calmly(a, o)
  PROVE  Move(o)
<1>1. CASE o.type = "text" /\ ObserveText(o)
  <2>1. Begin("set_text", o.value, o, NoMenu) /\ menu' = menu
    BY <1>1 DEF ObserveText, contexts
  <2>2. NoMenu \in Context /\ Source(NoMenu.absorbed)
    BY NoMenuIsContext DEF NoMenu, Source
  <2>3. Kind[o.obj] = "field"
    BY <1>1, ObservedCalmly DEF Says, OnScene, SceneKinds
  <2> QED BY <2>1, <2>2, <2>3, BeginMoves
<1> QED BY <1>1, ObservedCalmly, PointerMoves, ActionMoves, StateMoves

-----------------------------------------------------------------------------
(* What was recorded, and the contexts, after a report *)

(* The transcript after the pending interaction was recorded.              *)
LEMMA RecordedNext ==
  ASSUME Transcript, interactions' = interactions \o pending
  PROVE  LET k == Len(interactions) + 1 IN
         /\ \A i \in DOMAIN interactions' :
              \/ i \in DOMAIN interactions /\ interactions'[i] = interactions[i]
              \/ pending # <<>> /\ i = k /\ interactions'[i] = Last
         /\ \A i \in DOMAIN interactions : i \in DOMAIN interactions' /\ interactions'[i] = interactions[i] /\ i # k
         /\ pending # <<>> => k \in DOMAIN interactions' /\ interactions'[k] = Last
<1>1. CASE pending = <<>>
  <2>1. interactions' = interactions /\ DOMAIN interactions = 1 .. Len(interactions) /\ Len(interactions) \in Nat
    BY <1>1, Appended DEF Transcript
  <2> QED BY <1>1, <2>1
<1>2. CASE pending # <<>>
  <2>1. PICK k : k = Len(interactions) + 1
    OBVIOUS
  <2>2. /\ DOMAIN interactions = 1 .. Len(interactions) /\ Len(interactions) \in Nat
        /\ DOMAIN interactions' = 1 .. k
        /\ \A i \in DOMAIN interactions : interactions'[i] = interactions[i]
        /\ interactions'[k] = Last
    BY <1>2, <2>1, Appended
  <2>3. \A i \in 1 .. k : i \in 1 .. Len(interactions) \/ i = k
    BY <2>1, <2>2
  <2>4. \A i \in 1 .. Len(interactions) : i # k /\ i \in 1 .. k
    BY <2>1, <2>2
  <2>5. k \in 1 .. k
    BY <2>1, <2>2
  <2> QED BY <1>2, <2>1, <2>2, <2>3, <2>4, <2>5
<1> QED BY <1>1, <1>2

LEMMA ObserveKeepsSources ==
  ASSUME NEW a, NEW o, Calmly(a, o), Move(o)
  PROVE  SourcesInv'
<1>1. /\ UNCHANGED gestures /\ o.gesture \in DOMAIN gestures /\ o.gesture = Len(gestures)
      /\ gestures[o.gesture].obj = o.obj /\ gestures[o.gesture].at = o.at /\ Transcript
  BY DEF Calmly, TakesCalmly
<1>2. \A n \in DOMAIN gestures : n <= o.gesture
  BY <1>1, GestureTimes DEF Calmly, CInv
<1>3. /\ \A i \in DOMAIN interactions : Observed(interactions[i].of)
      /\ Observed(menu.absorbed)
      /\ pending # <<>> => Observed(Last.of)
      /\ pending # <<>> =>
           \E k \in DOMAIN gestures :
             /\ gestures[k].obj = Last.obj /\ gestures[k].at = Last.completed
             /\ \A n \in Last.of : n <= k
  BY DEF Calmly, RInv, SourcesInv
<1>4. CASE UNCHANGED transcript /\ menu'.absorbed \subseteq menu.absorbed
  <2>1. UNCHANGED pending /\ UNCHANGED interactions /\ Last' = Last
    BY <1>4 DEF transcript, Last
  <2> QED BY <1>1, <1>3, <1>4, <2>1 DEF SourcesInv, Observed
<1>5. ASSUME NEW S, Source(S), Joins(o, S) \/ StartsAnew(o, S), menu'.absorbed \subseteq menu.absorbed
      PROVE  SourcesInv'
  <2>1. /\ pending' # <<>> /\ Last'.obj = o.obj /\ Last'.completed = o.at
        /\ Last'.of \subseteq {o.gesture} \cup S \cup (IF pending = <<>> THEN {} ELSE Last.of)
    BY <1>5 DEF Joins, StartsAnew, Joined, Founded
  <2>2. S \subseteq DOMAIN gestures
    BY <1>3, <1>5 DEF Source, Observed
  <2>3. Last'.of \subseteq DOMAIN gestures
    BY <1>1, <1>3, <2>1, <2>2 DEF Observed
  <2>4. \A i \in DOMAIN interactions' : interactions'[i].of \subseteq DOMAIN gestures
    <3>1. CASE UNCHANGED interactions
      BY <1>3, <3>1 DEF Observed
    <3>2. CASE interactions' = interactions \o pending
      <4>1. \A i \in DOMAIN interactions' :
              (i \in DOMAIN interactions /\ interactions'[i] = interactions[i])
              \/ (pending # <<>> /\ interactions'[i] = Last)
        BY <1>1, <3>2, RecordedNext
      <4> QED BY <1>3, <4>1 DEF Observed
    <3> QED BY <1>5, <3>1, <3>2 DEF Joins, StartsAnew, Joined, Founded
  <2>5. menu'.absorbed \subseteq DOMAIN gestures
    BY <1>3, <1>5 DEF Observed
  <2>6. \E k \in DOMAIN gestures' :
             /\ gestures'[k].obj = Last'.obj /\ gestures'[k].at = Last'.completed
             /\ \A n \in Last'.of : n <= k
    <3>1. /\ gestures'[o.gesture].obj = Last'.obj /\ gestures'[o.gesture].at = Last'.completed
          /\ \A n \in Last'.of : n <= o.gesture
      BY <1>1, <1>2, <2>1, <2>3
    <3> QED BY <1>1, <3>1
  <2> QED BY <1>1, <2>3, <2>4, <2>5, <2>6 DEF SourcesInv, Observed
<1>6. CASE AbsorbsLast(o)
  <2>1. pending # <<>> /\ pending' = <<>> /\ UNCHANGED interactions /\ menu'.absorbed = Last.of
    BY <1>6 DEF AbsorbsLast, Absorbs
  <2> QED BY <1>1, <1>3, <2>1 DEF SourcesInv, Observed
<1> QED BY <1>4, <1>5, <1>6 DEF Move

(* What an observation makes of the contexts.                              *)
CommitsPick(o) ==
  /\ What(o) \in Picks /\ o.value = gestures[o.gesture].value
  /\ popup'.committed /\ popup'.owner = o.obj /\ popup'.value = o.value /\ popup'.at = o.at

ContextMove(o) ==
  /\ \/ menu' \in {menu, NoMenu}
     \/ What(o) = "open_menu" /\ menu'.since = o.at
  /\ \/ popup' \in {popup, NoPopup}
     \/ CommitsPick(o)
     \/ /\ ~ popup'.committed /\ popup'.owner = o.obj /\ Kind[o.obj] = "selector"
        /\ popup'.since = o.at /\ popup'.fw = o.fw
        /\ o.fw = "javafx" => What(o) = "open_selector"

LEMMA CommitContextMove ==
  ASSUME NEW a, NEW o, Calmly(a, o), Commit(o.value, o), What(o) \in Picks,
         o.value = gestures[o.gesture].value
  PROVE  ContextMove(o)
<1>1. menu' = menu /\ (popup' = popup \/ CommitsPick(o))
  BY DEF Commit, CommitsPick
<1> QED BY <1>1 DEF ContextMove

LEMMA ObserveMovesContexts ==
  ASSUME NEW a, NEW o, Calmly(a, o)
  PROVE  ContextMove(o)
<1>1. CASE o.type = "text" /\ ObserveText(o)
  BY <1>1 DEF ObserveText, contexts, ContextMove
<1>2. CASE o.type = "action" /\ ObserveAction(o)
  BY <1>2 DEF ObserveAction, contexts, ContextMove
<1>3. CASE o.type = "state" /\ ObserveState(o)
  <2>1. CASE UNCHANGED contexts
    BY <2>1 DEF contexts, ContextMove
  <2>2. CASE o.detail = "value" /\ Commit(o.value, o)
    <3>1. What(o) \in Picks /\ o.value = gestures[o.gesture].value
      BY <1>3, <2>2, ObservedCalmly DEF Says, What
    <3> QED BY <2>2, <3>1, CommitContextMove
  <2> QED BY <1>3, <2>1, <2>2 DEF ObserveState
<1>4. CASE o.type = "pointer" /\ ObservePointer(o)
  <2>0. Says(a, o, gestures[o.gesture]) /\ OnScene(gestures[o.gesture]) /\ gestures[o.gesture].obj = o.obj
    BY ObservedCalmly
  <2>1. CASE IgnorePointer(o)
    BY <2>1 DEF IgnorePointer, contexts, ContextMove
  <2>2. CASE SelectInPopup(o)
    <3>1. o.value # NoValue /\ Commit(o.value, o)
      BY <2>2 DEF SelectInPopup, Selection
    <3>2. What(o) \in Picks /\ o.value = gestures[o.gesture].value
      BY <1>4, <2>0, <3>1 DEF Says, What, Picks
    <3> QED BY <3>1, <3>2, CommitContextMove
  <2>3. CASE CancelPopup(o)
    BY <2>3 DEF CancelPopup, ContextMove
  <2>4. CASE ChooseFromMenu(o)
    BY <2>4 DEF ChooseFromMenu, ContextMove
  <2>5. CASE TraverseMenu(o)
    BY <2>5 DEF TraverseMenu, ContextMove
  <2>6. CASE OpenMenu(o)
    <3>1. What(o) = "open_menu"
      BY <1>4, <2>0, <2>6 DEF OpenMenu, Says, OnScene, SceneKinds, What, Picks
    <3>2. menu'.since = o.at /\ popup' = NoPopup
      BY <2>6 DEF OpenMenu
    <3> QED BY <3>1, <3>2 DEF ContextMove
  <2>7. CASE OpenSelector(o)
    <3>1. /\ menu' = NoMenu /\ Kind[o.obj] = "selector" /\ ~ Selection(o)
          /\ popup' = [NoPopup EXCEPT !.owner = o.obj, !.fw = o.fw, !.since = o.at]
      BY <2>7 DEF OpenSelector, PassesMenu, PassesPopup
    <3>2. ~ popup'.committed /\ popup'.owner = o.obj /\ popup'.fw = o.fw /\ popup'.since = o.at
      BY <3>1 DEF NoPopup
    <3>3. ASSUME o.fw = "javafx" PROVE What(o) = "open_selector"
      <4>1. What(o) # "pick"
        BY <1>4, <2>0, <3>1, <3>3 DEF Says, What, Selection, OnScene, Picks
      <4> QED BY <1>4, <2>0, <3>1, <4>1 DEF Says, What, OnScene, SceneKinds
    <3> QED BY <3>1, <3>2, <3>3 DEF ContextMove
  <2>8. CASE Click(o)
    BY <2>8 DEF Click, ContextMove
  <2> QED BY <1>4, <2>1, <2>2, <2>3, <2>4, <2>5, <2>6, <2>7, <2>8 DEF ObservePointer
<1> QED BY <1>1, <1>2, <1>3, <1>4, ObservedCalmly

LEMMA ObserveKeepsContexts ==
  ASSUME NEW a, NEW o, Calmly(a, o), ContextMove(o)
  PROVE  OpenedInv' /\ CommittedInv'
<1>1. /\ UNCHANGED gestures /\ o.gesture \in DOMAIN gestures
      /\ gestures[o.gesture].obj = o.obj /\ gestures[o.gesture].at = o.at
      /\ OnScene(gestures[o.gesture])
  BY ObservedCalmly DEF Calmly, TakesCalmly
<1>2. OpenedInv /\ CommittedInv
  BY DEF Calmly, RInv
<1>3. MenuOpen' => \E m \in DOMAIN gestures' :
       gestures'[m].what = "open_menu" /\ gestures'[m].at = menu'.since
  <2>1. CASE menu' = menu
    BY <1>1, <1>2, <2>1 DEF OpenedInv, MenuOpen
  <2>2. CASE menu' = NoMenu
    BY <2>2 DEF MenuOpen, NoMenu
  <2>3. CASE What(o) = "open_menu" /\ menu'.since = o.at
    BY <1>1, <2>3 DEF What
  <2> QED BY <2>1, <2>2, <2>3 DEF ContextMove
<1>4. CASE popup' = popup
  BY <1>1, <1>2, <1>3, <1>4 DEF OpenedInv, CommittedInv, PickedFor
<1>5. CASE popup' = NoPopup
  BY <1>3, <1>5 DEF OpenedInv, CommittedInv, NoPopup
<1>6. CASE CommitsPick(o)
  <2>1. Kind[popup'.owner] = "selector"
    BY <1>1, <1>6 DEF CommitsPick, OnScene, SceneKinds, What, Picks
  <2>2. PickedFor(o.gesture)' /\ popup'.committed
    BY <1>1, <1>6 DEF CommitsPick, PickedFor, What
  <2> QED BY <1>1, <1>3, <2>1, <2>2 DEF OpenedInv, CommittedInv
<1>7. CASE /\ ~ popup'.committed /\ popup'.owner = o.obj /\ Kind[o.obj] = "selector"
           /\ popup'.since = o.at /\ popup'.fw = o.fw
           /\ o.fw = "javafx" => What(o) = "open_selector"
  BY <1>1, <1>3, <1>7 DEF OpenedInv, CommittedInv, What
<1> QED BY <1>4, <1>5, <1>6, <1>7 DEF ContextMove

-----------------------------------------------------------------------------
(* The gestures before the latest *)

LEMMA CountedSame ==
  ASSUME UNCHANGED gestures
  PROVE  \A n : /\ Counted(n)' <=> Counted(n)
                /\ Absorbed(n)' <=> Absorbed(n)
                /\ \A i : (Records(n, i)' <=> Records(n, i)) /\ (Natively(n, i)' <=> Natively(n, i))
  BY DEF Counted, SeenByAll, Swallowed, Repeated, Absorbed, IsOpener, Since, Records, Natively, ActionOf

(* What the user clicked or picked keeps its action and value.             *)
LEMMA CountedLasts ==
  ASSUME SceneInv, NEW n \in DOMAIN gestures, Counted(n)
  PROVE  /\ Kind[gestures[n].obj] \in Lasting
         /\ gestures[n].what = "pick" <=> ActionOf(n) = "select_item"
         /\ gestures[n].what = "pick" \/ gestures[n].what \in Clicks
<1>1. OnScene(gestures[n])
  BY DEF SceneInv
<1>2. gestures[n].what \in Clicks \cup {"pick"}
  BY DEF Counted
<1>3. Kind[gestures[n].obj] \in Lasting
  BY <1>1, <1>2 DEF OnScene, SceneKinds, Lasting, Clicks
<1> QED BY <1>2, <1>3 DEF Clicks, ActionOf, Expected

(* A gesture that was recorded stays recorded once while a later one is    *)
(* reported.                                                               *)
LEMMA OthersStayOnce ==
  ASSUME NEW a, NEW o, Calmly(a, o), Move(o), NEW n \in DOMAIN gestures, n # o.gesture, Counted(n)
  PROVE  (Apart(n) /\ Final(n))'
<1>0. /\ UNCHANGED gestures /\ o.gesture \in DOMAIN gestures /\ o.gesture = Len(gestures)
      /\ gestures[o.gesture].obj = o.obj /\ gestures[o.gesture].at = o.at /\ Transcript
      /\ ~ InFlight(n) /\ ~ ReleaseAhead(n) /\ ~ InFlight(n)'
  BY DEF Calmly, TakesCalmly
<1>1. Apart(n) /\ Final(n)
  BY <1>0 DEF Calmly, RInv, OnceInv, Unplaced, Placed
<1>2. /\ \A i : (Natively(n, i)' <=> Natively(n, i))
      /\ Absorbed(n)' <=> Absorbed(n)
      /\ gestures'[n] = gestures[n]
  BY <1>0, CountedSame
<1>3. Kind[gestures[n].obj] \in Lasting /\ (gestures[n].what = "pick" <=> ActionOf(n) = "select_item")
      /\ (gestures[n].what = "pick" \/ gestures[n].what \in Clicks)
  BY CountedLasts DEF Calmly
<1>4. CASE UNCHANGED transcript /\ menu'.absorbed \subseteq menu.absorbed
  <2>1. UNCHANGED pending /\ UNCHANGED interactions /\ Last' = Last
    BY <1>4 DEF transcript, Last
  <2>2. Apart(n)'
    BY <1>1, <1>4, <2>1 DEF Apart
  <2>3. Final(n)'
    BY <1>0, <1>1, <1>2, <2>1 DEF Final
  <2> QED BY <2>2, <2>3
<1>5. ASSUME NEW S, Source(S), Joins(o, S), menu'.absorbed \subseteq menu.absorbed
      PROVE  (Apart(n) /\ Final(n))'
  <2>1. /\ pending # <<>> /\ Last.obj = o.obj /\ UNCHANGED interactions
        /\ pending' # <<>> /\ Last'.obj = o.obj
        /\ Last.of \cup {o.gesture} \subseteq Last'.of /\ Last'.of \subseteq Last.of \cup {o.gesture} \cup S
        /\ Last.fw = "javafx" => Last'.fw = "javafx"
        /\ Kind[o.obj] \in Lasting => Last'.action = Last.action /\ Last'.value = Last.value
    BY <1>5 DEF Joins, Joined
  <2>2. n \in Last'.of => n \in Last.of \/ (n \in menu.absorbed /\ menu'.absorbed = {})
    BY <1>5, <2>1 DEF Source
  <2>3. Apart(n)'
    <3>1. \A i, j \in DOMAIN interactions' : n \in interactions'[i].of /\ n \in interactions'[j].of => i = j
      BY <1>1, <2>1 DEF Apart
    <3>2. n \in menu'.absorbed => \A i \in DOMAIN interactions' : n \notin interactions'[i].of
      BY <1>1, <1>5, <2>1 DEF Apart
    <3>3. n \in Last'.of => n \notin menu'.absorbed /\ \A i \in DOMAIN interactions' : n \notin interactions'[i].of
      BY <1>1, <1>5, <2>1, <2>2 DEF Apart
    <3> QED BY <3>1, <3>2, <3>3 DEF Apart
  <2>4. Final(n)'
    <3>1. n \in Last.of /\ Natively(n, Last) => n \in Last'.of /\ Natively(n, Last')
      BY <1>3, <2>1 DEF Natively, Records
    <3> QED BY <1>0, <1>1, <1>2, <2>1, <3>1 DEF Final
  <2> QED BY <2>3, <2>4
<1>6. ASSUME NEW S, Source(S), StartsAnew(o, S), menu'.absorbed \subseteq menu.absorbed
      PROVE  (Apart(n) /\ Final(n))'
  <2>1. /\ interactions' = interactions \o pending
        /\ pending' # <<>> /\ Last'.of \subseteq {o.gesture} \cup S
    BY <1>6 DEF StartsAnew, Founded
  <2>2. n \in Last'.of => n \in menu.absorbed /\ menu'.absorbed = {}
    BY <1>6, <2>1 DEF Source
  <2>3. PICK k : k = Len(interactions) + 1
    OBVIOUS
  <2>4. /\ \A i \in DOMAIN interactions' :
              \/ i \in DOMAIN interactions /\ interactions'[i] = interactions[i]
              \/ pending # <<>> /\ i = k /\ interactions'[i] = Last
        /\ \A i \in DOMAIN interactions : i \in DOMAIN interactions' /\ interactions'[i] = interactions[i] /\ i # k
        /\ pending # <<>> => k \in DOMAIN interactions' /\ interactions'[k] = Last
    BY <1>0, <2>1, <2>3, RecordedNext
  <2>5. Apart(n)'
    <3>1. ASSUME NEW i \in DOMAIN interactions', NEW j \in DOMAIN interactions',
                 n \in interactions'[i].of, n \in interactions'[j].of
          PROVE  i = j
      BY <1>1, <2>4, <3>1 DEF Apart
    <3>2. n \in menu.absorbed => \A i \in DOMAIN interactions' : n \notin interactions'[i].of
      BY <1>1, <2>4 DEF Apart
    <3> QED BY <1>6, <2>2, <3>1, <3>2 DEF Apart
  <2>6. Final(n)'
    BY <1>0, <1>1, <1>2, <2>4 DEF Final
  <2> QED BY <2>5, <2>6
<1>7. CASE AbsorbsLast(o)
  <2>1. /\ pending # <<>> /\ pending' = <<>> /\ UNCHANGED interactions /\ menu'.absorbed = Last.of
        /\ Last.action \in {"click", "right_click"} /\ o.at - Last.completed <= CorrWindow
        /\ gestures[o.gesture].what = "open_menu"
    BY <1>7 DEF AbsorbsLast, Absorbs, What
  <2>2. Apart(n)'
    BY <1>1, <2>1 DEF Apart
  <2>3. ASSUME n \in Last.of, Natively(n, Last) PROVE gestures[n].what # "pick" /\ Absorbed(n)
    <3>1. gestures[n].what # "pick" /\ gestures[n].what \in Clicks /\ gestures[n].obj = Last.obj
      BY <1>3, <2>1, <2>3 DEF Natively, Records
    <3>2. PICK k \in DOMAIN gestures :
            gestures[k].obj = Last.obj /\ gestures[k].at = Last.completed /\ n <= k
      BY <2>1, <2>3 DEF Calmly, RInv, SourcesInv
    <3>3. k # o.gesture
      <4>1. Kind[gestures[o.gesture].obj] = "menu"
        BY <1>0, <2>1 DEF Calmly, SceneInv, OnScene, SceneKinds
      <4> QED BY <1>3, <3>1, <3>2, <4>1 DEF Lasting
    <3>4. /\ o.gesture \in n + 1 .. Len(gestures) /\ k \in n .. o.gesture - 1
      BY <1>0, <3>2, <3>3, GestureTimes DEF Calmly, CInv
    <3>5. Since(k, o.gesture) <= CorrWindow
      BY <1>0, <2>1, <3>2 DEF Since
    <3> QED BY <2>1, <3>1, <3>2, <3>4, <3>5 DEF Absorbed, Clicks
  <2>4. Final(n)'
    BY <1>0, <1>1, <1>2, <2>1, <2>3 DEF Final
  <2> QED BY <2>2, <2>4
<1> QED BY <1>4, <1>5, <1>6, <1>7 DEF Move

-----------------------------------------------------------------------------
(* The latest gesture: a click *)

(* The gesture an adapter reports is unplaced, or in the pending           *)
(* interaction.                                                            *)
LEMMA CountedNow ==
  ASSUME NEW a, NEW o, Calmly(a, o), Counted(o.gesture)
  PROVE  /\ Apart(o.gesture) /\ (Unplaced(o.gesture) \/ Placed(o.gesture))
         /\ Unplaced(o.gesture) => o.type = "pointer"
         /\ a = "javafx" => o.fw = "javafx"
         /\ ReleaseAhead(o.gesture) /\ ~ ReleaseAhead(o.gesture)' => a = "javafx"
         /\ Kind[o.obj] \in Lasting
         /\ a \in Frameworks
<1>1. InFlight(o.gesture) /\ o.gesture \in DOMAIN gestures
  BY DEF Calmly, TakesCalmly
<1>2. Apart(o.gesture) /\ (Unplaced(o.gesture) \/ Placed(o.gesture))
  BY <1>1 DEF Calmly, RInv, OnceInv, Final
<1>3. a \in Frameworks /\ (a = "javafx" \/ a = "atspi")
  BY DEF Calmly, TakesCalmly, Frameworks
<1>4. ReleaseAhead(o.gesture) /\ ~ ReleaseAhead(o.gesture)' => a = "javafx"
  BY <1>3 DEF Calmly, TakesCalmly
<1>5. a = "javafx" => o.fw = "javafx"
  BY ObservedCalmly DEF Says
<1>6. Kind[o.obj] \in Lasting
  BY <1>1, ObservedCalmly, CountedLasts DEF Calmly
<1>7. ASSUME Unplaced(o.gesture) PROVE o.type = "pointer"
  <2>1. CASE a = "javafx"
    BY <1>7, <2>1 DEF Unplaced, Calmly, TakesCalmly
  <2>2. CASE a = "atspi"
    BY <2>2, ObservedCalmly DEF Says, Counted, Clicks
  <2> QED BY <1>3, <2>1, <2>2
<1> QED BY <1>2, <1>3, <1>4, <1>5, <1>6, <1>7

(* The release of a click outside the shadow of an opener begins or joins  *)
(* an interaction.                                                         *)
LEMMA ClickBegins ==
  ASSUME NEW a, NEW o, Calmly(a, o), Counted(o.gesture), What(o) \in Clicks,
         o.type = "pointer", ObservePointer(o)
  PROVE  /\ \E context \in {menu, NoMenu} : Begin(ActionOf(o.gesture), NoValue, o, context)
         /\ menu' = NoMenu
<1> DEFINE h == o.gesture
<1>1. /\ h \in DOMAIN gestures /\ gestures[h].what \in Clicks /\ ~ Swallowed(h)
      /\ gestures[h].obj = o.obj /\ gestures[h].at = o.at /\ h = Len(gestures)
      /\ o.detail = (IF gestures[h].what = "right_click" THEN "secondary" ELSE "primary")
      /\ o.value = NoValue
  BY ObservedCalmly DEF Calmly, TakesCalmly, Counted, What, Says, Clicks
<1>2. Kind[o.obj] \in {"button", "item"} /\ (Kind[o.obj] = "item" <=> gestures[h].what = "choose")
  BY <1>1, ObservedCalmly DEF OnScene, SceneKinds, Clicks
<1>3. ClickOf(o) = ActionOf(h)
  BY <1>1 DEF ClickOf, ActionOf, Expected, Clicks
<1>4. OpenedInv
  BY DEF Calmly, RInv
<1>5. ASSUME NEW m \in DOMAIN gestures, gestures[m].what \in Openers, o.at - gestures[m].at <= CorrWindow,
             gestures[h].what # "choose"
      PROVE  FALSE
  <2>1. m \in 1 .. h - 1
    <3>1. m # h
      BY <1>1, <1>5 DEF Clicks, Openers
    <3> QED BY <1>1, <3>1, GestureTimes DEF Calmly, CInv
  <2>2. gestures[h].what \in {"click", "right_click"}
    BY <1>1, <1>5 DEF Clicks
  <2> QED BY <1>1, <1>5, <2>1, <2>2 DEF Swallowed, IsOpener, Since
<1>6. ~ MissesPopup(o)
  <2>1. SUFFICES ASSUME MissesPopup(o) PROVE FALSE
    OBVIOUS
  <2>2. /\ popup.owner # NoObject /\ ~ popup.committed /\ popup.owner # o.obj
        /\ popup.fw = "javafx" /\ ~ MenuRelated(o) /\ o.at - popup.since <= CorrWindow
    BY <1>2, <1>4, <2>1 DEF MissesPopup, OpenedInv
  <2>3. PICK m \in DOMAIN gestures : gestures[m].what = "open_selector" /\ gestures[m].at = popup.since
    BY <1>4, <2>2 DEF OpenedInv
  <2>4. gestures[h].what # "choose"
    BY <1>2, <2>2 DEF MenuRelated
  <2> QED BY <1>5, <2>2, <2>3, <2>4 DEF Openers
<1>7. ~ TabHeader(o) /\ ~ Selection(o) /\ ~ WithinCommit(o)
  <2>1. popup.committed => popup.owner # NoObject
    BY ObservedCalmly DEF Contexts
  <2> QED BY <1>1, <1>2, <1>4, <2>1 DEF TabHeader, Selection, WithinCommit, OpenedInv
<1>8. MenuOpen => ~ MissesMenu(o)
  <2>1. SUFFICES ASSUME MenuOpen, MissesMenu(o) PROVE FALSE
    OBVIOUS
  <2>2. ~ MenuRelated(o) /\ o.at - menu.since <= CorrWindow
    BY <2>1 DEF MissesMenu
  <2>3. PICK m \in DOMAIN gestures : gestures[m].what = "open_menu" /\ gestures[m].at = menu.since
    BY <1>4, <2>1 DEF OpenedInv
  <2>4. gestures[h].what # "choose"
    BY <1>2, <2>2 DEF MenuRelated
  <2> QED BY <1>5, <2>2, <2>3, <2>4 DEF Openers
<1>9. ~ IgnorePointer(o) /\ ~ SelectInPopup(o) /\ ~ CancelPopup(o) /\ ~ TraverseMenu(o) /\ ~ OpenMenu(o)
      /\ ~ OpenSelector(o)
  BY <1>2, <1>6, <1>7, <1>8
     DEF IgnorePointer, SelectInPopup, CancelPopup, TraverseMenu, OpenMenu, OpenSelector
<1>10. CASE ChooseFromMenu(o)
  BY <1>3, <1>10 DEF ChooseFromMenu
<1>11. CASE Click(o)
  BY <1>3, <1>11 DEF Click
<1> QED BY <1>9, <1>10, <1>11 DEF ObservePointer

(* The reports of a click end in one interaction.                          *)
LEMMA ClickPlaced ==
  ASSUME NEW a, NEW o, Calmly(a, o), Counted(o.gesture), What(o) \in Clicks, NEW S,
         \/ Placed(o.gesture) /\ Joined(o, Last.action, Last.value, S)
         \/ /\ Unplaced(o.gesture)
            /\ \/ Last.action = ActionOf(o.gesture) /\ Joined(o, Last.action, Last.value, S)
               \/ \E value : Founded(o, ActionOf(o.gesture), value, S),
         menu'.absorbed \subseteq menu.absorbed
  PROVE  (Apart(o.gesture) /\ Placed(o.gesture))'
<1> DEFINE h == o.gesture
<1>1. /\ h \in DOMAIN gestures /\ UNCHANGED gestures /\ h = Len(gestures) /\ Transcript
      /\ gestures[h].obj = o.obj /\ gestures[h].at = o.at /\ gestures[h].what # "pick"
  BY DEF Calmly, TakesCalmly, What, Clicks
<1>2. /\ Apart(h) /\ (Unplaced(h) => ReleaseAhead(h))
      /\ (a = "javafx" => o.fw = "javafx") /\ (ReleaseAhead(h) /\ ~ ReleaseAhead(h)' => a = "javafx")
  BY CountedNow DEF Unplaced
<1>3. /\ pending' # <<>> /\ h \in Last'.of /\ Last'.obj = o.obj /\ Last'.completed = o.at
      /\ Last'.action = ActionOf(h)
  BY DEF Joined, Founded, Placed, Records
<1>4. Last'.fw = "javafx" \/ ReleaseAhead(h)'
  <2>1. CASE Placed(h) /\ Joined(o, Last.action, Last.value, S)
    <3>1. Last.fw = "javafx" \/ ReleaseAhead(h)
      BY <2>1 DEF Placed
    <3>2. Last.fw = "javafx" \/ o.fw = "javafx" => Last'.fw = "javafx"
      BY <2>1 DEF Joined
    <3> QED BY <1>2, <3>1, <3>2
  <2>2. CASE Unplaced(h) /\ Joined(o, Last.action, Last.value, S)
    <3>1. o.fw = "javafx" => Last'.fw = "javafx"
      BY <2>2 DEF Joined
    <3> QED BY <1>2, <2>2, <3>1
  <2>3. CASE Unplaced(h) /\ \E value : Founded(o, ActionOf(h), value, S)
    <3>1. Last'.fw = o.fw
      BY <2>3 DEF Founded
    <3> QED BY <1>2, <2>3, <3>1
  <2> QED BY <2>1, <2>2, <2>3
<1>5. Placed(h)'
  <2>1. Records(h, Last)'
    BY <1>1, <1>3 DEF Records, ActionOf
  <2> QED BY <1>1, <1>3, <1>4, <2>1 DEF Placed
<1>6. h \notin menu'.absorbed
  BY <1>2 DEF Placed, Apart, Unplaced, Nowhere
<1>7. \A i \in DOMAIN interactions' : h \notin interactions'[i].of
  <2>1. CASE UNCHANGED interactions
    BY <1>2, <2>1 DEF Placed, Apart, Unplaced, Nowhere
  <2>2. CASE Unplaced(h) /\ interactions' = interactions \o pending
    <3>1. \A i \in DOMAIN interactions' :
              \/ i \in DOMAIN interactions /\ interactions'[i] = interactions[i]
              \/ pending # <<>> /\ interactions'[i] = Last
      BY <1>1, <2>2, RecordedNext
    <3> QED BY <2>2, <3>1 DEF Unplaced, Nowhere
  <2> QED BY <2>1, <2>2 DEF Joined, Founded
<1>8. Apart(h)'
  BY <1>6, <1>7 DEF Apart
<1> QED BY <1>5, <1>8

-----------------------------------------------------------------------------
(* The latest gesture: its reports become one interaction *)

(* The reports of a click outside the shadow of an opener.                 *)
LEMMA ObserveClick ==
  ASSUME NEW a, NEW o, Calmly(a, o), Counted(o.gesture), What(o) \in Clicks
  PROVE  (Apart(o.gesture) /\ Placed(o.gesture))'
<1>1. o.type = "pointer" \/ (o.type = "action" /\ o.detail = "activate")
  BY ObservedCalmly DEF Says, What, Clicks, Picks
<1>2. NoMenu \in Context /\ NoMenu.absorbed = {} /\ menu \in Context
  BY NoMenuIsContext, MenuIsContext, ObservedCalmly DEF NoMenu
<1>3. Unplaced(o.gesture) \/ Placed(o.gesture)
  BY CountedNow
<1>4. CASE o.type = "pointer"
  <2>1. ObservePointer(o)
    BY <1>4, ObservedCalmly
  <2>2. menu' = NoMenu /\ menu'.absorbed \subseteq menu.absorbed
    BY <1>2, <1>4, <2>1, ClickBegins
  <2>3. PICK context \in {menu, NoMenu} : Begin(ActionOf(o.gesture), NoValue, o, context)
    BY <1>4, <2>1, ClickBegins
  <2>4. ActionOf(o.gesture) \in {"click", "right_click"}
    BY DEF What, ActionOf, Expected, Clicks
  <2>5. \/ /\ Correlates(ActionOf(o.gesture), NoValue, o)
           /\ Joined(o, Last.action, Last.value, context.absorbed)
        \/ /\ ~ Correlates(ActionOf(o.gesture), NoValue, o)
           /\ Founded(o, ActionOf(o.gesture), NoValue, context.absorbed)
    BY <1>2, <2>3, <2>4, CalmlyTimed, BeginPatiently
  <2>6. CASE Placed(o.gesture)
    <3>1. Correlates(ActionOf(o.gesture), NoValue, o)
      <4>1. Last.obj = o.obj /\ Last.completed = o.at /\ Last.action = ActionOf(o.gesture) /\ pending # <<>>
        BY <2>6 DEF Placed, Records, Calmly, TakesCalmly
      <4>2. o.at - Last.completed \in -DualWindow .. DualWindow
        <5>1. DualWindow \in Nat /\ o.at \in Nat
          BY WindowsAssumption, ObservedCalmly DEF Observation
        <5> QED BY <4>1, <5>1
      <4> QED BY <2>4, <4>1, <4>2 DEF Correlates, SameLogicalTarget
    <3>2. Joined(o, Last.action, Last.value, context.absorbed)
      BY <2>5, <3>1
    <3> QED BY <2>2, <2>6, <3>2, ClickPlaced
  <2>7. CASE Unplaced(o.gesture)
    <3>1. Correlates(ActionOf(o.gesture), NoValue, o) => Last.action = ActionOf(o.gesture)
      BY DEF Correlates
    <3> QED BY <2>2, <2>5, <2>7, <3>1, ClickPlaced
  <2> QED BY <1>3, <2>6, <2>7
<1>5. CASE o.type = "action" /\ o.detail = "activate"
  <2>1. Placed(o.gesture) /\ ObserveAction(o)
    BY <1>3, <1>5, CountedNow, ObservedCalmly
  <2>2. SameLogicalTarget(o) /\ Last.action = ActionOf(o.gesture)
    BY <2>1 DEF Placed, Records, SameLogicalTarget, Calmly, TakesCalmly
  <2>3. ~ EchoedAction(o)
    <3>1. Kind[o.obj] \in {"button", "item"}
      BY ObservedCalmly DEF OnScene, SceneKinds, What, Clicks
    <3>2. popup.owner # o.obj
      BY <3>1, ObservedCalmly DEF Calmly, RInv, OpenedInv
    <3> QED BY <3>1, <3>2 DEF EchoedAction
  <2>4. PICK context \in {menu, NoMenu} : MergeAction(o, context) /\ menu'.absorbed \subseteq menu.absorbed
    <3>1. CASE MenuOpen /\ Kind[o.obj] = "item"
      BY <1>2, <2>1, <2>2, <2>3, <3>1 DEF ObserveAction
    <3>2. CASE ~ (MenuOpen /\ Kind[o.obj] = "item")
      BY <2>1, <2>2, <2>3, <3>2 DEF ObserveAction
    <3> QED BY <3>1, <3>2
  <2>5. Joined(o, IF o.detail = "activate" THEN Last.action ELSE o.detail, Last.value, context.absorbed)
    BY <1>2, <1>5, <2>2, <2>4, CalmlyTimed, MergePatiently
  <2>6. Joined(o, Last.action, Last.value, context.absorbed)
    BY <1>5, <2>5
  <2> QED BY <2>1, <2>4, <2>6, ClickPlaced
<1> QED BY <1>1, <1>4, <1>5

-----------------------------------------------------------------------------
(* The first report of a pick that carries its value commits it.           *)
LEMMA PickCommits ==
  ASSUME NEW a, NEW o, Calmly(a, o), Counted(o.gesture), What(o) = "pick", Unplaced(o.gesture),
         o.type = "pointer", o.fw = "javafx"
  PROVE  (Apart(o.gesture) /\ Placed(o.gesture))'
<1> DEFINE h == o.gesture
<1>1. /\ h \in DOMAIN gestures /\ UNCHANGED gestures /\ h = Len(gestures) /\ Transcript
      /\ gestures[h].obj = o.obj /\ gestures[h].at = o.at /\ gestures[h].what = "pick"
      /\ ~ Repeated(h)
  BY DEF Calmly, TakesCalmly, What, Counted, Clicks
<1>2. o.value = gestures[h].value /\ o.value # NoValue /\ Kind[o.obj] = "selector"
  BY <1>1, ObservedCalmly DEF Says, OnScene, SceneKinds, Picks
<1>3. Selection(o) /\ ObservePointer(o)
  BY <1>2, ObservedCalmly DEF Selection
<1>4. ~ TabHeader(o)
  BY <1>2 DEF TabHeader
<1>5. Commit(o.value, o)
  BY <1>3, <1>4 DEF ObservePointer, IgnorePointer, SelectInPopup, CancelPopup, ChooseFromMenu, TraverseMenu,
     OpenMenu, OpenSelector, Click, PassesMenu, PassesPopup
<1>6. ~ (WithinCommit(o) /\ popup.value = o.value)
  <2>1. SUFFICES ASSUME WithinCommit(o), popup.value = o.value PROVE FALSE
    OBVIOUS
  <2>2. popup.committed /\ popup.owner = o.obj /\ o.at - popup.at <= DupWindow
    BY <2>1 DEF WithinCommit
  <2>3. PICK m \in DOMAIN gestures : m # h /\ PickedFor(m)
    BY <2>2 DEF Unplaced
  <2>4. m \in 1 .. h - 1
    BY <1>1, <2>3, GestureTimes DEF Calmly, CInv
  <2>5. /\ gestures[m].what \in Picks /\ Since(m, h) <= DupWindow
        /\ gestures[m].obj = gestures[h].obj /\ gestures[m].value = gestures[h].value
    BY <1>1, <1>2, <2>1, <2>2, <2>3 DEF PickedFor, Since
  <2>6. gestures[h].what \in Picks
    BY <1>1 DEF Picks
  <2> QED BY <1>1, <2>4, <2>5, <2>6 DEF Repeated
<1>7. /\ popup'.committed /\ popup'.owner = o.obj /\ popup'.value = o.value /\ popup'.at = o.at
      /\ Begin("select_item", o.value, o, NoMenu) /\ menu' = menu
  BY <1>5, <1>6 DEF Commit
<1>8. NoMenu \in Context /\ NoMenu.absorbed = {}
  BY NoMenuIsContext DEF NoMenu
<1>9. \/ Joined(o, "select_item", o.value, {})
      \/ Founded(o, "select_item", o.value, {})
  <2>1. \/ Correlates("select_item", o.value, o) /\ Joined(o, Last.action, Last.value, {})
        \/ Founded(o, "select_item", o.value, {})
    BY <1>7, <1>8, CalmlyTimed, BeginPatiently
  <2>2. Correlates("select_item", o.value, o) => Last.action = "select_item" /\ Last.value = o.value
    BY DEF Correlates
  <2> QED BY <2>1, <2>2
<1>10. /\ pending' # <<>> /\ h \in Last'.of /\ Last'.obj = o.obj /\ Last'.completed = o.at
       /\ Last'.action = "select_item" /\ Last'.value = o.value /\ Last'.fw = "javafx"
  BY <1>9 DEF Joined, Founded
<1>11. ActionOf(h) = "select_item"
  BY <1>1 DEF ActionOf, Expected
<1>12. Placed(h)'
  <2>1. Records(h, Last)'
    BY <1>1, <1>2, <1>10, <1>11 DEF Records, ActionOf
  <2>2. PickedFor(h)'
    BY <1>1, <1>2, <1>7 DEF PickedFor, Picks
  <2> QED BY <1>1, <1>7, <1>10, <2>1, <2>2 DEF Placed
<1>13. h \notin menu'.absorbed
  BY <1>7 DEF Unplaced, Nowhere
<1>14. \A i \in DOMAIN interactions' : h \notin interactions'[i].of
  <2>1. CASE UNCHANGED interactions
    BY <2>1 DEF Unplaced, Nowhere
  <2>2. CASE interactions' = interactions \o pending
    <3>1. \A i \in DOMAIN interactions' :
              \/ i \in DOMAIN interactions /\ interactions'[i] = interactions[i]
              \/ pending # <<>> /\ interactions'[i] = Last
      BY <1>1, <2>2, RecordedNext
    <3> QED BY <3>1 DEF Unplaced, Nowhere
  <2> QED BY <1>9, <2>1, <2>2 DEF Joined, Founded
<1>15. Apart(h)'
  BY <1>13, <1>14 DEF Apart
<1> QED BY <1>12, <1>15

(* The reports that follow change nothing.                                 *)
LEMMA PickEchoed ==
  ASSUME NEW a, NEW o, Calmly(a, o), Counted(o.gesture), What(o) = "pick", Placed(o.gesture)
  PROVE  UNCHANGED <<transcript, contexts>>
<1> DEFINE h == o.gesture
<1>1. /\ popup.committed /\ popup.owner = o.obj /\ popup.value = gestures[h].value /\ popup.at = o.at
      /\ Kind[o.obj] = "selector" /\ gestures[h].what = "pick"
  BY ObservedCalmly DEF Placed, PickedFor, OnScene, SceneKinds, What, Calmly, TakesCalmly
<1>2. WithinCommit(o)
  <2>1. o.at \in Nat /\ DupWindow \in Nat
    BY WindowsAssumption, ObservedCalmly DEF Observation
  <2> QED BY <1>1, <2>1 DEF WithinCommit
<1>3. o.value = gestures[h].value /\ Commit(o.value, o) => UNCHANGED <<transcript, contexts>>
  BY <1>1, <1>2 DEF Commit, contexts
<1>4. CASE o.type = "pointer" /\ ObservePointer(o)
  <2>1. ~ TabHeader(o)
    BY <1>1 DEF TabHeader
  <2>2. Selection(o) => o.value = gestures[h].value
    BY <1>1, <1>4, ObservedCalmly DEF Selection, Says, Picks
  <2>3. ~ MissesPopup(o) /\ ~ PassesPopup(o)
    BY <1>1, <1>2 DEF MissesPopup, PassesPopup
  <2>4. IgnorePointer(o) \/ SelectInPopup(o)
    BY <1>4, <2>3 DEF ObservePointer, CancelPopup, ChooseFromMenu, TraverseMenu, OpenMenu, OpenSelector, Click,
       PassesMenu
  <2> QED BY <1>3, <2>2, <2>4 DEF IgnorePointer, SelectInPopup
<1>5. CASE o.type = "action" /\ ObserveAction(o)
  BY <1>1, <1>5 DEF ObserveAction, EchoedAction
<1>6. CASE o.type = "state" /\ ObserveState(o)
  <2>1. o.detail = "value" /\ o.value = gestures[h].value
    BY <1>1, <1>6, ObservedCalmly DEF Says
  <2>2. Commit(o.value, o)
    BY <1>1, <1>6, <2>1 DEF ObserveState
  <2> QED BY <1>3, <2>1, <2>2
<1>7. o.type # "text"
  BY <1>1, ObservedCalmly DEF Says
<1> QED BY <1>4, <1>5, <1>6, <1>7, ObservedCalmly

(* The reports of a pick end in one selection.                             *)
LEMMA ObservePick ==
  ASSUME NEW a, NEW o, Calmly(a, o), Counted(o.gesture), What(o) = "pick", ContextMove(o)
  PROVE  (Apart(o.gesture) /\ (Unplaced(o.gesture) \/ Placed(o.gesture)))'
<1> DEFINE h == o.gesture
<1>1. /\ h \in DOMAIN gestures /\ UNCHANGED gestures /\ h = Len(gestures)
      /\ gestures[h].obj = o.obj /\ gestures[h].at = o.at /\ gestures[h].what = "pick"
  BY DEF Calmly, TakesCalmly, What
<1>2. Apart(h) /\ (Unplaced(h) \/ Placed(h))
  BY CountedNow
<1>3. CASE Placed(h)
  <2>1. UNCHANGED <<transcript, contexts>>
    BY <1>3, PickEchoed
  <2>2. UNCHANGED <<pending, interactions, menu, popup>> /\ Last' = Last
    BY <2>1 DEF transcript, contexts, Last
  <2>3. Apart(h)'
    BY <1>2, <2>2 DEF Apart
  <2>4. Placed(h)'
    BY <1>1, <1>3, <2>2 DEF Placed, Records, PickedFor, ActionOf
  <2> QED BY <2>3, <2>4
<1>4. CASE Unplaced(h) /\ o.fw = "javafx"
  BY <1>4, CountedNow, PickCommits
<1>5. CASE Unplaced(h) /\ o.fw # "javafx"
  <2>1. a # "javafx" /\ o.type = "pointer" /\ ReleaseAhead(h)'
    BY <1>5, CountedNow DEF Unplaced
  <2>2. o.value = NoValue /\ Kind[o.obj] = "selector" /\ o.detail = "primary"
    BY <1>1, <1>5, <2>1, ObservedCalmly DEF Says, OnScene, SceneKinds, Picks
  <2>3. UNCHANGED transcript /\ menu'.absorbed \subseteq menu.absorbed
    <3>1. ObservePointer(o) /\ ~ Selection(o) /\ ~ MissesMenu(o)
      BY <1>5, <2>1, <2>2, ObservedCalmly DEF Selection, MissesMenu
    <3>2. NoMenu.absorbed = {}
      BY DEF NoMenu
    <3>3. ~ SelectInPopup(o) /\ ~ ChooseFromMenu(o) /\ ~ TraverseMenu(o) /\ ~ OpenMenu(o) /\ ~ Click(o)
      BY <2>2, <3>1 DEF SelectInPopup, ChooseFromMenu, TraverseMenu, OpenMenu, Click
    <3> QED BY <3>1, <3>2, <3>3 DEF ObservePointer, IgnorePointer, CancelPopup, OpenSelector, contexts
  <2>4. UNCHANGED <<pending, interactions>> /\ Last' = Last
    BY <2>3 DEF transcript, Last
  <2>5. Apart(h)' /\ Nowhere(h)'
    BY <1>2, <1>5, <2>3, <2>4 DEF Apart, Nowhere, Unplaced
  <2>6. popup'.committed => popup' = popup
    <3>1. ~ CommitsPick(o)
      BY <2>2, ObservedCalmly DEF CommitsPick, OnScene, What
    <3> QED BY <3>1 DEF ContextMove, NoPopup
  <2>7. popup'.committed => \E m \in DOMAIN gestures' : m # h /\ PickedFor(m)'
    BY <1>1, <1>5, <2>6 DEF Unplaced, PickedFor
  <2> QED BY <2>1, <2>5, <2>7 DEF Unplaced
<1> QED BY <1>2, <1>3, <1>4, <1>5

LEMMA ObserveKeepsOnce ==
  ASSUME NEW a, NEW o, Calmly(a, o)
  PROVE  OnceInv'
<1>1. Move(o) /\ ContextMove(o)
  BY ObserveMoves, ObserveMovesContexts
<1>2. UNCHANGED gestures
  BY DEF Calmly, TakesCalmly
<1>3. \A n : Counted(n)' => Counted(n)
  BY <1>2, CountedSame
<1>4. ASSUME NEW n \in DOMAIN gestures, Counted(n)
      PROVE  (Apart(n) /\ (Unplaced(n) \/ Placed(n) \/ Final(n)))'
  <2>1. CASE n # o.gesture
    BY <1>1, <1>4, <2>1, OthersStayOnce
  <2>2. CASE n = o.gesture /\ What(o) \in Clicks
    BY <1>4, <2>2, ObserveClick
  <2>3. CASE n = o.gesture /\ What(o) = "pick"
    BY <1>1, <1>4, <2>3, ObservePick
  <2> QED BY <1>4, <2>1, <2>2, <2>3 DEF Counted, What
<1> QED BY <1>2, <1>3, <1>4 DEF OnceInv

-----------------------------------------------------------------------------
(* Every step of a session with such a user *)

(* An observation that arrives after the session ended changes nothing.    *)
LEMMA ObserveKeepsPatience ==
  ASSUME PatientUser, CInv, PInv, NEW a \in Frameworks, Observe(a)
  PROVE  PInv'
<1>1. PICK o : o = Head(feed[a])
  OBVIOUS
<1>2. TakesCalmly(a, o) /\ CalmFeed'
  BY <1>1, TakenCalmly, ObserveKeepsFeed DEF CInv, PInv
<1>3. UNCHANGED <<phase, attached, faulty, gestures, ui>> /\ feed[a] # <<>>
  BY <1>2 DEF TakesCalmly, Observe
<1>4. SceneInv' /\ Attachment'
  BY <1>3 DEF PInv, SceneInv, Attachment, OnScene
<1>5. CASE Active
  <2>1. Calmly(a, o)
    BY <1>1, <1>2, <1>5 DEF Calmly, PInv
  <2>2. Move(o) /\ ContextMove(o)
    BY <2>1, ObserveMoves, ObserveMovesContexts
  <2>3. SourcesInv' /\ OpenedInv' /\ CommittedInv' /\ OnceInv'
    BY <2>1, <2>2, ObserveKeepsSources, ObserveKeepsContexts, ObserveKeepsOnce
  <2> QED BY <1>2, <1>4, <2>3 DEF PInv, RInv
<1>6. CASE ~ Active
  <2>1. a \in faulty
    BY <1>3, <1>6 DEF CInv, LifeInv
  <2> QED BY <1>2, <1>3, <1>4, <1>6, <2>1 DEF PInv, Active
<1> QED BY <1>5, <1>6

(* With nothing left to deliver, a gesture is recorded or lost.            *)
LEMMA QuietlyFinal ==
  ASSUME OnceInv, \A a \in Frameworks : feed[a] = <<>>
  PROVE  /\ \A n : ~ InFlight(n) /\ ~ ReleaseAhead(n)
         /\ \A n \in DOMAIN gestures : Counted(n) => Apart(n) /\ Final(n)
<1>1. \A n : ~ InFlight(n)
  BY DEF InFlight
<1>2. \A n : ~ ReleaseAhead(n)
  <2>1. feed["javafx"] = <<>>
    BY DEF Frameworks
  <2> QED BY <2>1 DEF ReleaseAhead
<1>3. \A n \in DOMAIN gestures : Counted(n) => Apart(n) /\ Final(n)
  BY <1>1, <1>2 DEF OnceInv, Unplaced, Placed, Final, Natively
<1> QED BY <1>1, <1>2, <1>3

(* A gesture already made is judged by those before it.                    *)
LEMMA CountedBefore ==
  ASSUME IInv, Gesticulate, NEW g, NEW n, Made(g, n), NEW m \in DOMAIN gestures
  PROVE  /\ Counted(m)' => Counted(m)
         /\ Absorbed(m) => Absorbed(m)'
         /\ \A i : (Records(m, i)' <=> Records(m, i)) /\ (Natively(m, i)' <=> Natively(m, i))
<1>1. /\ Len(gestures) \in Nat /\ DOMAIN gestures = 1 .. Len(gestures)
      /\ Len(gestures') = Len(gestures) + 1
      /\ \A k \in DOMAIN gestures : k \in Nat /\ gestures'[k] = gestures[k]
  BY GesturesGrow
<1>2. \A k \in 1 .. m - 1 : k \in DOMAIN gestures
  BY <1>1
<1>3. \A k, j \in DOMAIN gestures : (IsOpener(k)' <=> IsOpener(k)) /\ (Since(k, j)' = Since(k, j))
  BY <1>1 DEF IsOpener, Since
<1>4. Swallowed(m) => Swallowed(m)'
  BY <1>1, <1>2, <1>3 DEF Swallowed
<1>5. Repeated(m) => Repeated(m)'
  BY <1>1, <1>2, <1>3 DEF Repeated
<1>6. SeenByAll(m)' <=> SeenByAll(m)
  BY <1>1 DEF SeenByAll
<1>7. Absorbed(m) => Absorbed(m)'
  <2> SUFFICES ASSUME Absorbed(m) PROVE Absorbed(m)'
    OBVIOUS
  <2>1. PICK l \in m + 1 .. Len(gestures) : \E k \in m .. l - 1 :
       /\ gestures[l].what = "open_menu" /\ Since(k, l) <= CorrWindow
       /\ gestures[k].obj = gestures[m].obj
    BY DEF Absorbed
  <2>2. PICK k \in m .. l - 1 :
       /\ gestures[l].what = "open_menu" /\ Since(k, l) <= CorrWindow
       /\ gestures[k].obj = gestures[m].obj
    BY <2>1
  <2>3. l \in DOMAIN gestures /\ k \in DOMAIN gestures /\ l \in m + 1 .. Len(gestures')
    BY <1>1, <2>2
  <2>4. gestures'[l].what = "open_menu" /\ Since(k, l)' <= CorrWindow /\ gestures'[k].obj = gestures'[m].obj
    BY <1>1, <1>3, <2>2, <2>3
  <2>5. gestures[m].what \in {"click", "right_click", "choose"} /\ gestures'[m] = gestures[m]
    BY <1>1 DEF Absorbed
  <2> QED BY <2>2, <2>3, <2>4, <2>5 DEF Absorbed
<1>8. Counted(m)' => Counted(m)
  BY <1>1, <1>4, <1>5, <1>6 DEF Counted
<1>9. \A i : (Records(m, i)' <=> Records(m, i)) /\ (Natively(m, i)' <=> Natively(m, i))
  BY <1>1 DEF Records, Natively, ActionOf
<1> QED BY <1>7, <1>8, <1>9

LEMMA GesticulateKeepsSources ==
  ASSUME IInv, SourcesInv, Gesticulate, NEW g, NEW n, Made(g, n),
         UNCHANGED <<interactions, pending, menu>>
  PROVE  SourcesInv'
<1>1. \A m \in DOMAIN gestures : m \in DOMAIN gestures' /\ gestures'[m] = gestures[m]
  BY GesturesGrow DEF Made
<1>2. \A S : Observed(S) => Observed(S)'
  BY <1>1 DEF Observed
<1>3. Last' = Last
  BY DEF Last
<1>4. ASSUME pending # <<>>
      PROVE  \E k \in DOMAIN gestures' :
                /\ gestures'[k].obj = Last.obj /\ gestures'[k].at = Last.completed
                /\ \A m \in Last.of : m <= k
  <2>1. PICK k \in DOMAIN gestures :
            /\ gestures[k].obj = Last.obj /\ gestures[k].at = Last.completed
            /\ \A m \in Last.of : m <= k
    BY <1>4 DEF SourcesInv
  <2> QED BY <1>1, <2>1
<1> QED BY <1>2, <1>3, <1>4 DEF SourcesInv, Observed

LEMMA GesticulateKeepsContexts ==
  ASSUME IInv, OpenedInv, CommittedInv, Gesticulate, NEW g, NEW n, Made(g, n), UNCHANGED <<menu, popup>>
  PROVE  OpenedInv' /\ CommittedInv'
<1>1. \A m \in DOMAIN gestures : m \in DOMAIN gestures' /\ gestures'[m] = gestures[m]
  BY GesturesGrow DEF Made
<1>2. \A m \in DOMAIN gestures : PickedFor(m) => PickedFor(m)'
  BY <1>1 DEF PickedFor
<1>3. CommittedInv'
  BY <1>1, <1>2 DEF CommittedInv
<1>4. OpenedInv'
  BY <1>1 DEF OpenedInv, MenuOpen
<1> QED BY <1>3, <1>4

(* The native release of a gesture just made is still to come; what was    *)
(* reported before is recorded.                                            *)
LEMMA GesticulateKeepsOnce ==
  ASSUME PatientUser, IInv, RInv, Gesticulate
  PROVE  OnceInv'
<1>1. PICK g, n : Made(g, n) /\ NewReports(g, n)
  BY GesticulatePatiently
<1>2. (\A a \in Frameworks : feed[a] = <<>>) /\ UNCHANGED <<interactions, pending, menu, popup>> /\ Last' = Last
  BY GesticulatePatiently DEF Last
<1>3. /\ n \notin DOMAIN gestures /\ DOMAIN gestures' = DOMAIN gestures \cup {n} /\ gestures'[n] = g
      /\ g.by = attached
      /\ \A m \in DOMAIN gestures : m # n /\ gestures'[m] = gestures[m]
  <2>1. \A m \in DOMAIN gestures : m < n /\ m \in Nat
    BY <1>1, GesturesGrow
  <2>2. n \in Nat
    BY <1>1 DEF Made
  <2> QED BY <1>1, <2>1, <2>2 DEF Made
<1>4. ASSUME NEW m \in DOMAIN gestures, Counted(m)'
      PROVE  Apart(m)' /\ Final(m)'
  <2>1. Counted(m)
    BY <1>1, <1>4, CountedBefore
  <2>2. Apart(m) /\ Final(m)
    BY <1>2, <2>1, QuietlyFinal DEF RInv
  <2>3. Apart(m)'
    BY <1>2, <2>2 DEF Apart
  <2>4. ~ InFlight(m)'
    BY <1>1, <1>3 DEF InFlight, NewReports
  <2>5. /\ Absorbed(m) => Absorbed(m)'
        /\ \A i : Natively(m, i)' <=> Natively(m, i)
    BY <1>1, CountedBefore
  <2>6. gestures'[m] = gestures[m]
    BY <1>3
  <2>7. CASE gestures[m].what # "pick" /\ Absorbed(m)
    BY <2>3, <2>4, <2>5, <2>6, <2>7 DEF Final
  <2>8. CASE pending # <<>> /\ m \in Last.of /\ Natively(m, Last)
    <3>1. Natively(m, Last)'
      BY <1>2, <2>6, <2>8 DEF Natively, Records, ActionOf
    <3> QED BY <1>2, <2>3, <2>4, <2>8, <3>1 DEF Final
  <2>9. CASE \E i \in DOMAIN interactions : m \in interactions[i].of /\ Natively(m, interactions[i])
    <3>1. PICK i \in DOMAIN interactions : m \in interactions[i].of /\ Natively(m, interactions[i])
      BY <2>9
    <3>2. Natively(m, interactions[i])'
      BY <1>2, <2>6, <3>1 DEF Natively, Records, ActionOf
    <3> QED BY <1>2, <2>3, <2>4, <3>1, <3>2 DEF Final
  <2> QED BY <2>2, <2>3, <2>7, <2>8, <2>9 DEF Final
<1>5. ASSUME Counted(n)' PROVE Apart(n)' /\ Unplaced(n)'
  <2>1. Nowhere(n)
    BY <1>3 DEF RInv, SourcesInv, Observed, Nowhere
  <2>2. Nowhere(n)' /\ Apart(n)'
    BY <1>2, <2>1 DEF Nowhere, Apart
  <2>3. g.by = {Adapters[i] : i \in DOMAIN Adapters}
    BY <1>3, <1>5 DEF Counted, SeenByAll
  <2>4. "javafx" \in attached
    <3>1. 2 \in DOMAIN Adapters /\ Adapters[2] = "javafx"
      BY DEF PatientUser
    <3> QED BY <1>3, <2>3, <3>1
  <2>5. ReleaseAhead(n)'
    <3>1. g.what \in Clicks \cup {"pick"}
      BY <1>3, <1>5 DEF Counted
    <3> QED BY <1>1, <2>4, <3>1 DEF NewReports
  <2>6. ASSUME popup'.committed PROVE \E m \in DOMAIN gestures' : m # n /\ PickedFor(m)'
    <3>1. PICK m \in DOMAIN gestures : PickedFor(m)
      BY <1>2, <2>6 DEF RInv, CommittedInv
    <3>2. PickedFor(m)'
      BY <1>2, <1>3, <3>1 DEF PickedFor
    <3> QED BY <1>3, <3>2
  <2> QED BY <2>2, <2>5, <2>6 DEF Unplaced
<1> QED BY <1>3, <1>4, <1>5 DEF OnceInv

LEMMA GesticulateKeepsPatience ==
  ASSUME PatientUser, CInv, PInv, Gesticulate
  PROVE  PInv'
<1>1. IInv /\ SceneInv /\ CalmFeed /\ Attachment
  BY DEF CInv, PInv
<1>2. PICK g, n : Made(g, n)
  BY <1>1, GesticulatePatiently
<1>3. UNCHANGED <<phase, attached, faulty, interactions, pending, menu, popup>>
  BY <1>1, GesticulatePatiently
<1>4. SceneInv' /\ CalmFeed' /\ Attachment'
  BY <1>1, <1>3, GesticulateKeepsScene, GesticulateKeepsFeed DEF Attachment
<1>5. RInv => RInv'
  BY <1>1, <1>2, <1>3, GesticulateKeepsSources, GesticulateKeepsContexts, GesticulateKeepsOnce DEF RInv
<1> QED BY <1>3, <1>4, <1>5 DEF PInv, Active

(* A step the correlator takes no part in.                                 *)
LEMMA QuietKeepsRecords ==
  ASSUME RInv, UNCHANGED <<feed, interactions, pending, menu, popup, gestures>>
  PROVE  RInv'
<1>1. /\ \A n : Counted(n)' <=> Counted(n)
      /\ \A n : Absorbed(n)' <=> Absorbed(n)
      /\ Last' = Last
  BY CountedSame DEF Last
<1>2. SourcesInv'
  BY <1>1 DEF RInv, SourcesInv, Observed
<1>3. OpenedInv' /\ CommittedInv'
  BY DEF RInv, OpenedInv, CommittedInv, PickedFor, MenuOpen
<1>4. \A n : (InFlight(n)' <=> InFlight(n)) /\ (ReleaseAhead(n)' <=> ReleaseAhead(n))
  BY DEF InFlight, ReleaseAhead
<1>5. ASSUME NEW n
      PROVE  /\ Apart(n) => Apart(n)'
             /\ Unplaced(n) => Unplaced(n)'
             /\ Placed(n) => Placed(n)'
             /\ Final(n) => Final(n)'
  <2>1. Apart(n) => Apart(n)'
    BY <1>1 DEF Apart
  <2>2. Unplaced(n) => Unplaced(n)'
    BY <1>1, <1>4 DEF Unplaced, Nowhere, PickedFor
  <2>3. Placed(n) => Placed(n)'
    BY <1>1, <1>4 DEF Placed, Records, ActionOf, PickedFor
  <2>4. Final(n) => Final(n)'
    BY <1>1, <1>4 DEF Final, Natively, Records, ActionOf
  <2> QED BY <2>1, <2>2, <2>3, <2>4
<1>6. OnceInv'
  BY <1>1, <1>5 DEF RInv, OnceInv
<1> QED BY <1>2, <1>3, <1>6 DEF RInv

LEMMA QuietKeepsPatience ==
  ASSUME PInv, Attachment', UNCHANGED <<feed, interactions, pending, menu, popup, gestures>>,
         Active' => Active, faulty \subseteq faulty'
  PROVE  PInv'
<1>1. SceneInv' /\ CalmFeed'
  BY DEF PInv, SceneInv, CalmFeed, OnScene, Says
<1>2. Active' \/ faulty' = {} => RInv'
  BY QuietKeepsRecords DEF PInv
<1> QED BY <1>1, <1>2 DEF PInv

(* The flush of stop() records the pending interaction as it is.           *)
LEMMA FinishStopKeepsOnce ==
  ASSUME CInv, RInv, FinishStop, faulty = {}
  PROVE  RInv'
<1>1. /\ UNCHANGED <<feed, gestures>> /\ attached = {}
      /\ interactions' = interactions \o pending /\ pending' = <<>>
      /\ menu' = NoMenu /\ popup' = NoPopup
  BY DEF FinishStop, user
<1>2. Transcript
  BY DEF CInv, IInv, TypeOK, Transcript
<1>3. \A a \in Frameworks : feed[a] = <<>> /\ feed'[a] = <<>>
  BY <1>1 DEF CInv, LifeInv
<1>4. PICK k : k = Len(interactions) + 1
  OBVIOUS
<1>5. /\ \A i \in DOMAIN interactions' :
           \/ i \in DOMAIN interactions /\ interactions'[i] = interactions[i]
           \/ pending # <<>> /\ i = k /\ interactions'[i] = Last
      /\ \A i \in DOMAIN interactions : i \in DOMAIN interactions' /\ interactions'[i] = interactions[i] /\ i # k
      /\ pending # <<>> => k \in DOMAIN interactions' /\ interactions'[k] = Last
  BY <1>1, <1>2, <1>4, RecordedNext
<1>6. menu'.absorbed = {} /\ menu'.owner = NoObject /\ popup'.owner = NoObject /\ ~ popup'.committed
  BY <1>1 DEF NoMenu, NoPopup
<1>7. SourcesInv'
  BY <1>1, <1>5, <1>6 DEF RInv, SourcesInv, Observed
<1>8. OpenedInv' /\ CommittedInv'
  BY <1>6 DEF OpenedInv, CommittedInv, MenuOpen
<1>9. ASSUME NEW n \in DOMAIN gestures, Counted(n) PROVE Apart(n)' /\ Final(n)'
  <2>1. Apart(n) /\ Final(n)
    BY <1>3, <1>9, QuietlyFinal DEF RInv
  <2>2. Apart(n)'
    <3>1. ASSUME NEW i \in DOMAIN interactions', NEW j \in DOMAIN interactions',
                 n \in interactions'[i].of, n \in interactions'[j].of
          PROVE  i = j
      <4>1. CASE i \in DOMAIN interactions /\ interactions'[i] = interactions[i]
                 /\ j \in DOMAIN interactions /\ interactions'[j] = interactions[j]
        BY <2>1, <3>1, <4>1 DEF Apart
      <4>2. CASE pending # <<>> /\ n \in Last.of
        BY <1>5, <2>1, <3>1, <4>2 DEF Apart
      <4> QED BY <1>5, <3>1, <4>1, <4>2
    <3> QED BY <1>1, <1>6, <3>1 DEF Apart
  <2>3. ~ InFlight(n)'
    BY <1>3 DEF InFlight
  <2>4. \A i : Natively(n, i)' <=> Natively(n, i)
    BY <1>1, CountedSame
  <2>5. CASE gestures[n].what # "pick" /\ Absorbed(n)
    BY <1>1, <2>2, <2>3, <2>5, CountedSame DEF Final
  <2>6. CASE \E i \in DOMAIN interactions' : n \in interactions'[i].of /\ Natively(n, interactions'[i])
    <3>1. PICK i \in DOMAIN interactions' : n \in interactions'[i].of /\ Natively(n, interactions'[i])
      BY <2>6
    <3>2. Natively(n, interactions[i])'
      BY <1>1, <3>1 DEF Natively, Records, ActionOf
    <3> QED BY <2>2, <2>3, <3>1, <3>2 DEF Final
  <2> QED BY <1>5, <2>1, <2>2, <2>5, <2>6 DEF Final
<1>10. OnceInv'
  <2>1. \A n : Counted(n)' <=> Counted(n)
    BY <1>1, CountedSame
  <2> QED BY <1>1, <1>9, <2>1 DEF OnceInv
<1> QED BY <1>7, <1>8, <1>10 DEF RInv

LEMMA NextPInv ==
  ASSUME PatientUser, CInv, PInv, [Next]_vars
  PROVE  PInv'
<1>1. Attachment' /\ DOMAIN feed = Frameworks
  BY NextKeepsAttachment DEF CInv, PInv, IInv, TypeOK
<1>2. ASSUME NEW a \in Frameworks, Observe(a) PROVE PInv'
  BY <1>2, ObserveKeepsPatience
<1>3. ASSUME NEW a \in Frameworks, StopAdapter(a) PROVE PInv'
  <2>1. UNCHANGED <<feed, interactions, pending, menu, popup, gestures, phase>> /\ faulty \subseteq faulty'
    BY <1>3 DEF StopAdapter, transcript, contexts, user
  <2> QED BY <1>1, <2>1, QuietKeepsPatience DEF Active
<1>4. CASE StartAdapter \/ StartFails \/ RequestStop \/ Abandon
  <2>1. UNCHANGED <<faulty, feed, interactions, pending, menu, popup, gestures>> /\ Active
    BY <1>4 DEF StartAdapter, StartFails, RequestStop, Abandon, transcript, contexts, user, Active
  <2> QED BY <1>1, <2>1, QuietKeepsPatience
<1>5. CASE FinishStop
  <2>1. UNCHANGED <<feed, gestures, faulty>> /\ Active /\ ~ Active'
    BY <1>5 DEF FinishStop, user, Active
  <2>2. SceneInv' /\ CalmFeed'
    BY <2>1 DEF PInv, SceneInv, CalmFeed, OnScene, Says
  <2>3. faulty = {} => RInv'
    BY <1>5, <2>1, FinishStopKeepsOnce DEF PInv
  <2> QED BY <1>1, <2>1, <2>2, <2>3 DEF PInv
<1>6. CASE Gesticulate
  BY <1>6, GesticulateKeepsPatience
<1>7. CASE UNCHANGED vars
  <2>1. UNCHANGED <<phase, faulty, feed, interactions, pending, menu, popup, gestures>>
    BY <1>7 DEF vars, transcript, contexts, user
  <2> QED BY <1>1, <2>1, QuietKeepsPatience DEF Active
<1> QED BY <1>1, <1>2, <1>3, <1>4, <1>5, <1>6, <1>7 DEF Next, Terminated

LEMMA InitPInv == Init => PInv
<1> SUFFICES ASSUME Init PROVE PInv
  OBVIOUS
<1>1. /\ \A a \in Frameworks : feed[a] = <<>>
      /\ gestures = <<>> /\ interactions = <<>> /\ pending = <<>> /\ attached = {}
  BY DEF Init
<1>2. menu.owner = NoObject /\ menu.absorbed = {} /\ popup.owner = NoObject /\ ~ popup.committed
  BY DEF Init, NoMenu, NoPopup
<1>3. SceneInv /\ Attachment
  BY <1>1 DEF SceneInv, Attachment
<1>4. CalmFeed
  BY <1>1 DEF CalmFeed, Frameworks
<1>5. RInv
  BY <1>1, <1>2 DEF RInv, SourcesInv, Observed, OpenedInv, CommittedInv, OnceInv, MenuOpen
<1> QED BY <1>3, <1>4, <1>5 DEF PInv

(* What the invariant says of a session that ended.                        *)
LEMMA CompleteCounts ==
  ASSUME CInv, PInv, Complete, NEW n \in DOMAIN gestures, Counted(n)
  PROVE  /\ \A i, j \in AccountsFor(n) : i = j
         /\ \/ gestures[n].what # "pick" /\ Absorbed(n)
            \/ \E i \in AccountsFor(n) : Natively(n, interactions[i])
<1>1. RInv
  BY DEF PInv, Complete
<1>2. (\A a \in Frameworks : feed[a] = <<>>) /\ pending = <<>>
  BY DEF CInv, LifeInv, Complete, Active
<1>3. Apart(n) /\ Final(n)
  BY <1>1, <1>2, QuietlyFinal DEF RInv
<1> QED BY <1>2, <1>3 DEF Apart, Final, AccountsFor

LEMMA ClicksOfPInv == ASSUME CInv, PInv PROVE ClicksRecordedOnce
<1> SUFFICES ASSUME Complete, NEW n \in DOMAIN gestures,
                    SeenByAll(n), ~ Swallowed(n), gestures[n].what \in Clicks
             PROVE  /\ Cardinality(AccountsFor(n)) <= 1
                    /\ ~ Absorbed(n) => \E i \in AccountsFor(n) :
                         /\ interactions[i].obj = gestures[n].obj /\ interactions[i].fw = "javafx"
                         /\ interactions[i].action = Expected[gestures[n].what]
  BY DEF ClicksRecordedOnce
<1>1. Counted(n)
  BY DEF Counted
<1>2. Cardinality(AccountsFor(n)) <= 1
  <2>1. \A i, j \in AccountsFor(n) : i = j
    BY <1>1, CompleteCounts
  <2>2. CASE AccountsFor(n) = {}
    BY <2>2, FS_EmptySet
  <2>3. CASE AccountsFor(n) # {}
    <3>1. PICK i : AccountsFor(n) = {i}
      BY <2>1, <2>3
    <3>2. Cardinality({i}) = 1
      BY FS_Singleton
    <3> QED BY <3>1, <3>2
  <2> QED BY <2>2, <2>3
<1>3. ASSUME ~ Absorbed(n)
      PROVE  \E i \in AccountsFor(n) :
               /\ interactions[i].obj = gestures[n].obj /\ interactions[i].fw = "javafx"
               /\ interactions[i].action = Expected[gestures[n].what]
  <2>1. PICK i \in AccountsFor(n) : Natively(n, interactions[i])
    BY <1>1, <1>3, CompleteCounts
  <2>2. ActionOf(n) = Expected[gestures[n].what]
    BY DEF ActionOf, Expected, Clicks
  <2> QED BY <2>1, <2>2 DEF Natively, Records
<1> QED BY <1>2, <1>3

LEMMA SelectionsOfPInv == ASSUME CInv, PInv PROVE SelectionsRecordedOnce
<1> SUFFICES ASSUME Complete, NEW n \in DOMAIN gestures,
                    SeenByAll(n), gestures[n].what = "pick", ~ Shadowed(n)
             PROVE  \E i \in DOMAIN interactions :
                      /\ AccountsFor(n) = {i} /\ interactions[i].obj = gestures[n].obj
                      /\ interactions[i].action = "select_item" /\ interactions[i].fw = "javafx"
                      /\ interactions[i].value = gestures[n].value
  BY DEF SelectionsRecordedOnce
<1>1. Counted(n)
  BY DEF Counted, Shadowed
<1>2. PICK i \in AccountsFor(n) : Natively(n, interactions[i])
  BY <1>1, CompleteCounts
<1>3. AccountsFor(n) = {i}
  BY <1>1, <1>2, CompleteCounts
<1>4. i \in DOMAIN interactions
  BY DEF AccountsFor
<1>5. ActionOf(n) = "select_item"
  BY DEF ActionOf, Expected
<1> QED BY <1>2, <1>3, <1>4, <1>5 DEF Natively, Records

(* With both adapters and a user who waits for their reports, whatever the *)
(* objects, the windows and the pace of each adapter: a click outside the  *)
(* shadow of an opener is recorded once, with the native identity, unless  *)
(* a menu absorbed it, and a selection in a popup becomes one select_item. *)
THEOREM PatientlyRecorded ==
  ASSUME PatientUser
  PROVE  Spec => [](ClicksRecordedOnce /\ SelectionsRecordedOnce)
<1>1. Init => CInv /\ PInv
  BY InitCInv, InitPInv
<1>2. CInv /\ PInv /\ [Next]_vars => CInv' /\ PInv'
  BY NextCInv, NextPInv
<1>3. CInv /\ PInv => ClicksRecordedOnce /\ SelectionsRecordedOnce
  BY ClicksOfPInv, SelectionsOfPInv
<1> QED BY <1>1, <1>2, <1>3, PTL DEF Spec
=============================================================================
