---------------------------- MODULE RecordedMenus ----------------------------
(***************************************************************************)
(* A selection of a JavaFX menu from the click to the replay. The agent    *)
(* describes the item by its route of selectors, the session matches it    *)
(* with the repository it started with (core/logical_menu), the review     *)
(* stages what is unknown in the repository of the plan and makes a step   *)
(* whose path are keys of its inventory, and execution turns that path     *)
(* into selectors again, which the agent follows through the live menu.    *)
(* Only menus of a menu bar: a context menu is not modelled.               *)
(***************************************************************************)
EXTENDS Naturals, Sequences, FiniteSets, SequencesExt

CONSTANTS
  MaxPicks,            \* menu items the user selects in all
  MaxRelabels          \* changes of the menu by the application

(* Items of the application: two menus in the bar, one submenu, two leaves *)
Tops == {1, 2}
Sub == 3
Leaves == {4, 5}
Items == Tops \cup {Sub} \cup Leaves
Bar == 0
Nobody == 0

(* Labels and identifiers; "" is none. Keys are lower case letters and     *)
(* digits of them, so that Find and Find... have the same.                 *)
None == ""
Names == {"Find", "Find...", "i"}
Folded(name) == IF name = "Find..." THEN "Find" ELSE name

VARIABLES
  menu,                \* the live menu: parent, id, text and place of every item
  inventory,           \* owner -> the subobjects of its definition, in order
  snapshot,            \* the inventory of session.repository, while it records
  interactions,        \* what the session recorded and the review has not seen
  steps,               \* the steps of the plan
  replayed,            \* the last step executed, its selectors and the item it fired
  picks, relabels,     \* so far
  worn                 \* ghost: every caption an item has had

vars == <<menu, inventory, snapshot, interactions, steps, replayed, picks, relabels, worn>>

NoReplay == [step |-> 0, selectors |-> <<>>, item |-> Nobody, drawn |-> FALSE]
Idle == [recording |-> FALSE, inventory |-> inventory]
Caption(i) == [id |-> menu[i].id, text |-> menu[i].text]
Captions == {[id |-> None, text |-> "Find"], [id |-> None, text |-> "Find..."],
             [id |-> "i", text |-> None], [id |-> "i", text |-> "Find"]}

-----------------------------------------------------------------------------
(* The live menu, as the agent sees it *)

Children(p) == {i \in Items : menu[i].parent = p}
(* An item is in a menu of the bar or in the submenu of one.               *)
Route(i) == IF menu[i].parent \in Tops THEN <<i>> ELSE <<menu[i].parent, i>>
TopOf(i) == menu[Route(i)[1]].parent

(* menuSelector: the identity of an item and its ordinal under its parent. *)
Selector(i) == [id |-> menu[i].id, text |-> menu[i].text, place |-> menu[i].place]

(* payloadMatches: every criterion of the selector has to be met.          *)
Meets(i, s) == s.id \in {None, menu[i].id} /\ s.text \in {None, menu[i].text}

(* menuChild: a unique match, or else the item at the recorded place: among*)
(* the matches, or with none among all, if the menu is drawn.              *)
MenuChild(p, s, drawn) ==
  LET matches == {i \in Children(p) : Meets(i, s)}
      placed == {i \in IF matches = {} THEN Children(p) ELSE matches : menu[i].place = s.place}
  IN IF Cardinality(matches) = 1 THEN matches
     ELSE IF drawn /\ placed # {} THEN placed ELSE placed \cap matches

-----------------------------------------------------------------------------
(* core/logical_menu *)

(* _criteria_match: nothing that both know differs, and both know one.     *)
Same(a, b) ==
  LET shared == {f \in {"id", "text"} : a[f] # None /\ b[f] # None}
  IN shared # {} /\ \A f \in shared : a[f] = b[f]

(* _definition_matches_criteria: by its id if the capture has one.         *)
IsOwner(d, top) ==
  IF Caption(top).id # None THEN Caption(d).id # None /\ Same(Caption(d), Caption(top))
  ELSE Caption(top).text # None /\ Caption(d).text = Caption(top).text
(* (mutant) The first menu that fits, although another one does, too.      *)
FirstOwners(i) == {CHOOSE d \in Tops : IsOwner(d, TopOf(i)) /\ \A e \in Tops : IsOwner(e, TopOf(i)) => d <= e}

(* Menu definitions that match the owner the agent reported; another menu  *)
(* than that one is never searched.                                        *)
Owners(i) == {d \in Tops : IsOwner(d, TopOf(i))}

Under(inv, path) == {k \in DOMAIN inv : Front(inv[k].path) = path}

BaseKey(s) == Folded(IF s.id # None THEN s.id ELSE s.text)

(* The first free key of a new subobject.                                  *)
FreeKey(inv, path, s) ==
  LET base == BaseKey(s)
      taken == {Last(inv[k].path) : k \in Under(inv, path)}
      k == CHOOSE n \in 1 .. Len(inv) + 1 :
             <<base, n>> \notin taken /\ \A m \in 1 .. n - 1 : <<base, m>> \in taken
  IN <<base, k>>

(* _build_recorded_menu_path, one selector of the route below the owner: a *)
(* known child takes the criteria observed now.                            *)
Stage(acc, s) ==
  LET known == {k \in Under(acc.inv, acc.path) : Same(acc.inv[k].selector, s)}
      first == CHOOSE k \in known : \A j \in known : k <= j
      path == IF known # {} THEN acc.inv[first].path
              ELSE Append(acc.path, FreeKey(acc.inv, acc.path, s))
      node == [path |-> path, selector |-> s]
      old == {k \in DOMAIN acc.inv : acc.inv[k].path = path}
  IN [path |-> path,
      inv |-> IF old = {} THEN Append(acc.inv, node)
              ELSE [k \in DOMAIN acc.inv |-> IF k \in old THEN node ELSE acc.inv[k]]]
BuildPath(inv, selectors) ==
  LET top == Stage([inv |-> inv, path |-> <<>>], selectors[1])
  IN IF Len(selectors) = 1 THEN top ELSE Stage(top, selectors[2])
Selectors(i) == [k \in DOMAIN Route(i) |-> Selector(Route(i)[k])]

(* find_logical_menu_targets: within the one owner, the subobjects with    *)
(* the caption of the item, wherever they are, or the path it would get.   *)
PathsTo(inv, d, i) ==
  LET found == {n.path : n \in {m \in Range(inv[d]) : Same(m.selector, Caption(i))}}
  IN IF found # {} THEN found ELSE {BuildPath(inv[d], Selectors(i)).path}

-----------------------------------------------------------------------------
Labelled(c4, c5, c3, second) ==
  [i \in Items |->
     CASE i = 4 -> c4 [] i = 5 -> c5 [] i = Sub -> c3
       [] i = 1 -> [id |-> None, text |-> "i"] [] OTHER -> [id |-> None, text |-> second]]

Init ==
  /\ \E c4, c5 \in Captions, p4 \in {1, 2, Sub}, p5 \in {1, Sub}, second \in {"i", "Find"} :
       LET caption == Labelled(c4, c5, [id |-> None, text |-> "Find"], second)
           parent == [i \in Items |-> CASE i = 4 -> p4 [] i = 5 -> p5 [] i = Sub -> 1 [] OTHER -> Bar]
       IN /\ menu = [i \in Items |-> [parent |-> parent[i], id |-> caption[i].id,
                                      text |-> caption[i].text, place |-> i]]
          /\ worn = {<<i, caption[i]>> : i \in Items \ Tops}
  /\ inventory = [d \in Tops |-> <<>>] /\ snapshot = Idle
  /\ interactions = <<>> /\ steps = <<>> /\ picks = 0 /\ relabels = 0
  /\ replayed = NoReplay

StartRecording ==
  /\ ~snapshot.recording /\ interactions = <<>> /\ picks < MaxPicks
  /\ snapshot' = [recording |-> TRUE, inventory |-> inventory]
  /\ UNCHANGED <<menu, inventory, interactions, steps, replayed, picks, relabels, worn>>

(* (ghost) Items of earlier selections with a key that an item on the route*)
(* of i has in the same menu.                                              *)
Rivals(i) ==
  {a \in Items : \E e \in Range(interactions), b \in Range(Route(i)) :
     /\ a # b /\ menu[a].parent = menu[b].parent
     /\ \E k \in DOMAIN e.route : e.route[k] = a /\ BaseKey(e.selectors[k]) = BaseKey(menu[b])}

(* The user selects item i while recording: RecordingSession._match. One   *)
(* target is a known subobject, several are ambiguous, and without a       *)
(* unique owner there is none.                                             *)
Pick(i) ==
  LET targets == UNION {{<<d, path>> : path \in PathsTo(snapshot.inventory, d, i)} : d \in Owners(i)}
      target == IF Cardinality(Owners(i)) = 1 /\ Cardinality(targets) = 1 THEN targets ELSE {}
  IN /\ snapshot.recording /\ picks < MaxPicks /\ picks' = picks + 1
     /\ interactions' = Append(interactions,
          [item |-> i, target |-> target, owners |-> Owners(i), selectors |-> Selectors(i),
           route |-> Route(i), rivals |-> Rivals(i)])
     /\ UNCHANGED <<menu, inventory, snapshot, steps, replayed, relabels, worn>>

StopRecording ==
  /\ snapshot.recording /\ snapshot' = Idle
  /\ UNCHANGED <<menu, inventory, interactions, steps, replayed, picks, relabels, worn>>

Persisted(d, path) == \E n \in Range(inventory[d]) : n.path = path

(* materialize_recorded_interaction: a target that the repository has is   *)
(* taken as it is; otherwise the route is staged under its unique owner.   *)
(* Without one the interaction is unresolved and makes no step.            *)
Review ==
  LET e == Head(interactions)
      known == {t \in e.target : Persisted(t[1], t[2])}
      Step(d, path) == Append(steps, [owner |-> d, path |-> path, item |-> e.item,
                                      route |-> e.route, rivals |-> e.rivals])
  IN /\ ~snapshot.recording /\ interactions # <<>> /\ interactions' = Tail(interactions)
     /\ \/ \E t \in known : steps' = Step(t[1], t[2]) /\ UNCHANGED inventory
        \/ /\ known = {} /\ Cardinality(e.owners) = 1
           /\ \E d \in e.owners :
                LET built == BuildPath(inventory[d], e.selectors)
                IN steps' = Step(d, built.path) /\ inventory' = [inventory EXCEPT ![d] = built.inv]
        \/ known = {} /\ Cardinality(e.owners) # 1 /\ UNCHANGED <<steps, inventory>>
     /\ UNCHANGED <<menu, snapshot, replayed, picks, relabels, worn>>

(* The selectors of a step's path (selectors_from_navigation), followed by *)
(* FxRuntime.selectMenuPath from the one live menu its owner's locator     *)
(* finds. An item that is no menu cannot be opened on the way, and a menu  *)
(* at the end is opened but fires nothing.                                 *)
SelectorAt(d, path) == (CHOOSE n \in Range(inventory[d]) : n.path = path).selector
Translated(d, path) == [k \in DOMAIN path |-> SelectorAt(d, SubSeq(path, 1, k))]
Reached(d, selectors, drawn) ==
  LET start == IF Cardinality({t \in Tops : Caption(t) = Caption(d)}) = 1 THEN {d} ELSE {}
      Below(from, k) == UNION {MenuChild(p, selectors[k], drawn) : p \in from \ Leaves}
      first == Below(start, 1)
  IN (IF Len(selectors) = 1 THEN first ELSE Below(first, 2)) \cap Leaves

Replay(k, drawn) ==
  /\ ~snapshot.recording /\ interactions = <<>>
  /\ LET selectors == Translated(steps[k].owner, steps[k].path)
         reached == Reached(steps[k].owner, selectors, drawn)
     IN replayed' = [step |-> k, selectors |-> selectors, drawn |-> drawn,
                     item |-> IF reached = {} THEN Nobody ELSE CHOOSE i \in reached : TRUE]
  /\ UNCHANGED <<menu, inventory, snapshot, interactions, steps, picks, relabels, worn>>

(* The application relabels an item, or lets two leaves change places.     *)
Application ==
  /\ relabels < MaxRelabels /\ relabels' = relabels + 1
  /\ \/ \E i \in Leaves, c \in Captions :
          menu' = [menu EXCEPT ![i].id = c.id, ![i].text = c.text]
     \/ menu' = [menu EXCEPT ![4].place = menu[5].place, ![5].place = menu[4].place]
  /\ worn' = worn \cup {<<i, [id |-> menu'[i].id, text |-> menu'[i].text]>> : i \in Items \ Tops}
  /\ replayed' = NoReplay
  /\ UNCHANGED <<inventory, snapshot, interactions, steps, picks>>

Next ==
  \/ StartRecording \/ StopRecording \/ Review \/ Application
  \/ \E i \in Leaves : Pick(i)
  \/ \E k \in DOMAIN steps, drawn \in BOOLEAN : Replay(k, drawn)

Spec == Init /\ [][Next]_vars

-----------------------------------------------------------------------------
TypeOK ==
  /\ \A i \in Items : menu[i].parent \in Items \cup {Bar} /\ menu[i].place \in Items
  /\ snapshot.recording \in BOOLEAN /\ replayed.item \in Leaves \cup {Nobody}
  /\ \A s \in Range(steps) : s.owner \in Tops /\ Persisted(s.owner, s.path)

(* No two items of one menu have ever been called the same.                *)
Apart ==
  \A v, w \in worn : v[1] # w[1] /\ TopOf(v[1]) = TopOf(w[1]) =>
    \A f \in {"id", "text"} : v[2][f] # w[2][f] \/ v[2][f] = None

(* A recorded selection fires the item that the user had clicked, although *)
(* other items were recorded, staged, relabelled and moved since: as long  *)
(* as the items on its route are called what the repository has learned    *)
(* last, and in any case if they were always called the same. It needs     *)
(* that names are unique within one menu (a terminal label is looked for   *)
(* in all its submenus), and that no item before it in the recording has   *)
(* the same key, since keys are proposed before any is staged.             *)
ReplaysRecorded ==
  replayed.step > 0 =>
    LET s == steps[replayed.step]
        AsLearned == \A k \in DOMAIN s.route :
          Caption(s.route[k]) = [id |-> replayed.selectors[k].id, text |-> replayed.selectors[k].text]
        Constant == \A v, w \in worn : v[1] = w[1] /\ v[1] \in Range(s.route) => v = w
    IN Apart /\ s.rivals = {} /\ (AsLearned \/ Constant) => replayed.item = s.item
=============================================================================
