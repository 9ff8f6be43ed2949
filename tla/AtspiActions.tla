----------------------------- MODULE AtspiActions -----------------------------
(***************************************************************************)
(* Actions of drivers/atspi_driver.py through the accessibility bus: a     *)
(* recorded menu path is walked item by item, a window is closed, a        *)
(* component focused or acted on. Every look at an object is a call to the *)
(* application, which goes on meanwhile: it exposes the items of a menu    *)
(* one by one after the menu was opened, renames items, and replaces       *)
(* objects, whose predecessors are then defunct.                           *)
(***************************************************************************)
EXTENDS Integers, Sequences, FiniteSets

CONSTANTS
  MaxItems,            \* bound on the items of a menu
  MaxMenuChanges       \* bound on the changes by the application

(* What the criteria of a selector compare: name, role or accessible id.   *)
Labels == {"a", "b"}
Menus == UNION {[1 .. n -> Labels] : n \in 0 .. MaxItems}

VARIABLES
  bar,                 \* the items of the menu bar
  sub,                 \* the items of the menu below each of them
  recorded,            \* the selectors of the path: label and ordinal
  op,                  \* menu, close, focus or act
  phase,               \* idle, ordinal, matches, act, confirm, ended
  walked,              \* places of the items picked so far
  listed,              \* places of the items the last look at a menu returned
  partial,             \* an item was picked among some of the items of its menu
  defunct,             \* the object in hand was replaced
  window,              \* the object of the other operations: showing, focused, gone or silent
  effects,             \* items and objects acted on
  rejected,            \* the application refused
  outcome,             \* none, ok or failed
  before, during       \* changes by the application before and during the call

tree == <<bar, sub, recorded>>
callVars == <<op, phase, walked, outcome>>
lookVars == <<listed, partial>>
vars == <<tree, callVars, lookVars, defunct, window, effects, rejected, before, during>>

Paths == {<<i, k>> : i \in 1 .. MaxItems, k \in 1 .. MaxItems}

Init ==
  /\ bar \in Menus /\ sub \in [1 .. MaxItems -> Menus]
  /\ \A i \in (1 .. MaxItems) \ DOMAIN bar : sub[i] = <<>>
  /\ \E p \in Paths :
       /\ p[1] \in DOMAIN bar /\ p[2] \in DOMAIN sub[p[1]]
       /\ recorded = <<[label |-> bar[p[1]], at |-> p[1]], [label |-> sub[p[1]][p[2]], at |-> p[2]]>>
  /\ op = "menu" /\ phase = "idle" /\ walked = <<>> /\ defunct = FALSE /\ window = "showing"
  /\ listed = {} /\ partial = FALSE /\ effects = <<>> /\ rejected = FALSE /\ outcome = "none" /\ before = 0 /\ during = 0

-----------------------------------------------------------------------------
(* select_menu_path. The item is looked for at level Len(walked) + 1.      *)

StartCall(o) ==
  /\ phase = "idle" /\ op' = o
  /\ phase' = IF o = "menu" THEN "ordinal" ELSE "act"
  /\ UNCHANGED <<tree, walked, outcome, lookVars, defunct, window, effects, rejected, before, during>>

Selector == recorded[Len(walked) + 1]

(* The items of the menu in hand; a defunct one has none any more.         *)
Menu == IF walked = <<>> THEN bar ELSE IF defunct THEN <<>> ELSE sub[walked[1]]

Pick(k) == walked' = Append(walked, k) /\ phase' = "act"
End(o) == phase' = "ended" /\ outcome' = o

(* A pick among the places a look returned, not of all items perhaps.      *)
PickFrom(places, k) == Pick(k) /\ listed' = {} /\ partial' = (partial \/ places # DOMAIN Menu)

(* children[ordinal]: the place that is the n-th of those returned.        *)
AtOrdinal(places, n) == {k \in places : Cardinality({i \in places : i <= k}) = n}

(* Mutant of PollOrdinal: the item at the recorded place is taken as it is.*)
PollOrdinalOnly ==
  /\ phase = "ordinal"
  /\ \E places \in SUBSET DOMAIN Menu :
       \/ \E k \in AtOrdinal(places, Selector.at) : PickFrom(places, k)
       \/ AtOrdinal(places, Selector.at) = {} /\ phase' = "matches" /\ listed' = places /\ UNCHANGED <<walked, partial>>
  /\ UNCHANGED <<tree, op, outcome, defunct, window, effects, rejected, before, during>>

(* _wait_for_menu_child: _children returns the items that can be read,     *)
(* none, some or all. Taken is the one at the recorded place of this list  *)
(* if it meets the criteria, ...                                           *)
PollOrdinal ==
  /\ phase = "ordinal"
  /\ \E places \in SUBSET DOMAIN Menu :
       LET there == {k \in AtOrdinal(places, Selector.at) : Menu[k] = Selector.label}
       IN \/ \E k \in there : PickFrom(places, k)
          \/ there = {} /\ phase' = "matches" /\ listed' = places /\ UNCHANGED <<walked, partial>>
  /\ UNCHANGED <<tree, op, outcome, defunct, window, effects, rejected, before, during>>

(* ... or the only one of the list that does; several are an error, and    *)
(* none is looked at again until 1 s is over.                              *)
PollMatches ==
  /\ phase = "matches"
  /\ LET matches == {k \in listed \cap DOMAIN Menu : Menu[k] = Selector.label}
     IN \/ \E k \in matches : matches = {k} /\ PickFrom(listed, k) /\ UNCHANGED outcome
        \/ Cardinality(matches) > 1 /\ End("failed") /\ listed' = {} /\ UNCHANGED <<walked, partial>>
        \/ matches = {} /\ phase' = "ordinal" /\ listed' = {} /\ UNCHANGED <<walked, outcome, partial>>
        \/ matches = {} /\ End("failed") /\ listed' = {} /\ UNCHANGED <<walked, partial>>
  /\ UNCHANGED <<tree, op, defunct, window, effects, rejected, before, during>>

(* _activate_accessible: a menu is opened, the last item activated.        *)
ActivateItem ==
  /\ phase = "act" /\ op = "menu" /\ ~defunct
  /\ IF Len(walked) = 1
     THEN phase' = "ordinal" /\ UNCHANGED <<effects, outcome>>
     ELSE /\ effects' = Append(effects, [path |-> walked, labels |-> <<bar[walked[1]], sub[walked[1]][walked[2]]>>])
          /\ End("ok")
  /\ UNCHANGED <<tree, op, walked, lookVars, defunct, window, rejected, before, during>>

(* The object is defunct, has no such action, or the action reports        *)
(* failure: menus opened so far stay open.                                 *)
ItemRefuses ==
  /\ phase = "act" /\ op = "menu" /\ End("failed")
  /\ UNCHANGED <<tree, op, walked, lookVars, defunct, window, effects, rejected, before, during>>

-----------------------------------------------------------------------------
(* close_window, focus; activate, set_text, set_value and select_child,    *)
(* which take the answer of the application for the result                 *)

Refuse ==
  /\ phase = "act" /\ op # "menu"
  /\ rejected' = TRUE /\ End("failed")
  /\ UNCHANGED <<tree, op, walked, lookVars, defunct, window, effects, before, during>>

Request ==
  /\ phase = "act" /\ op # "menu" /\ window \in {"showing", "focused"}
  /\ effects' = Append(effects, op)
  /\ IF op = "act" THEN End("ok") ELSE phase' = "confirm" /\ UNCHANGED outcome
  /\ UNCHANGED <<tree, op, walked, lookVars, defunct, window, rejected, before, during>>

(* The application follows a request, or not.                              *)
Follow ==
  /\ phase = "confirm" /\ window = "showing"
  /\ window' = IF op = "focus" THEN "focused" ELSE "gone"
  /\ UNCHANGED <<tree, callVars, lookVars, defunct, effects, rejected, before, during>>

(* The state is looked at for 1 s. An object that does not answer is not   *)
(* taken for a closed one.                                                 *)
Confirm ==
  /\ phase = "confirm"
  /\ \/ window = (IF op = "focus" THEN "focused" ELSE "gone") /\ End("ok")
     \/ window # (IF op = "focus" THEN "focused" ELSE "gone") /\ End("failed")
  /\ UNCHANGED <<tree, op, walked, lookVars, defunct, window, effects, rejected, before, during>>

-----------------------------------------------------------------------------
(* The application *)

Counted ==
  IF phase = "idle" THEN before' = before + 1 /\ UNCHANGED during ELSE during' = during + 1 /\ UNCHANGED before

(* Items are renamed in place, or replaced by objects of their own: what   *)
(* is in hand of the old ones is defunct, has no items and meets nothing.  *)
ChangeItems ==
  /\ op = "menu" /\ before + during < MaxMenuChanges /\ Counted /\ phase # "ended"
  /\ \E menu \in Menus, replaced \in BOOLEAN :
       \/ /\ menu # bar /\ menu # <<>> /\ bar' = menu
          /\ sub' = [i \in 1 .. MaxItems |-> IF i \in DOMAIN menu THEN sub[i] ELSE <<>>]
          /\ replaced \/ Len(menu) = Len(bar)
          /\ defunct' = (defunct \/ (replaced /\ walked # <<>>))
          /\ listed' = IF replaced THEN {} ELSE listed
       \/ \E i \in DOMAIN bar :
            /\ menu # sub[i] /\ sub' = [sub EXCEPT ![i] = menu]
            /\ replaced \/ Len(menu) = Len(sub[i])
            /\ defunct' = (defunct \/ (replaced /\ Len(walked) = 2 /\ walked[1] = i))
            /\ listed' = IF replaced /\ walked = <<i>> THEN {} ELSE listed
            /\ UNCHANGED bar
  /\ UNCHANGED <<recorded, callVars, partial, window, effects, rejected>>

(* The object goes away by itself, or stops to answer.                     *)
Vanish ==
  /\ op # "menu" /\ phase # "ended" /\ window \in {"showing", "focused"} /\ window' \in {"gone", "silent"}
  /\ UNCHANGED <<tree, callVars, lookVars, defunct, effects, rejected, before, during>>

-----------------------------------------------------------------------------
Driver ==
  \/ \E o \in {"menu", "close", "focus", "act"} : StartCall(o)
  \/ PollOrdinal \/ PollMatches \/ ActivateItem \/ ItemRefuses \/ Refuse \/ Request \/ Confirm
Application == ChangeItems \/ Follow \/ Vanish

Next == Driver \/ Application

Spec == Init /\ [][Next]_vars

-----------------------------------------------------------------------------
(* Properties *)

TypeOK ==
  /\ bar \in Menus /\ sub \in [1 .. MaxItems -> Menus]
  /\ recorded \in Seq([label : Labels, at : 1 .. MaxItems]) /\ Len(recorded) = 2
  /\ op \in {"menu", "close", "focus", "act"}
  /\ phase \in {"idle", "ordinal", "matches", "act", "confirm", "ended"}
  /\ walked \in Seq(1 .. MaxItems) /\ Len(walked) <= 2 /\ defunct \in BOOLEAN
  /\ window \in {"showing", "focused", "gone", "silent"}
  /\ listed \subseteq 1 .. MaxItems /\ partial \in BOOLEAN /\ rejected \in BOOLEAN
  /\ outcome \in {"none", "ok", "failed"} /\ before + during \in 0 .. MaxMenuChanges

RecordedPath == <<recorded[1].at, recorded[2].at>>
RecordedLabels == <<recorded[1].label, recorded[2].label>>

(* A menu path that succeeds activates one item, and one that fails none.  *)
(* In menus that changed after the recording the item and the menu it is   *)
(* in still have the recorded names. In menus that did not it is the       *)
(* recorded item itself, though others have the same name, if it was       *)
(* picked among all items of its menu, and so was the menu: while a menu   *)
(* is exposed item by item another of the same name may be taken. A window *)
(* reported as closed is gone and one operation makes one request.         *)
AtspiCallIsTrue ==
  /\ Len(effects) <= 1
  /\ outcome = "ok" => effects # <<>>
  /\ outcome = "failed" /\ (op = "menu" \/ rejected) => effects = <<>>
  /\ op = "menu" /\ during = 0 => \A k \in DOMAIN effects :
       /\ effects[k].labels = RecordedLabels
       /\ before = 0 /\ ~partial => effects[k].path = RecordedPath
  /\ op = "close" /\ outcome = "ok" => window = "gone"
=============================================================================
