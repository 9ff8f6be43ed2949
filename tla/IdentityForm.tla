----------------------------- MODULE IdentityForm -----------------------------
(***************************************************************************)
(* The form of the Repository Identity Workbench: what showing, editing,   *)
(* recapturing, deleting and saving do to the locators of a repository     *)
(* (authoring/object_identity_workbench.py, gui/repository_identity_       *)
(* workbench_window.py, capture_property_policy.py, core/object_capture).  *)
(*                                                                         *)
(* A condition of a locator is a key with a value; a value is a pair of    *)
(* whose it is and in which capture it was seen. Keys stand for all keys   *)
(* the policy treats alike: text for accessible_text, text and user_data,  *)
(* role for accessible_role, style classes, layout and unknown keys,       *)
(* property for those of the application, state for runtime values, ref    *)
(* for what does not outlive the session.                                  *)
(***************************************************************************)
EXTENDS Naturals, Sequences, FiniteSets, SequencesExt

CONSTANTS
  Objects,            \* the objects of the repository when it is loaded
  MaxFormEdits,       \* bound on the edits of the form
  MaxFormSaves,       \* bound on the saves
  MaxRecaptures       \* bound on the recaptures

Always == {"id", "text", "class"}
Volatile == {"property", "state"}
Session == {"ref"}
Everybody == "all"
User == "user"
Typed == <<User, 1>>
Blank == <<User, 0>>
NoOrdinal == 9
Nobody == "nobody"
Names == 1 .. Cardinality(Objects) + 1

VARIABLES
  repo,               \* host.repository
  tree,               \* the objects of _definition_by_key, in its order
  names,              \* names: the name each object has in the form
  overrides,          \* identity_overrides: the locator each has there
  payload,            \* the evidence in each node of the tree
  form,               \* the object shown, its rows and its ordinal
  contextDue,             \* _context_ready is queued
  seen,               \* the objects the form has shown
  touched,            \* what the user changed: pairs of an object and a key
  captured,           \* the conditions of each that a capture made mandatory
  formEdits, formSaves, recaptures

vars == <<repo, tree, names, overrides, payload, form, contextDue,
          seen, touched, captured, formEdits, formSaves, recaptures>>
ghosts == <<seen, touched, captured>>
counters == <<formEdits, formSaves, recaptures>>

-----------------------------------------------------------------------------
(* Locators and what is known of an object *)

Locator(mandatory, assistive, ordinal) ==
  [mandatory |-> mandatory, assistive |-> assistive, ordinal |-> ordinal]
NoLocator == Locator({}, {}, NoOrdinal)

Of(o, n, key) == <<key, <<IF key \in {"class", "role"} THEN Everybody ELSE o, n>>>>
Some(o, n, keys) == {Of(o, n, k) : k \in keys}

(* The locators captures author, and one that was written by hand. What    *)
(* scopes an object is authored as assistive.                              *)
Authored(kind, o, n) ==
  CASE kind = "javafx" ->
         {Locator(Some(o, n, {"id"}), Some(o, n, {"class", "role", "window"}), NoOrdinal),
          Locator(Some(o, n, {"text", "role"}), Some(o, n, {"class", "window"}), 0)}
    [] kind = "atspi" -> {Locator(Some(o, n, {"name", "role"}), Some(o, n, {"window"}), NoOrdinal)}
    [] kind = "visual" -> {NoLocator}
ByHand(o) == Locator(Some(o, 1, {"class", "property", "state"}), {}, NoOrdinal)

(* definition_from_capture: what a capture makes of the object.            *)
Definition(o, kind, locator, n, name, inventory) ==
  [name |-> name, kind |-> kind, locator |-> locator, rev |-> n,
   properties |-> Some(o, n, {"property", "ref"}), inventory |-> inventory]

Definitions(o, name) ==
  {Definition(o, "javafx", l, 1, name, {"recorded"}) : l \in Authored("javafx", o, 1) \cup {ByHand(o)}}
    \cup {Definition(o, "atspi", l, 1, name, {"recorded"}) : l \in Authored("atspi", o, 1)}
    \cup {Definition(o, "visual", NoLocator, 1, name, {"recorded"})}

Conditions(l) == l.mandatory \cup l.assistive
Keys(conditions) == {c[1] : c \in conditions}

(* _capture_from_definition, _capture_payload, available_properties: the   *)
(* stored locator stands in for a capture, the name of the object for its  *)
(* text and its type for its role where there is none.                     *)
Evidence(d) ==
  LET known == {c \in Conditions(d.locator) : c[1] \in {"id", "text", "role"}} IN
  known \cup d.properties
    \cup {<<"class", <<Everybody, 1>>>>}
    \cup {c \in {<<"text", <<"name", d.name>>>>, <<"role", <<"type", 1>>>>} : c[1] \notin Keys(known)}

(* common_peer_descriptors: what the objects of one class share.           *)
Common(o, nodes) ==
  IF Cardinality(DOMAIN nodes) < 2 THEN {}
  ELSE {c \in nodes[o] : c[1] \notin Volatile \cup Session /\ \A p \in DOMAIN nodes : c \in nodes[p]}

-----------------------------------------------------------------------------
(* The policy and the form *)

(* Mutant: structural conditions of a locator are left out as well.        *)
KeepsAlways(key, section, shared, fx) ==
  /\ key \notin Session
  /\ \/ shared /\ section # "evidence"
     \/ ~shared /\ (fx \/ section # "evidence") /\ key \in Always

(* property_policy: is a condition ticked when its row is built?           *)
Selected(key, section, shared, fx) ==
  /\ key \notin Session
  /\ \/ shared /\ section # "evidence"
     \/ /\ ~shared /\ (fx \/ section # "evidence")
        /\ key \in Always \/ (section = "mandatory" /\ key \notin Volatile)

Selectable(key, section, shared, fx) ==
  key \notin Session /\ ~shared /\ (fx \/ section # "evidence")

Row(section, c, shared, fx) ==
  [section |-> section, key |-> c[1], was |-> c[2], value |-> c[2],
   on |-> Selected(c[1], section, shared, fx), free |-> Selectable(c[1], section, shared, fx)]

(* _build_property_inventory: the locator, then what it leaves unused of   *)
(* the evidence.                                                           *)
Rows(locator, evidence, common, fx) ==
  LET Make(section, cs) == {Row(section, c, c \in common, fx) : c \in cs} IN
  Make("mandatory", locator.mandatory) \cup Make("assistive", locator.assistive)
    \cup Make("evidence", {c \in evidence : c[1] \notin Keys(Conditions(locator))})

(* _render_properties, from the nodes of the tree. *)
ShowFrom(o, locator, nodes) ==
  [of |-> o, rows |-> Rows(locator, nodes[o], Common(o, nodes), repo[o].kind = "javafx"),
   ordinal |-> locator.ordinal, counted |-> TRUE]
Empty == [of |-> Nobody, rows |-> {}, ordinal |-> NoOrdinal, counted |-> TRUE]

(* current_identity: an empty value and a form without a mandatory         *)
(* condition are errors.                                                   *)
Ticked(sections) == {<<r.key, r.value>> : r \in {r \in form.rows : r.on /\ r.section \in sections}}
Complete ==
  /\ Ticked({"mandatory"}) # {}
  /\ \A r \in form.rows : r.on => r.value # Blank
CurrentIdentity ==
  Locator(Ticked({"mandatory"}), Ticked({"assistive", "evidence"}),
          IF form.counted THEN form.ordinal ELSE NoOrdinal)

(* _remember_selected_edits: an unfinished edit is left in the form.       *)
Remembered ==
  IF form.of \in DOMAIN overrides /\ Complete
  THEN [overrides EXCEPT ![form.of] = CurrentIdentity] ELSE overrides

Loaded(r) ==
  /\ names' = [o \in DOMAIN r |-> r[o].name]
  /\ overrides' = [o \in DOMAIN r |-> r[o].locator]
  /\ payload' = [o \in DOMAIN r |-> Evidence(r[o])]

First == SetToSeq(Objects)

Init ==
  /\ repo \in {r \in [Objects -> UNION {Definitions(First[i], i) : i \in DOMAIN First}] :
                 \A i \in DOMAIN First : r[First[i]] \in Definitions(First[i], i)}
  /\ tree = First
  /\ names = [o \in Objects |-> repo[o].name]
  /\ overrides = [o \in Objects |-> repo[o].locator]
  /\ payload = [o \in Objects |-> Evidence(repo[o])]
  /\ form = Empty /\ contextDue = TRUE
  /\ seen = {} /\ touched = {}
  /\ captured = [o \in Objects |-> repo[o].locator.mandatory]
  /\ formEdits = 0 /\ formSaves = 0 /\ recaptures = 0

-----------------------------------------------------------------------------
(* Showing and editing an object *)

(* _context_ready: what the form held is remembered, then the names and    *)
(* locators of the repository replace all that was not saved.              *)
ContextReady ==
  /\ contextDue /\ contextDue' = FALSE
  /\ Loaded(repo)
  /\ form' = IF tree = <<>> THEN Empty
             ELSE ShowFrom(tree[1], repo[tree[1]].locator, [o \in DOMAIN repo |-> Evidence(repo[o])])
  /\ seen' = IF tree = <<>> THEN seen ELSE seen \cup {tree[1]}
  /\ UNCHANGED <<repo, tree, touched, captured, counters>>

(* Mutant: what is on display is remembered for the object selected next.  *)
SelectThenRemember(o) ==
  /\ o \in ToSet(tree) /\ o \in DOMAIN payload /\ form.of # o
  /\ overrides' = IF Complete THEN [overrides EXCEPT ![o] = CurrentIdentity] ELSE overrides
  /\ form' = ShowFrom(o, overrides'[o], payload)
  /\ seen' = seen \cup {o}
  /\ UNCHANGED <<repo, tree, names, payload, contextDue, touched, captured, counters>>

(* _selection_changed: the edits of the object that was selected, then the *)
(* form of the other one.                                                  *)
Select(o) ==
  /\ o \in ToSet(tree) /\ o \in DOMAIN payload /\ form.of # o
  /\ overrides' = Remembered
  /\ form' = ShowFrom(o, overrides[o], payload)
  /\ seen' = seen \cup {o}
  /\ UNCHANGED <<repo, tree, names, payload, contextDue, touched, captured, counters>>

Edited(r, changed) ==
  /\ formEdits < MaxFormEdits /\ formEdits' = formEdits + 1 /\ r \in form.rows /\ r.free
  /\ form' = [form EXCEPT !.rows = (@ \ {r}) \cup {changed}]
  /\ touched' = touched \cup {<<form.of, r.key>>}
  /\ UNCHANGED <<repo, tree, names, overrides, payload, contextDue, seen, captured, formSaves, recaptures>>

Toggle(r) == Edited(r, [r EXCEPT !.on = ~@])
Enter(r, value) == r.value # value /\ Edited(r, [r EXCEPT !.value = value])

ToggleOrdinal ==
  /\ formEdits < MaxFormEdits /\ formEdits' = formEdits + 1 /\ form.ordinal # NoOrdinal
  /\ form' = [form EXCEPT !.counted = ~@]
  /\ touched' = touched \cup {<<form.of, "ordinal">>}
  /\ UNCHANGED <<repo, tree, names, overrides, payload, contextDue, seen, captured, formSaves, recaptures>>

(* _name_changed *)
Rename(n) ==
  /\ formEdits < MaxFormEdits /\ formEdits' = formEdits + 1 /\ form.of \in DOMAIN names /\ names[form.of] # n
  /\ names' = [names EXCEPT ![form.of] = n]
  /\ touched' = touched \cup {<<form.of, "name">>}
  /\ UNCHANGED <<repo, tree, overrides, payload, form, contextDue, seen, captured, formSaves, recaptures>>

-----------------------------------------------------------------------------
(* Saving, deleting and recapturing *)

(* Mutant: a name is taken from the object that has it. *)
SaveAnyName(held, o, identity) ==
  LET d == held.repo[o] IN
  CASE d.kind = "visual" -> [held EXCEPT !.failed = TRUE]
    [] d.kind # "visual" /\ d.name = names[o] /\ d.locator = identity -> held
    [] OTHER -> [held EXCEPT !.repo[o] = [d EXCEPT !.name = names[o], !.locator = identity, !.rev = @ + 1]]

(* _save_node, and what save_repository does about each object: one        *)
(* without a locator of its own (a visual object) is an error.             *)
SaveNode(held, o, identity) ==
  LET d == held.repo[o]
      failure == [held EXCEPT !.failed = TRUE]
  IN CASE d.kind = "visual" -> failure
       [] d.kind # "visual" /\ d.name = names[o] /\ d.locator = identity -> held
       [] OTHER -> IF \E p \in DOMAIN held.repo \ {o} : held.repo[p].name = names[o] THEN failure
                   ELSE [held EXCEPT !.repo[o] = [d EXCEPT !.name = names[o], !.locator = identity,
                                                           !.rev = @ + 1]]

(* The objects are saved in the order of the tree. If none failed the file *)
(* is written (see ArtifactEditing); what was saved stays in the           *)
(* repository of the window also when one did, or the file was not.        *)
Save ==
  /\ formSaves < MaxFormSaves /\ formSaves' = formSaves + 1
  /\ overrides' = Remembered
  /\ LET result == FoldLeft(LAMBDA held, o : SaveNode(held, o, Remembered[o]),
                            [repo |-> repo, failed |-> FALSE], tree)
     IN repo' = result.repo
  /\ UNCHANGED <<tree, names, payload, form, contextDue, ghosts, formEdits, recaptures>>

(* delete_selected *)
Delete ==
  /\ \E i \in DOMAIN tree : tree[i] = form.of /\ tree' = RemoveAt(tree, i)
  /\ repo' = [o \in DOMAIN repo \ {form.of} |-> repo[o]]
  /\ contextDue' = TRUE
  /\ UNCHANGED <<names, overrides, payload, form, ghosts, counters>>

(* Mutant: the inventory of the capture replaces the recorded one. *)
RecapturedAfresh(d, shot) ==
  [d EXCEPT !.locator = shot.locator, !.rev = @ + 1, !.inventory = shot.inventory]

(* recapture_definition: new locators and evidence, everything else stays. *)
Recaptured(d, shot) ==
  [d EXCEPT !.locator = shot.locator, !.rev = @ + 1,
            !.properties = {c \in @ : c[1] \notin Keys(shot.properties)} \cup shot.properties,
            !.inventory = @ \cup shot.inventory]

(* _best_identification, definition_from_capture: the live application is  *)
(* asked how many objects the new locator matches.                         *)
Resolves(locator, matches) ==
  /\ matches > 0
  /\ IF locator.ordinal = NoOrdinal THEN matches = 1 ELSE locator.ordinal < matches

(* stage_recapture and apply_recapture_candidate, of a capture of the type *)
(* and framework of the object. The form is rendered from the new locator  *)
(* and the evidence of the old one; a queued context comes first.          *)
Recapture(shot, matches) ==
  LET o == form.of IN
  /\ Resolves(shot.locator, matches)
  /\ recaptures < MaxRecaptures /\ recaptures' = recaptures + 1 /\ ~contextDue
  /\ o \in ToSet(tree)
  /\ repo' = [repo EXCEPT ![o] = Recaptured(@, shot)]
  /\ overrides' = [overrides EXCEPT ![o] = shot.locator]
  /\ form' = ShowFrom(o, shot.locator, payload)
  /\ touched' = {t \in touched : t[1] # o} \cup {<<o, "captured">>}
  /\ captured' = [captured EXCEPT ![o] = shot.locator.mandatory]
  /\ UNCHANGED <<tree, names, payload, contextDue, seen, formEdits, formSaves>>

(* _validate_recapture_contract: captures of another type are refused.     *)
Shots(o) ==
  {Definition(o, repo[o].kind, l, 2, repo[o].name, {"seen"}) : l \in Authored(repo[o].kind, o, 2)}

Next ==
  \/ ContextReady \/ ToggleOrdinal \/ Save \/ Delete
  \/ \E o \in Objects : Select(o)
  \/ \E n \in Names : Rename(n)
  \/ \E r \in form.rows : Toggle(r) \/ \E value \in {Typed, Blank} : Enter(r, value)
  \/ form.of \in ToSet(tree) /\ \E shot \in Shots(form.of), matches \in 0 .. 2 : Recapture(shot, matches)

Spec == Init /\ [][Next]_vars

-----------------------------------------------------------------------------
(* Properties *)

(* An object the form has not shown keeps its definition, whatever happens *)
(* to the others (the overrides are kept by object, the objects saved by   *)
(* their immutable id).                                                    *)
UnseenIsKept ==
  \A o \in DOMAIN repo \ seen : repo[o].rev = 1 /\ repo[o].locator.mandatory = captured[o]

(* Showing an object, editing others and every save leave the mandatory    *)
(* conditions of its last capture that the user has not touched, but for   *)
(* volatile ones, and make none: those come from captures and from the     *)
(* user (property_policy, current_identity).                               *)
ConditionsAreAuthored ==
  \A o \in DOMAIN repo :
    LET held == repo[o].locator.mandatory IN
    /\ \A c \in captured[o] :
         c[1] \in Volatile \cup Session \/ <<o, c[1]>> \in touched \/ c \in held
    /\ \A c \in held : c \in captured[o] \/ (c[2] = Typed /\ <<o, c[1]>> \in touched)

(* Every object that can be found keeps a condition to be found by, every  *)
(* name one object, and every recaptured object what was recorded of it    *)
(* (_merge_recapture_subobjects).                                          *)
RepositoryIsSound ==
  \A o \in DOMAIN repo :
    /\ repo[o].kind # "visual" => repo[o].locator.mandatory # {}
    /\ "recorded" \in repo[o].inventory
    /\ \A p \in DOMAIN repo \ {o} : repo[p].name # repo[o].name

(* "Every object already belongs to the loaded repository; only changed    *)
(* definitions are updated" (gui/repository_identity_workbench_window.py:  *)
(* 506): a definition nobody changed and nobody recaptured is not updated. *)
OnlyChangedAreUpdated ==
  \A o \in DOMAIN repo : repo[o].rev > 1 => \E t \in touched : t[1] = o

IdentityIsAuthored == UnseenIsKept /\ ConditionsAreAuthored /\ RepositoryIsSound
=============================================================================
