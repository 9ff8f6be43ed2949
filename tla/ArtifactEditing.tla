--------------------------- MODULE ArtifactEditing ---------------------------
(***************************************************************************)
(* Several windows of the authoring process edit one object repository and *)
(* one test plan: Repository Identity Workbenches, plan windows, the       *)
(* review of a finished recording and the migration of embedded objects,   *)
(* which publishes both files together. Other processes save the same      *)
(* files (core/component_repository.py, core/test_plan.py, core/           *)
(* repository_reconciliation.py, authoring/gui).                           *)
(*                                                                         *)
(* A document is the set of edits it contains, each tied to its object;    *)
(* two documents have the same fingerprint when they are equal. Callbacks  *)
(* of the main loop do not interleave with each other (busy), but workers  *)
(* run beside them, dialogs run a nested loop, and another process may     *)
(* save in the middle of a callback: gaps are the places where it does.    *)
(***************************************************************************)
EXTENDS Integers, Sequences

CONSTANTS
  Workbenches,        \* windows on the repository
  PlanWindows,        \* windows on the test plan
  Objects,            \* objects of the repository
  NewObjects,         \* those of Objects that are not captured yet
  Gaps,               \* the sets of places, one of which is gaps
  MaxEdits            \* bound on the edits of a behaviour

Editors == Workbenches \cup PlanWindows
Files == {"repository", "plan"}
Steps == "steps"      \* the one object of a plan that is edited here
Nobody == "nobody"
NoEdit == 0
Unread == -1          \* the object is not in the tree of the window yet
Edits == 1 .. MaxEdits
FileOf(w) == IF w \in Workbenches THEN "repository" ELSE "plan"
ObjectsOf(w) == IF w \in Workbenches THEN Objects ELSE {Steps}

VARIABLES
  gaps,               \* places in callbacks where another process may save
  files,              \* the contents of both files
  edits,              \* how many edits were made
  deletions,          \* those that delete their object
  migrations,         \* those that move objects from the plan to the repository
  window,             \* what each window is doing
  subject,            \* the object it does it to
  memory,             \* host.repository or plan of each window
  baseline,           \* _loaded_fingerprint, _loaded_plan_fingerprint
  typed,              \* names and identity_overrides that no save has applied
  candidate,          \* the definition a recapture was staged from
  reload,             \* windows with a queued _context_ready
  dialogs,            \* the windows whose dialogs are open, the last on top
  busy,               \* the callback in progress, with its place
  publication         \* the files a publication replaces, and their originals

vars == <<gaps, files, edits, deletions, migrations, window, subject, memory,
          baseline, typed, candidate, reload, dialogs, busy, publication>>

documents == <<memory, baseline>>
ghosts == <<deletions, migrations>>

Callback(w, at) == [of |-> w, at |-> at]
Between == busy = Callback(Nobody, "loop")
Definition(d, o) == {p \in d : p[1] = o}
Present(d, o) ==
  \E p \in Definition(d, o) :
    p[2] \notin deletions /\ \A q \in Definition(d, o) : q[2] <= p[2]
Fresh == edits + 1
Form(value) == [o \in Objects \cup {Steps} |-> value]
Untyped == Form(NoEdit)
InTree(w, o) == Present(memory[w], o) /\ typed[w][o] # Unread
NoSubject == [object |-> Steps, what |-> "nothing"]
NoPublication == [replaced |-> {}, originals |-> [f \in Files |-> {}], edit |-> NoEdit]

Init ==
  /\ gaps \in Gaps
  /\ files = [repository |-> (Objects \ NewObjects) \X {NoEdit}, plan |-> {<<Steps, NoEdit>>}]
  /\ edits = 0 /\ deletions = {} /\ migrations = {}
  /\ window = [w \in Editors |-> "closed"] /\ subject = [w \in Editors |-> NoSubject]
  /\ memory = [w \in Editors |-> {}] /\ baseline = [w \in Editors |-> {}]
  /\ typed = [w \in Editors |-> Untyped] /\ candidate = [w \in Editors |-> {}]
  /\ reload = {} /\ dialogs = <<>>
  /\ busy = Callback(Nobody, "loop") /\ publication = NoPublication

-----------------------------------------------------------------------------
(* Opening: the document is loaded, then its fingerprint is read. *)

OpenLoad(w) ==
  /\ Between /\ dialogs = <<>> /\ window[w] = "closed"
  /\ window' = [window EXCEPT ![w] = "idle"]
  /\ memory' = [memory EXCEPT ![w] = files[FileOf(w)]]
  /\ typed' = [typed EXCEPT ![w] = Form(Unread)]
  /\ busy' = Callback(w, "open")
  /\ UNCHANGED <<files, edits, ghosts, subject, baseline, candidate, reload, dialogs, publication>>

OpenFingerprint(w) ==
  /\ busy = Callback(w, "open")
  /\ baseline' = [baseline EXCEPT ![w] = files[FileOf(w)]]
  /\ reload' = IF w \in Workbenches THEN reload \cup {w} ELSE reload
  /\ busy' = Callback(Nobody, "loop")
  /\ UNCHANGED <<files, edits, ghosts, window, subject, memory, typed, candidate, dialogs, publication>>

(* Mutant: a window that reads the fingerprint again when it is shown. *)
ContextReadyAgain(w) ==
  /\ Between /\ w \in reload
  /\ reload' = reload \ {w}
  /\ baseline' = IF window[w] = "closed" THEN baseline
                 ELSE [baseline EXCEPT ![w] = files["repository"]]
  /\ typed' = IF window[w] = "closed" THEN typed ELSE [typed EXCEPT ![w] = Untyped]
  /\ UNCHANGED <<files, edits, ghosts, window, subject, memory, candidate, dialogs, busy, publication>>

(* _context_ready fills names and identity_overrides from the repository. *)
ContextReady(w) ==
  /\ Between /\ w \in reload
  /\ reload' = reload \ {w}
  /\ typed' = IF window[w] = "closed" THEN typed ELSE [typed EXCEPT ![w] = Untyped]
  /\ UNCHANGED <<files, edits, ghosts, window, subject, documents, candidate, dialogs, busy, publication>>

Close(w) ==
  /\ Between /\ dialogs = <<>> /\ window[w] = "idle"
  /\ window' = [window EXCEPT ![w] = "closed"]
  /\ memory' = [memory EXCEPT ![w] = {}] /\ baseline' = [baseline EXCEPT ![w] = {}]
  /\ typed' = [typed EXCEPT ![w] = Untyped]
  /\ UNCHANGED <<files, edits, ghosts, subject, candidate, reload, dialogs, busy, publication>>

-----------------------------------------------------------------------------
(* Editing *)

Free(w) == Between /\ dialogs = <<>> /\ window[w] = "idle"
Top(w) == Between /\ dialogs # <<>> /\ dialogs[Len(dialogs)] = w
Popped == SubSeq(dialogs, 1, Len(dialogs) - 1)
Idle(w) ==
  /\ window' = [window EXCEPT ![w] = "idle"] /\ dialogs' = Popped
  /\ subject' = [subject EXCEPT ![w] = NoSubject] /\ candidate' = [candidate EXCEPT ![w] = {}]

(* An edit of the form is kept beside the repository until it is saved. *)
Type(w, o) ==
  /\ Free(w) /\ w \in Workbenches /\ InTree(w, o) /\ Fresh \in Edits
  /\ typed' = [typed EXCEPT ![w][o] = Fresh] /\ edits' = Fresh
  /\ UNCHANGED <<files, ghosts, window, subject, documents, candidate, reload, dialogs, busy, publication>>

EditPlan(w) ==
  /\ Free(w) /\ w \in PlanWindows /\ Fresh \in Edits
  /\ memory' = [memory EXCEPT ![w] = @ \cup {<<Steps, Fresh>>}] /\ edits' = Fresh
  /\ UNCHANGED <<files, ghosts, window, subject, baseline, typed, candidate, reload, dialogs, busy, publication>>

(* Capturing and recapturing hide the window while a worker waits for the  *)
(* click. Deleting and reparenting act when the user answers.              *)
Begin(w, o, what) ==
  /\ Free(w) /\ w \in Workbenches
  /\ what = "naming" \/ InTree(w, o)
  /\ what = "naming" => ~ \E p \in memory[w] : p[1] = o
  /\ window' = [window EXCEPT ![w] = IF what = "deleting" THEN what ELSE "hidden"]
  /\ subject' = [subject EXCEPT ![w] = [object |-> o, what |-> what]]
  /\ dialogs' = IF what = "deleting" THEN Append(dialogs, w) ELSE dialogs
  /\ UNCHANGED <<files, edits, ghosts, documents, typed, candidate, reload, busy, publication>>

(* The worker stages a recapture from the repository it finds; its         *)
(* completion opens the dialog in which the user names or reviews it.      *)
Captured(w) ==
  /\ Between /\ window[w] = "hidden"
  /\ candidate' = [candidate EXCEPT ![w] = Definition(memory[w], subject[w].object)]
  /\ window' = [window EXCEPT ![w] = subject[w].what]
  /\ dialogs' = Append(dialogs, w)
  /\ UNCHANGED <<files, edits, ghosts, subject, documents, typed, reload, busy, publication>>

CaptureFails(w) ==
  /\ Between /\ window[w] = "hidden"
  /\ window' = [window EXCEPT ![w] = "idle"] /\ subject' = [subject EXCEPT ![w] = NoSubject]
  /\ UNCHANGED <<files, edits, ghosts, documents, typed, candidate, reload, dialogs, busy, publication>>

Discard(w) ==
  /\ Top(w) /\ window[w] \in {"naming", "reviewing", "deleting", "choosing"}
  /\ Idle(w)
  /\ publication' = IF window[w] = "choosing" THEN NoPublication ELSE publication
  /\ UNCHANGED <<files, edits, ghosts, documents, typed, reload, busy>>

(* _add_captured_object, delete_selected and an accepted recapture. *)
Accept(w) ==
  LET o == subject[w].object IN
  /\ Top(w) /\ window[w] \in {"naming", "reviewing", "deleting"} /\ Fresh \in Edits
  /\ window[w] = "reviewing" => Definition(memory[w], o) = candidate[w]
  /\ memory' = [memory EXCEPT ![w] = @ \cup {<<o, Fresh>>}] /\ edits' = Fresh
  /\ deletions' = IF window[w] = "deleting" THEN deletions \cup {Fresh} ELSE deletions
  /\ typed' = CASE window[w] = "reviewing" -> [typed EXCEPT ![w][o] = NoEdit]
                [] window[w] = "naming" -> [typed EXCEPT ![w][o] = Unread]
                [] window[w] = "deleting" -> typed
  /\ reload' = IF window[w] = "reviewing" THEN reload ELSE reload \cup {w}
  /\ Idle(w)
  /\ UNCHANGED <<files, migrations, baseline, busy, publication>>

Reparent(w, o) ==
  /\ Free(w) /\ w \in Workbenches /\ InTree(w, o) /\ Fresh \in Edits
  /\ memory' = [memory EXCEPT ![w] = @ \cup {<<o, Fresh>>}] /\ edits' = Fresh
  /\ reload' = reload \cup {w}
  /\ UNCHANGED <<files, ghosts, window, subject, baseline, typed, candidate, dialogs, busy, publication>>

-----------------------------------------------------------------------------
(* Saving: what was typed is applied, object by object; an object that     *)
(* cannot take its new name keeps the file from being written. The file is *)
(* compared, replaced and read again.                                      *)

Applicable(w) == {o \in ObjectsOf(w) : typed[w][o] \in Edits /\ Present(memory[w], o)}

Save(w) ==
  /\ Free(w)
  /\ \E bad \in SUBSET Applicable(w) :
       LET good == Applicable(w) \ bad IN
       /\ memory' = [memory EXCEPT ![w] = @ \cup {<<o, typed[w][o]>> : o \in good}]
       /\ typed' = [typed EXCEPT ![w] = [o \in DOMAIN @ |-> IF o \in good THEN NoEdit ELSE @[o]]]
       /\ busy' = IF bad = {} THEN Callback(w, "save") ELSE busy
  /\ UNCHANGED <<files, edits, ghosts, window, subject, baseline, candidate, reload, dialogs, publication>>

Done(w) == busy' = Callback(Nobody, "loop")

Compare(w) ==
  /\ busy = Callback(w, "save")
  /\ IF files[FileOf(w)] = baseline[w] THEN busy' = Callback(w, "replace") ELSE Done(w)
  /\ UNCHANGED <<files, edits, ghosts, window, subject, documents, typed, candidate, reload, dialogs, publication>>

Replace(w) ==
  /\ busy = Callback(w, "replace")
  /\ files' = [files EXCEPT ![FileOf(w)] = memory[w]]
  /\ busy' = Callback(w, "reread")
  /\ UNCHANGED <<edits, ghosts, window, subject, documents, typed, candidate, reload, dialogs, publication>>

WriteFails(w) ==
  /\ busy = Callback(w, "replace") /\ Done(w)
  /\ UNCHANGED <<files, edits, ghosts, window, subject, documents, typed, candidate, reload, dialogs, publication>>

Reread(w) ==
  /\ busy = Callback(w, "reread")
  /\ baseline' = [baseline EXCEPT ![w] = files[FileOf(w)]] /\ Done(w)
  /\ UNCHANGED <<files, edits, ghosts, window, subject, memory, typed, candidate, reload, dialogs, publication>>

-----------------------------------------------------------------------------
(* The review of a recording loads the repository, adds what was captured  *)
(* and saves it without a fingerprint.                                     *)

Review == Callback("review", "review")

ReviewLoads ==
  /\ Between /\ busy' = Review
  /\ publication' = [publication EXCEPT !.originals["repository"] =
                       IF publication.edit = NoEdit THEN files["repository"] ELSE @]
  /\ publication.edit = NoEdit /\ Fresh \in Edits
  /\ UNCHANGED <<files, edits, ghosts, window, subject, documents, typed, candidate, reload, dialogs>>

ReviewSaves ==
  /\ busy = Review /\ busy' = Callback(Nobody, "loop")
  /\ \E o \in Objects :
       files' = [files EXCEPT !["repository"] = publication.originals["repository"] \cup {<<o, Fresh>>}]
  /\ edits' = Fresh /\ publication' = NoPublication
  /\ UNCHANGED <<ghosts, window, subject, documents, typed, candidate, reload, dialogs>>

(* Another process saves, from what it has just loaded. *)
Foreign(f) ==
  /\ Between \/ busy.at \in gaps
  /\ Fresh \in Edits /\ edits' = Fresh
  /\ \E o \in (IF f = "repository" THEN Objects ELSE {Steps}) :
       files' = [files EXCEPT ![f] = @ \cup {<<o, Fresh>>}]
  /\ UNCHANGED <<ghosts, window, subject, documents, typed, candidate, reload, dialogs, busy, publication>>

-----------------------------------------------------------------------------
(* The migration of embedded objects publishes the repository and the      *)
(* plan. Each is checked to be what the proposal was built on, and then    *)
(* replaced; what was replaced before a failure is restored.               *)

Migrate(w) ==
  /\ Free(w) /\ w \in PlanWindows /\ memory[w] = baseline[w] /\ files["plan"] = baseline[w]
  /\ Fresh \in Edits /\ publication.edit = NoEdit
  /\ publication' = [replaced |-> {}, edit |-> Fresh,
                     originals |-> [repository |-> files["repository"], plan |-> baseline[w]]]
  /\ edits' = Fresh /\ migrations' = migrations \cup {Fresh}
  /\ window' = [window EXCEPT ![w] = "choosing"] /\ dialogs' = Append(dialogs, w)
  /\ UNCHANGED <<files, deletions, subject, documents, typed, candidate, reload, busy>>

Unmoved == \A f \in Files : files[f] = publication.originals[f]

Confirm(w) ==
  /\ Top(w) /\ window[w] = "choosing"
  /\ Idle(w)
  /\ IF Unmoved THEN busy' = Callback(w, "publish") /\ publication' = publication
     ELSE busy' = busy /\ publication' = NoPublication
  /\ UNCHANGED <<files, edits, ghosts, documents, typed, reload>>

Proposed(w, f) ==
  publication.originals[f] \cup
    (IF f = "plan" THEN {<<Steps, publication.edit>>}
     ELSE {<<o, publication.edit>> : o \in NewObjects})

Ahead(f) == IF f = "repository" THEN {} ELSE {"repository"}

Due(f) == f \notin publication.replaced /\ Ahead(f) \subseteq publication.replaced

Recheck(w) ==
  /\ busy = Callback(w, "publish") /\ busy' = Callback(w, "rename")
  /\ \E f \in Files : Due(f) /\ files[f] = publication.originals[f]
  /\ UNCHANGED <<files, edits, ghosts, window, subject, documents, typed, candidate, reload, dialogs, publication>>

Publish(w, f) ==
  /\ busy = Callback(w, "rename") /\ busy' = Callback(w, "publish") /\ Due(f)
  /\ files' = [files EXCEPT ![f] = Proposed(w, f)]
  /\ publication' = [publication EXCEPT !.replaced = @ \cup {f}]
  /\ UNCHANGED <<edits, ghosts, window, subject, documents, typed, candidate, reload, dialogs>>

(* Mutant: a publication that fails leaves what it has replaced. *)
RollBackNothing(w) ==
  /\ busy \in {Callback(w, "publish"), Callback(w, "rename")} /\ publication.replaced # Files
  /\ publication' = NoPublication /\ Done(w)
  /\ UNCHANGED <<files, edits, ghosts, window, subject, documents, typed, candidate, reload, dialogs>>

(* A file that moved or cannot be replaced. *)
RollBack(w) ==
  /\ busy \in {Callback(w, "publish"), Callback(w, "rename")} /\ publication.replaced # Files
  /\ files' = [f \in Files |-> IF f \in publication.replaced THEN publication.originals[f] ELSE files[f]]
  /\ publication' = NoPublication /\ Done(w)
  /\ UNCHANGED <<edits, ghosts, window, subject, documents, typed, candidate, reload, dialogs>>

Published(w) ==
  /\ busy = Callback(w, "publish") /\ publication.replaced = Files
  /\ memory' = [memory EXCEPT ![w] = Proposed(w, "plan")]
  /\ baseline' = [baseline EXCEPT ![w] = files["plan"]]
  /\ publication' = NoPublication /\ Done(w)
  /\ UNCHANGED <<files, edits, ghosts, window, subject, typed, candidate, reload, dialogs>>

-----------------------------------------------------------------------------
Editing(w) ==
  \/ EditPlan(w)
  \/ \E o \in Objects :
       \/ Type(w, o) \/ Reparent(w, o)
       \/ \E what \in {"naming", "reviewing", "deleting"} : Begin(w, o, what)
  \/ Captured(w) \/ CaptureFails(w) \/ Discard(w) \/ Accept(w)

Saving(w) == Save(w) \/ Compare(w) \/ Replace(w) \/ WriteFails(w) \/ Reread(w)

Migrating(w) ==
  \/ Migrate(w) \/ Confirm(w) \/ Recheck(w) \/ RollBack(w) \/ Published(w)
  \/ \E f \in Files : Publish(w, f)

Next ==
  /\ UNCHANGED gaps
  /\ \/ \E w \in Editors :
          \/ OpenLoad(w) \/ OpenFingerprint(w) \/ ContextReady(w) \/ Close(w)
          \/ Editing(w) \/ Saving(w) \/ Migrating(w)
     \/ ReviewLoads \/ ReviewSaves
     \/ \E f \in Files : Foreign(f)

Spec == Init /\ [][Next]_vars

-----------------------------------------------------------------------------
(* Properties *)

(* No save of a window, no review and no publication takes away an edit    *)
(* that was saved by somebody else (the fingerprint comparison of save,    *)
(* save_plan and _atomic_publish, and the reloads that keep it current).   *)
(* There is no lock: it holds if the other processes save between two      *)
(* callbacks, or while a window applies what was typed, and nowhere else.  *)
NothingSavedIsLost ==
  gaps \subseteq {"save"} =>
    \A f \in Files : \A p \in files[f] \ files'[f] : p[2] = publication.edit
SavedStays == [][NothingSavedIsLost]_vars

(* A migration changes the repository and the plan or neither: outside a   *)
(* publication each migration is in both files or in none, wherever        *)
(* another process adds to a file, also between the two replacements or    *)
(* between a check and its replacement, and whichever replacement fails,   *)
(* if what was replaced before can be restored (_atomic_publish).          *)
MigratedTogether ==
  busy.at \notin {"publish", "rename"} =>
    \A e \in migrations :
      (\E o \in Objects : <<o, e>> \in files["repository"]) <=> <<Steps, e>> \in files["plan"]
==============================================================================
