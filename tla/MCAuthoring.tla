----------------------------- MODULE MCAuthoring ------------------------------
(***************************************************************************)
(* What records, edits and runs the artifacts of a project, checked side   *)
(* by side: a behaviour belongs to one part, and leaves the variables of   *)
(* the others alone. What one of them is given by another, it meets in     *)
(* every form: recordings, repositories and plans of its own.              *)
(***************************************************************************)
EXTENDS Naturals, FiniteSets, TLC

CONSTANTS
  Targets, NoTarget, Editable, Buttons, MaxCommands, MaxStops,
  Workbenches, PlanWindows, Objects, NewObjects, Gaps, MaxEdits,
  MaxFormEdits, MaxFormSaves, MaxRecaptures,
  CallVars, MaxStepCalls, MaxChanges, MaxLogFaults,
  Builtin, UserNames, MaxDisplays, MaxFaults

(* Buttons, workbenches and the names of steps that users add are only    *)
(* compared with each other.                                               *)
Alike == Permutations(Buttons) \cup Permutations(Workbenches) \cup Permutations(UserNames)

VARIABLES
  part, pc, atspi, using, monitor, gate, call, listeners, attached, lease,
  main, todo, failed, stops, accepting, worker, accepted, done, errors,
  pressed, lastTarget, published, gaps, files, edits, deletions, migrations,
  window, subject, memory, baseline, typed, candidate, reload, dialogs,
  busy, publication, repo, tree, names, overrides, payload, form,
  contextDue, seen, touched, captured, formEdits, formSaves, recaptures,
  stack, active, capture, store, log, made, changes, logFaults, outcomes,
  commits, bundle, backend, display, app, tries, refused, interrupted,
  tested, code, faults

Adapter == INSTANCE AtspiAdapterProofs
Editing == INSTANCE ArtifactEditing
Identity == INSTANCE IdentityForm
Calls == INSTANCE StepCalls
Bundles == INSTANCE BundleRuns

ASSUME AdapterAssumption == Adapter!TargetsAssumption /\ Adapter!BoundsAssumption
(* The files have finitely many objects; None is not one of them, nor is   *)
(* it the name of a step.                                                  *)
ASSUME ObjectsAssumption == IsFiniteSet(Objects) /\ Identity!Nobody \notin Objects
ASSUME NamesAssumption == Bundles!NoAlias \notin Bundles!Names
ASSUME EditingAssumption == NewObjects \subseteq Objects /\ NewObjects # {}

(* The variables that only one part has, and their value in the others.    *)
Absent == 0

onlyAdapter == <<atspi, using, monitor, gate, call, listeners, attached, lease, main,
  todo, failed, stops, accepting, worker, accepted, done, errors,
  pressed, lastTarget>>
NoAdapter ==
  /\ atspi = Absent /\ using = Absent /\ monitor = Absent /\ gate = Absent
  /\ call = Absent /\ listeners = Absent /\ attached = Absent
  /\ lease = Absent /\ main = Absent /\ todo = Absent /\ failed = Absent
  /\ stops = Absent /\ accepting = Absent /\ worker = Absent
  /\ accepted = Absent /\ done = Absent /\ errors = Absent
  /\ pressed = Absent /\ lastTarget = Absent

onlyEditing == <<gaps, files, edits, deletions, migrations, window, subject, memory,
  baseline, typed, candidate, reload, dialogs, busy, publication>>
NoEditing ==
  /\ gaps = Absent /\ files = Absent /\ edits = Absent /\ deletions = Absent
  /\ migrations = Absent /\ window = Absent /\ subject = Absent
  /\ memory = Absent /\ baseline = Absent /\ typed = Absent
  /\ candidate = Absent /\ reload = Absent /\ dialogs = Absent
  /\ busy = Absent /\ publication = Absent

onlyIdentity == <<repo, tree, names, overrides, payload, form, contextDue, seen,
  touched, captured, formEdits, formSaves, recaptures>>
NoIdentity ==
  /\ repo = Absent /\ tree = Absent /\ names = Absent /\ overrides = Absent
  /\ payload = Absent /\ form = Absent /\ contextDue = Absent
  /\ seen = Absent /\ touched = Absent /\ captured = Absent
  /\ formEdits = Absent /\ formSaves = Absent /\ recaptures = Absent

onlyCalls == <<stack, active, capture, store, log, made, changes, logFaults,
  outcomes, commits>>
NoCalls ==
  /\ stack = Absent /\ active = Absent /\ capture = Absent /\ store = Absent
  /\ log = Absent /\ made = Absent /\ changes = Absent /\ logFaults = Absent
  /\ outcomes = Absent /\ commits = Absent

onlyBundles == <<bundle, backend, display, app, tries, refused, interrupted, tested,
  code, faults>>
NoBundles ==
  /\ bundle = Absent /\ backend = Absent /\ display = Absent /\ app = Absent
  /\ tries = Absent /\ refused = Absent /\ interrupted = Absent
  /\ tested = Absent /\ code = Absent /\ faults = Absent

Init ==
  \/ part = "adapter" /\ Adapter!Init
     /\ NoEditing /\ NoIdentity /\ NoCalls /\ NoBundles
  \/ part = "editing" /\ Editing!Init
     /\ NoAdapter /\ NoIdentity /\ NoCalls /\ NoBundles /\ pc = Absent
     /\ published = Absent
  \/ part = "identity" /\ Identity!Init
     /\ NoAdapter /\ NoEditing /\ NoCalls /\ NoBundles /\ pc = Absent
     /\ published = Absent
  \/ part = "calls" /\ Calls!Init
     /\ NoAdapter /\ NoEditing /\ NoIdentity /\ NoBundles /\ pc = Absent
     /\ published = Absent
  \/ part = "bundles" /\ Bundles!Init
     /\ NoAdapter /\ NoEditing /\ NoIdentity /\ NoCalls

Next ==
  /\ UNCHANGED part
  /\ \/ part = "adapter" /\ Adapter!Next
        /\ UNCHANGED <<onlyEditing, onlyIdentity, onlyCalls, onlyBundles>>
     \/ part = "editing" /\ Editing!Next
        /\ UNCHANGED <<onlyAdapter, onlyIdentity, onlyCalls, onlyBundles, pc, published>>
     \/ part = "identity" /\ Identity!Next
        /\ UNCHANGED <<onlyAdapter, onlyEditing, onlyCalls, onlyBundles, pc, published>>
     \/ part = "calls" /\ Calls!Next
        /\ UNCHANGED <<onlyAdapter, onlyEditing, onlyIdentity, onlyBundles, pc,
             published>>
     \/ part = "bundles" /\ Bundles!Next
        /\ UNCHANGED <<onlyAdapter, onlyEditing, onlyIdentity, onlyCalls>>

vars == <<part, onlyAdapter, onlyEditing, onlyIdentity, onlyCalls,
          onlyBundles, pc, published>>

Spec == Init /\ [][Next]_vars

-----------------------------------------------------------------------------
(* The commands of two buttons are published in order, about the object    *)
(* their history gives them (see AtspiAdapter).                            *)
PublishedAsAccepted == part = "adapter" => Adapter!PublishedAsAccepted

(* No window, review or publication takes away what somebody else saved    *)
(* (see ArtifactEditing).                                                  *)
SavedStays == [][part = "editing" => Editing!NothingSavedIsLost]_vars

(* A migration is in both files or in none (see ArtifactEditing); the      *)
(* locators of a repository stay the authored ones while its form shows,   *)
(* edits, recaptures and saves them (see IdentityForm); the check of a     *)
(* bundle finds in its files what its test will find (see BundleRuns).     *)
ArtifactsAreSound ==
  /\ part = "editing" => Editing!MigratedTogether
  /\ part = "identity" => Identity!IdentityIsAuthored
  /\ part = "bundles" => Bundles!CheckForesees

(* A step binds what it declares in one transaction of its own, however    *)
(* the steps around it end (see StepCalls). The run of a bundle leaves     *)
(* nothing running, and its verdict is the one of its test (see            *)
(* BundleRuns).                                                            *)
RunsAreHonest ==
  /\ part = "calls" => Calls!InvocationsAreTransactions
  /\ part = "bundles" => Bundles!NothingLeftRunning /\ Bundles!VerdictIsEarned
=============================================================================
