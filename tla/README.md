# A verification model of the Automation Harness

The Automation Harness (`automation_harness/`, with its Java side in `java-agent/` and
`javafx_agent/`) authors, records and runs GUI tests for desktop applications. This directory
holds TLA+ modules translated from its source, the TLC configurations that check them on small
instances, and proofs of the properties that matter most, checked by TLAPS.

`PROJECT.json` relates every definition to the source lines it stands for, every property to the
run that checks it and to a mutated definition that breaks it, and lists the hazards of the code.

    tlc -workers 2 -config MCPlanExecution.cfg MCPlanExecution.tla      # any run
    tlapm PlanExecutionProofs.tla                                       # the proofs

## 1. Inventory

What the system consists of, the state each part keeps, how it is driven and what makes it hard.
"Correct" names what a specification of the part has to say.

| part | state | operations and interactions | hard behaviour | correct means |
|---|---|---|---|---|
| **Plan model and managed queue** (`core/test_plan.py`, `models/plan.py`) | statuses, attempts, committed variables | `validate_plan`, `ready/start/complete/fail/recompute`; driven by the runner | readiness is derived from three pieces of state that change at different moments | the queue never offers a step whose inputs are not there; a valid plan can run |
| **Plan runner** (`runner/plan_execution.py`) | loop position, result, artifacts, backend | `execute_plan`: qualify, start, health, steps, verdict, stop, finalize | any call may raise; interrupts; death between two files; nested exception handlers | truthful verdict, steps in order, artifacts consistent, target stopped |
| **Variable store** (`core/variables.py`) | values, history | atomic commit of outputs, `update`, `append`, path resolution | commit before completion is known | only passed steps are committed |
| **Step registry, completion** (`core/step_registry.py`, `core/completion.py`, `core/script_steps.py`) | registered functions, context variables of a running step | wraps a step: run, bind outputs, await completion; steps run other steps, also as plain functions | failure after binding; what a nested call inherits | as above; an invocation is a transaction of its own |
| **Reports** (`reporting/`, `utils/evidence.py`) | `events.jsonl`, `run.json` | merged by a reader at any time | torn between files | never shows what did not happen |
| **Recording session** (`recording/session.py`) | pending interaction, menu and popup contexts, recorded list | `observe` from adapter threads under a lock; `start`, `stop` | two sources for one gesture, late and reordered reports, time windows, failing stops | each gesture once, right object, right value, nothing heard lost |
| **AT-SPI adapter** (`recording/adapters/atspi.py`) | worker queue, last target, callback gate, listeners, lease | GTK callbacks, X11 monitor thread, worker thread, stop with drains | callbacks in flight during stop; timeouts; retry | no native release under a live callback; every accepted event is published |
| **AT-SPI registry** (`drivers/atspi_registry.py`) | reference count, registry thread | `acquire`, `release`, `shutdown` | acquire during shutdown | thread runs while a lease is held |
| **JavaFX adapter, Java agents** (`recording/adapters/javafx.py`, `java-agent/`, `javafx_agent/`) | bounded buffer, long poll, reader thread | `record_start/read/stop` over a socket | overflow, stop against a blocked read | no observation lost silently or delivered after stop |
| **Swing recording and actions** (`java-agent/src/java8`, `drivers/java_agent.py`) | event queue, thread pool, recorder | resolve, act, read back; record releases | modal dialogs hold the request; the component moved before it is looked up | a reported action happened, once, in one JVM; a release names what was clicked |
| **Recorded menus** (`core/logical_menu.py`, `core/menu_navigation.py`, `authoring/recording_review.py`) | inventory of a menu definition | match, stage, merge, translate a path, walk the live menu | the application relabels items between record and replay | what is replayed is what was selected |
| **Recording window** (`authoring/gui/plan_recording_window.py`) | global owner, generation, stop worker, completion pipe | start, stop, destroy, main-thread runner | answers of an older generation; timeouts racing late execution | one recording at a time, the window always becomes usable again |
| **Window orchestration** (`core/window_orchestration/`) | last activation, inventory, bounded history | `ensure_foreground`, `await_window` | reuse of stale activation, ambiguity | never acts on the wrong window |
| **Waiting, retry** (`utils/wait.py`, `core/resolution_retry.py`) | deadline, last value | polling loops | boundary at the deadline, stability windows | a success is a real success; bounded time |
| **Component repository** (`core/component_repository.py`, `core/repository_*.py`) | object tree, file fingerprint | ownership edits, merge, optimistic save | check-then-replace against other writers | tree stays a tree, no silent overwrite |
| **Next-click capture** (`core/hybrid_object_capture.py`, `drivers/javafx_bridge.py`) | several bridges armed at once | first answer wins, others cancelled | deadline against a late click; the screen changes before an event is looked at | one winner, all disarmed; what is captured was clicked and lay on top |
| **Project runs** (`authoring/project_runs.py`, `authoring/preferences_runtime.py`, the plan and project windows) | batch file, minimized windows | plans run in sequence; the desktop is cleared before and restored after | interrupt between plans; overlapping runs | batch file truthful; desktop clear while running, restored after |
| **Reusable steps** (`core/reusable_step_*.py`, `authoring/reusable_extraction.py`) | registries, snapshots in a plan | extract, publish, invoke, expand | capture of names, nested definitions, another version | expansion means what a call means |
| **Identity form** (`authoring/object_identity_workbench.py`, `authoring/capture_property_policy.py`, ...) | form rows, evidence, pending recapture | show, edit, recapture, delete, save | values of several captures side by side; partial failure of a save | an unedited locator stays as authored |
| **Bundle runner** (`runner/validator.py`, `runner/execution.py`, `backends/`) | display, target process, registered steps, artifacts | static check, start, test process, stop, publish | a failing start or stop, signals, names that libraries register twice | nothing left running; verdict and check agree with the run |
| **Codex runtime** (`codex_runtime.py`) | manifest, stop request, heartbeat, child | supervise, launch, reconcile, stop | process death, two launchers | one active session; stale ones reconciled |
| **Hotkeys, preferences** (`authoring/global_hotkeys.py`) | X11 grabs | register, roll back | partial grab failure | all or none |
| **Matching and hierarchy** (`core/locator_matching.py`, `core/semantic_hierarchy.py`, ...) | none | pure functions | | agree with a reference definition |
| **Reference application** (`reference/`) | tracks, zones | request handlers | | small state machine |
| **Drivers, backends** (`drivers/`, `backends/`) | native handles | resolution, actions, hit tests; X11, vision, processes | the application goes on between two looks at it | a call that reports success acted, on the object it means |
| **Authoring GUI, CLI, pytest plug-in, shims** | widgets, arguments | dispatch to the parts above | | not modelled |

How they interact: the GUI and the CLI call the runner with a plan and a backend; the runner drives
the queue and the registry and writes the artifacts that reports read at any time. While recording,
the recording window owns one `RecordingSession`, which owns its adapters; each adapter delivers
observations from its own thread to `RecordingSession.observe`; what `stop` returns is converted
into plan steps.

## 2. Plan

1. `PlanModel`, `PlanExecution`, `SequentialRun`, proofs - done (section 3).
2. `RecordingSession`, proofs - done (section 4).
3. `AtspiRegistry` with proofs (section 5); `AtspiAdapter` as an implementation of
   `ObservationChannel`, which is what `RecordingSession` assumes of `feed` (section 6) - done.
4. `RecordingWindow`, `CodexRuntime`, checked beside the registry in `MCServices` - done
   (section 7).
5. `JavaFxRecording` (section 6), `NextClick`, `MenuClick`, `CaptureRouting`, `ActionExecution`, `Locators`
   (section 8), `ArtifactEditing` (section 9) - done.
6. The drivers and their agents: `SwingRecording` (section 6), `SwingActions`, `JavaFxActions`,
   `AtspiActions`, `AtspiClick`, `HitTesting`, with `Waiting` and `RecordedMenus`, all in
   `MCComponents` (section 8) - done.
7. What an author edits and starts: `ReusableSteps` and `DesktopRuns` in `MCServices` (section 7),
   `IdentityForm`, `StepCalls` and `BundleRuns` in `MCAuthoring` (section 9) - done.

Proved so far: every safety property of the plan runner, the recorder, the three recording adapters,
the registry, the recording windows, the Codex runtime and the runs of the desktop; every property of
`MCComponents`, one of them without its recursive part; every safety property of `MCAuthoring`. Code
worth modelling next: the reference application, completion modes, the merge of repositories.

## 3. Running a plan: `PlanModel`, `PlanExecution`, `SequentialRun`

`PlanModel` holds the plan and the pure functions: a step is its authored position; a variable path
is a member of `Paths` whose first segment is `RootOf[path]`; a variable value is abstracted to
which paths resolve in it and which step wrote it. `Validated` is `validate_plan` (its depth-first
cycle search replaced by the definition of a cycle), `Recomputed` is `recompute`, `Offered` is
`ready`.

`PlanExecution` is one call of `execute_plan`. `pc` names the statement about to run; each action
is one stretch of code between two points at which the process may die or another statement may
raise. `queueVars` is the `ExecutionState`, `globals` the `VariableStore`, `diskVars` what
`events.jsonl`, `execution_state.json` and `run.json` contain, `backend` the target process.
`Abort` is the outer `except Exception`, `FailStep` the handler of a failing step, `Interrupt` a
`BaseException` that only the `finally` clause sees, `Crash` the death of the process.

`SequentialRun` is the promise to the author: one step at a time, in authored order, none after a
step that did not pass, one final and truthful verdict. `PlanExecution` implements it with
`dispatched <- Attempted, done <- PassedSteps, verdict <- runJson` (`KeepsPromise`).

Run `plan_execution` takes every plan of three steps over one variable and a path nested in it,
with at most one `depends_on` entry (an unknown step or a self dependency included), one reference
and two bound outputs. Three steps give a producer, a consumer and a bystander in every order; one
nested path gives "the variable is there but the path is not". It checks:
`ReadinessDerived`, `DataFlowSound` (`InputsFromAuthoredOrder` and `CommittedByPassedSteps`),
`VerdictTruthful`, `ArtifactsTruthful` (`ReportLagsByOneStep`, `PublishedReportExact` and
`BackendReleasedBeforeVerdict`), `ForwardPlansDoNotStall`, `KeepsPromise` and, under fairness,
`BackendReclaimed`. The fairness is
weak fairness of `Progress`: `execute_plan` is one thread that is never blocked by another, every
wait in it has a timeout, and library calls are assumed to return. Interrupts and crashes are not
fair.

Run `plan_stall` shows a disagreement with the documentation: `ready` offers only the first
unfinished step, so a plan that validates but authors a producer after its consumer ends as
"execution graph stalled", where `README.md:593` says that order does not matter.

Abstractions: duplicate node ids and the validation of step inputs and types are folded into
`Reject` (which may reject any plan); a step that writes `ctx.globals` by itself, nested composite
steps and the window-context effect are not modelled, the failure of the latter is part of
`AwaitCompletion`; `ResolveFails` lets reading a variable fail even if it is there.

### Proofs (`PlanExecutionProofs`)

For every `N`, `Vars`, `Paths`, `RootOf` and `Plans` that satisfy `NAssumption`, `PathsAssumption`
and `PlansAssumption`:

- `TypeCorrect`: `Spec => []TypeOK`.
- `QueueIsDerivedView`: `Spec => []ReadinessDerived`. The inductive invariant adds that the queue's
  copy of the variables equals the store except between binding and commit.
- `VerdictHonest`: `Spec => []VerdictTruthful`. `VerdictTruthful` alone is not inductive: which
  verdict is right depends on where the loop is. The invariant says, for each `pc`, that the
  passed steps are a prefix of the authored order, that `passed` counts them, that `cur` is the
  next one while it is being executed, and which `exit` codes are possible there.
- `PromiseKept`: `Spec => KeepsPromise`. The same invariant makes every step of `PlanExecution`
  a step or a stutter of `SequentialRun`.

- `DataFlow`: `Spec => []DataFlowSound`. What the store holds has to be related to every step that
  has bound so far: `FlowInv` says that a value was written by the last step in authored order that
  binds its variable, among those that passed or have just bound, or is initial if there is none
  (`LatestWrite`). Since steps pass in order (`SeqInv`), that step comes before the one reading.
- `NoForwardStall`: `Spec => []ForwardPlansDoNotStall`. `ProvidedInv` says that the outputs of a
  passed step are there; in a plan whose references all go backwards (`ForwardPlan`) the next step is
  then ready whenever the loop asks (`ForwardPlansFinish`), so no run ends as stalled (`StallInv`).
- `Artifacts`: `Spec => []ArtifactsTruthful`. `FileInv` says for each `pc` what the last file
  written shows: exactly the queue after a write, all but the step at hand between two
  (`FileTrails`), nothing before the first. `BackendInv` says in which phases the target may run.

Only model-checked: `BackendReclaimed`, which is a liveness property under fairness and out of the
prover's reach.

## 4. Recording: `RecordingSession`

The module is the correlator of `recording/session.py` together with a user and the adapters. The
user makes gestures on the objects of one window; `Reported` says what each adapter observes of a
gesture, in the order in which the adapter's code emits it, and appends it to that adapter's `feed`.
`Observe(a)` is one call of `RecordingSession.observe`, which holds the session's lock throughout:
it takes the head of a feed and does what the handler of its type does. The feeds advance
independently of each other, so an adapter may be arbitrarily late.

- `interactions`, `pending` are `_interactions`, `_pending`; an interaction also carries the set
  `of` of gestures whose observations it accounts for (the code keeps them as evidence).
- `menu`, `popup`, `owners` are the two context objects and `_captured_menu_owners`.
- `ObservePointer` is a disjunction of the outcomes of the pointer branch; the guards
  `PassesPopup` and `PassesMenu` say how far an observation gets past its early returns.
- `phase`, `attached`, `faulty` are the life cycle: adapters start in order, stop in reverse, a
  stop that does not raise has drained the adapter's feed, `FinishStop` is the `finally` clause of
  `stop`. A failed start stops the adapters and flushes nothing.
- Time is the gesture's, in ticks; `DualWindow`, `CorrWindow`, `DupWindow` stand for 0.2 s, 0.75 s
  and 3.0 s. Only their order and which gaps fall on which side of them matter, so 1, 2 and 3
  ticks with gaps 1 to 4 cover every case.

One run, `recording`, takes three settings of the module (`MCRecordingSettings`) and chooses one at
the start of a behaviour:

| setting | adapters, user | checked |
|---|---|---|
| `native` | native agent only, 4 gestures on button, check box, popup selector, menu | `NativeFaithful`: each gesture that is not `Shadowed` becomes exactly one interaction with its action and value (`Faithful`), in order (`InOrder`), a choice with its menu (`ChoicesKnowTheirMenu`) |
| `both` | both, arbitrarily late, stops may fail, 3 gestures on button, text field, menu | `HeardIsKept`: `LastTextWins` and `HeardIsRecorded` |
| `calm` | both, the user waits for the reports, 3 gestures | `RecordedOnce`: the reports of both adapters become one interaction with the native identity (`ClicksRecordedOnce`, `SelectionsRecordedOnce`) |
| each | | `OneObjectPerStep`, `RecordedIsFinal` |

Two more runs show disagreements with what the repository says: `recording_check` (a check box
is recorded as a toggle and as a select) and `recording_absorb` (a click on a button just before a
menu is opened is lost as its "opener").

`Shadowed` lists what the code leaves out by design: a click within the correlation window after a
menu or popup was opened, a click that an opened menu absorbs, the same item selected again within
`DupWindow`, a keyboard selection in a popup whose opening was lost. The properties say that
nothing else is. Four gestures are enough for open, dismiss, open again, select, and for a
selection repeated on both sides of `DupWindow`.

A last observation of the runs, stated in the comment of `HeardIsRecorded`: when one adapter is
late, its report that a menu was opened may absorb the choice made in that menu which the other
adapter already delivered.

Abstractions: an object reported by two adapters is recognised as the same one
(`_same_logical_target` compares attributes; that both captures match is the favourable case); an
AT-SPI hit test never fails and the user holds a press until it is resolved; nested menus occur only
as traversal that is suppressed; parameters other than a text, item or tab, confidence, resulting
changes and diagnostics are left out; so are the repository match and the conversion to steps.
`KeyboardInput`, `WindowChanged`, `FocusChanged` and visibility changes are handled by the
correlator, but no adapter emits one the correlator acts upon, so a popup or menu context never ends
through them. A session object is used once, as the authoring GUI does.

### Proofs (`RecordingSessionProofs`)

For every set of objects and values, every `MaxGestures`, all sizes of the windows and every
sequence of adapters that satisfy `ObjectsAssumption`, `AdaptersAssumption` and
`WindowsAssumption`:

- `RecordingTypeCorrect`: `Spec => []TypeOK`.
- `ObjectsNotMixed`: `Spec => []OneObjectPerStep`.
- `ResultIsFinal`: `Spec => RecordedIsFinal`.

The inductive invariant is `TypeOK /\ OneObjectPerStep /\ FeedTraced`. The last part is needed
because an interaction takes the object of an observation but the number of the gesture that caused
it: `FeedTraced` says that every observation still on its way names a gesture on its own object.
Each branch of the correlator changes `interactions` and `pending` in one of three ways (replace
the pending interaction, flush it and start another, nothing); `ReplaceKeeps` and `FlushKeeps` are
those, the lemmas above them go from `Begin`, `MergeAction` and `AddDelta` up to `Observe`.

- `LastTextRecorded`: `Spec => []LastTextWins`.
- `HeardRecorded`: `Spec => []HeardIsRecorded`, for settings in which tab headers are heard
  (`TabsAreHeard`): the module has the AT-SPI adapter leave the pointer on a native tab header to
  the native one on purpose, so that with both frameworks on a tab bar a click is not every
  adapter's to report.

Both need to know what the correlator does with a report besides keeping objects apart. `Effect`
is that, for every branch at once: the report replaces the pending interaction and is accounted for
in it, starts one, or is absorbed by a menu or popup that somebody opened; nothing that was
accounted for is lost (`EffectKeeps`). On top of it, `CInv` collects what is true of every
behaviour: gestures are well formed (`UserInv`), without opening gestures there is no menu or popup
context (`ContextInv`), a report on its way carries what its gesture made (`FeedInv`), a recorded text
belongs to typing on its object (`TextsApart`), and the life cycle (`LifeInv`). While no stop has
failed, `FollowInv` and `TextInv` say that the latest text of a field is either still on its way,
behind every older one, or what the last interaction on that field holds; `HeardInv` says that
each gesture that an adapter surely reports is on its way or accounted for.

- `NativelyRecorded`: `Spec => [](Faithful /\ InOrder /\ ChoicesKnowTheirMenu)`, when the native agent
  is the only adapter (`Alone`) and the window has buttons, check boxes, popup selectors, menu items
  and at most one menu (`NativeWindow`; with two menus, `ChoicesKnowTheirMenu` would need to say
  which one an item belongs to, which the model's objects do not).

The argument: the native agent reports gesture by gesture, each as pointer, state, action
(`FeedOrder`), so at any time the gestures are those nothing was heard of, at most one that is
half reported, and those reported in full. `KeptInv` says what became of them: the first are in no
interaction (`Unseen`), the half reported one is in the pending interaction, and a gesture reported in
full that is not shadowed is either in exactly one recorded interaction that is right for it
(`Filed`) or in the pending one (`Holding`). By itself that is not inductive. What a report does depends
on the menu and popup contexts; whether it may be dropped depends on gestures that are long past.
The invariant therefore ties the two together: an open context was opened by a gesture that was heard
(`PopupInv`, `MenuInv`), the opener heard last left its context open unless it was swallowed or
cancelled another (`OpenInv`), a committed popup remembers the selection that a repetition would
repeat, what a menu absorbed is shadowed by its opening, and the pending interaction ends with a
gesture before any that follows (`PendingInv`), which is why a click on a check box is never pending
while the next gesture is heard. `ClickSteps` to `ActionSteps` say, for each gesture and report, which
branch of the correlator runs; `Outcome` and `ContextOutcome` sum up what the branches do to the
transcript and to the contexts; one lemma per part of the invariant follows from those.
`QuietKeepsNative` and `FinishStopKeepsNative` are the life cycle: a stop records the pending interaction.

- `PatientlyRecorded`: `Spec => [](ClicksRecordedOnce /\ SelectionsRecordedOnce)`, when the AT-SPI and
  the native adapter are started, in this order, and the user waits until a gesture was reported
  before making the next (`PatientUser`). Objects, number of gestures and windows are arbitrary, and
  the two adapters still report one gesture in any order.

The argument: only the latest gesture can be on its way (`CalmFeed`), so it is enough to follow one
gesture from its first report to its last. `OnceInv` says where a gesture is that both report
(`Counted`): nowhere while the native release is still to come (`Unplaced`), in the pending
interaction with the action, the value and the time at which the other adapter's report will be
correlated (`Placed`), and, when its reports are delivered, in one interaction with the native
identity or lost to a menu (`Final`); it is in two places never (`Apart`). The AT-SPI report may come
first and be swallowed without the gesture being `Swallowed`, which is why `Unplaced` waits for the native
release and not for any report. Three more parts make that inductive. `SourcesInv`: what is
accounted for was made, and the pending interaction was last extended at the time of the latest gesture
in it, so a menu that absorbs it absorbs gestures that are `Absorbed`. `OpenedInv`: an open menu or
popup context stems from an opening gesture, so a native click one of them swallows is `Swallowed`.
`CommittedInv`: a committed selection stems from a pick, so one dropped as its repetition is `Repeated`.
`Move` and `ContextMove` sum up what a report does to the gestures accounted for and to the contexts;
`OthersStayOnce` is the gestures before the latest, `ObserveClick` and `ObservePick` the latest.
After a stop that raised, nothing is claimed (`Complete`), and the invariant claims it only of a session
that is active or had no such stop.

`RecordingSettingsProofs` carries this over to the run: `TwoAdaptersKept` is
`SettingsSpec => []HeardIsKept`, `NativeRecordedExactly` is `SettingsSpec => []NativeFaithful` and
`BothReportsRecordedOnce` is `SettingsSpec => []RecordedOnce`; the settings `both`, `native` and `calm` are
instances of `RecordingSession` and therefore of its proofs (`Twice`, `Native`, `Patient`). They assume
`SettingsAssumption`, that the objects and values of the settings are among `Objects` and `Values`.

## 5. The native registry: `AtspiRegistry`

The module is the `_AtspiRegistryLoop` of `drivers/atspi_registry.py`: a reference count, one
registry thread inside pyatspi's native loop, and any number of clients. `users` is `_users`,
`thread` is `_thread`, `Acquire` is the locked part of `acquire`, after which the client waits for
the started event without the lock (`Granted`, `AcquireTimesOut`); `Close` and `Release` are the two
locks of `AtspiRegistryLease.close`. `Shutdown` is the locked part of `shutdown`, `Joined` and
`JoinTimesOut` the join after it. pyatspi is external: `RegistryStop` makes a running loop return
(`LeaveLoop`), and is lost on a loop that is not running yet.

Run `services` (here three clients, three registry threads, a shutdown in progress at any moment)
checks `OneDispatcher`, `UsersCounted` and `StopsOnlyIdleLoop`. Three clients give one that holds a
lease, one that waits and one that gives up; three threads give the restart after a shutdown and
the one after that. The run allows deadlock because the bound on threads is used up in
the end. `start()` is assumed not to raise.

A lease does not promise that the loop runs: the started event is set before `registry.start()` is
called, and an acquisition during the join of a shutdown gets a lease on a loop that is ending.
Shutdowns happen only when the application window is destroyed.

### Proofs (`ServicesProofs`, first part)

For every set of clients and every number of threads: `RegistryTypeCorrect`, `LoopIsExclusive`
(`OneDispatcher`), `CountIsExact` (`UsersCounted`) and `LeasesProtectLoop` (`StopsOnlyIdleLoop`,
an action property). The invariant says which threads can still be inside the loop (only `thread`),
and that the count is the number of clients that owe a release, a cardinality that each action
changes by at most one element.

## 6. The recorders: `AtspiAdapter` and `ObservationChannel`, `JavaFxRecording`, `SwingRecording`

`MCAdapters` puts the three side by side: a behaviour belongs to one of them, which is its `part`.

`AtspiAdapter` is one `AtspiRecordingAdapter` of `recording/adapters/atspi.py`. Four kinds of threads
meet in it: the one that starts and stops it (`pc`), the X11 monitor and the registry thread, which
run its callbacks (`call`), its worker (`worker`, `accepted`, `done`) and the GTK main thread, which
removes its listeners (`main`, `todo`). Every wait of `stop` that has a timeout may time out while
what it waits for has not happened: the removal on the main thread, the drain of the callbacks, the
join of the worker. A removal that timed out before it was entered is cancelled; one that was
entered goes on (`main = "orphan"`).

- `gate` is `_callbacks_accepting`; `Enter` is `_begin_callback`, `Accept` the worker's `_accept`
  together with `_end_callback`. In between, a press or a text resolves its target, or none.
- `Remember` and `Subject` are `_process`: which object an observation is about.
- `Start` ... `GiveUp` are the statements of `start` and its handler, `Stop` ... `ReleaseLease`
  those of `stop`.
- `attached` is what is registered with pyatspi, `listeners` what the adapter believes to be.

`ObservationChannel` is what the session relies on: accepted commands are dealt with one by one in
the order of their acceptance; a stop that returns has dealt with all of them; after one that raises
the rest may or may not be. `RecordingSession` assumes exactly this of a `feed`.

A start that fails closes the lease although a listener or a callback may be left, against the
comment in `start` (`atspi.py:371`); the model does it too, and `LeaseOutlivesListeners` exempts it.

| run | shows |
|---|---|
| `adapters` | `LeaseOutlivesListeners`, `RemovedOnce`, `StoppedIsQuiet`, `IsChannel`, and `CallsReturn` under fairness |
| `adapters`, and `authoring` in its part "adapter" | `PublishedAsAccepted`: what is published about which object, in which order |

Bounds: `adapters` needs one command of each thread and a first stop, a retry and a retry of
the retry; the order needs a press and two releases, or presses of two buttons on two targets,
hence the three commands of `authoring`, which has no stop. Fairness: weak fairness of the thread in `start` or `stop` alone, because
every wait in them has a timeout; nothing is assumed of callbacks, worker and main thread, any of
which may hang. The runs allow deadlock: a stopped adapter stays stopped.

What the order property does not promise: an action (a toggle, a selection) is published about the
last press that was resolved before it in the queue. That this is the object acted upon follows from
how the user is told to record, holding each press until the target is highlighted.

Abstractions: `start` is called once, since the GUI makes new adapters for each recording; the
hit test is one result out of `Targets` or none; the pair of observations of an action counts as
one publication; the two state-changed listeners are one, and so are the four of the pointer; a text
event without text is left out; the removal of listeners runs on another thread, which includes the
default runner that calls it directly.

### Proofs (`AtspiAdapterProofs`)

For all sets of targets and buttons and every `MaxCommands` and `MaxStops`, from
`TargetsAssumption` and `BoundsAssumption`:

- `AdapterTypeCorrect`: `Spec => []TypeOK`.
- `LeaseIsHeld`: `Spec => []LeaseOutlivesListeners`.
- `NoDoubleRemoval`: `Spec => []RemovedOnce`.
- `QuietWhenStopped`: `Spec => []StoppedIsQuiet`.
- `AdapterIsChannel`: `Spec => IsChannel`.
- `PublishesWhatItAccepts`: `Spec => []PublishedAsAccepted`.

One inductive invariant serves the first five. `Admission` says in which phases the gate, the worker
and the monitor may be open and how many stops have begun; `Listed` that the adapter's list of
listeners is what is registered, and that a removal on the main thread, also one that its caller
gave up on, has exactly the listed ones left to do; `Evidence` what each phase of `stop` has
established unless it recorded a failure; `WorkerDone` that a worker which is not running left
nothing undone. The lease is closed with no failure recorded, so `Evidence` gives
`LeaseOutlivesListeners`; a closed adapter has an ended worker, so `WorkerDone` gives the `Close`
step of the channel. `ClosedGateDrains` is why evidence once found stays true: with the gate closed,
callbacks only end.

`PublishedAsAccepted` is about what the worker remembers between two events: the held button's
target and the last one resolved. `MemoryInv` says that this memory is what the events processed so
far leave of it: `HeldAt(n, b)` is the press of `b` not ended by event `n`, `LatestAt(n)` the last
press resolved by then, and both are defined by the list of accepted events alone. Since that list
only grows at its end, what they say of the past does not change (`PastKept`), and a published event
agrees with its definition for good.

Only model-checked: `CallsReturn`, which is a liveness property.

### `JavaFxRecording`

`recording/adapters/javafx.py` with the in-process agents it reads from. `buffer` is the bounded
buffer (it forgets its oldest observation; the dedicated tab agent fails instead), `reader`,
`batch`, `rest` and `straggler` are the reader thread, what it has in hand, what the stop drains and
a `record_stop` that the client gave up but the agent has still to execute. `PublishedAsHeard` is `HeardIsPublished` (without faults a stop that
returns has published what was heard, except what fell out of a full buffer) and `PublishedInOrder`;
`StopIsFinal` says a stopped adapter is silent. Two observations more than the limit of the buffer
are not needed: one more makes it overflow.

### `SwingRecording`

`SwingRecorder` and the record operations of its `AgentServer`. A release is looked up in a job that
runs after the application has handled the click. `ReleasesRecorded` is `ReleaseNamesClicked` (a
recorded release names the component that was clicked, unless what is under the pointer changed
since) and `ReleasesInOrder` (each at most once, in the order of the clicks, after its press). A
release whose job runs after the stop is lost.

### Proofs (`AdaptersProofs`)

For every `Limit`, `MaxEvents`, `MaxRecordings`, `Spots` and `MaxClicks`, assuming only that the
counts are numbers and that a buffer holds at least one observation (`LimitsAssumption`); `LIMIT` is
a positive constant in the agents:

- `SwingReleases`: `AdaptersSpec => []ReleasesRecorded`. An observation travels from the event queue
  through the hand of the event thread into the buffer and to the harness. `SwingInv` says
  that what is further along was clicked earlier (`PipeInOrder`, `QueueInOrder`, `QueueBehind`,
  `HeldIsLast`) and that what has not been looked up yet is still under the pointer or has moved
  (`NamesClicked`).
- `PublishesWhatItHeard`: `AdaptersSpec => []PublishedAsHeard`. `FxInv` has four parts. `PhaseInv`:
  at most one adapter is between its start and its stop, and what its reader may be doing there.
  `PlaceInv`: every observation is in one place at most (published, drained, in a reader's hand,
  buffered), so none is published twice, whatever fails. If no reader outlives its join, `OrderInv`
  and `HeardInv`: what is published precedes what is in hand, which precedes what is buffered, and
  all of it was heard for the adapter that has it. If nothing fails at all, `LossInv`: each
  observation heard in a recording is in one of these places or was followed by a bufferful. A full
  buffer that drops its first observation holds `Limit - 1` later ones and takes another
  (`FullFollows`, an injection from `1 .. Limit`), all of the same recording because of `HeardInv`.
- `StopsFinally`: `AdaptersSpec => StopIsFinal`, for every combination of faults, from `PhaseInv`
  alone: a reader that publishes needs `_emit`, which the stop has reset.

`FxInv` was checked by TLC on the instance of run `adapters` and on one with four observations and
three recordings before it was proved.

## 7. Parts that outlive one recording or one run

`Services` puts `AtspiRegistry`, `RecordingWindow`, `CodexRuntime` and `DesktopRuns` side by side: a
behaviour of `ServicesSpec` belongs to one of them. They share no state in the code. `MCServices`
adds `ReusableSteps`, whose recursive operators the proofs must not reach, and fairness. Run
`services` checks them all.

### Recording windows (`RecordingWindow`)

The module is `authoring/gui/plan_recording_window.py` with the hotkey dispatch of
`authoring/gui/launcher.py`. Several Test Plan windows share one recorder (`owner` is
`_ACTIVE_RECORDING_WINDOW`). `win[w]` are the attributes of a window: its session, the pending stop,
the generation, the generation of its completion watch and of its stop control, the windows it hid.
The main loop is `idle`, the queue of idle callbacks; a modal dialog suspends the rest of its
callback in `dialogs` and runs the main loop inside; `workers` are the threads that stop sessions.

Checked: `OneRecording` (a window that records or is stopping holds the recorder);
`StopLeavesNothing`, the conjunction of `CompletionIsCurrent` (the early return for a stale
completion never leaves a window waiting), `NothingStaysHidden` and `HighlightsAreCleared`; and the
window half of `StopsComplete`. Fairness: of the completion watch, because the main loop dispatches
sources that are ready, and of the stop workers, whose waits have timeouts (see `CallsReturn` of the
adapter).

Known and not a run: `_recording_finished` reads the generation whose control it destroys after the
dialog, in which a hotkey may have started another recording (`plan_recording_window.py:963`,
against the comment at `:960`); a window closed under its own recording leaves the windows it hid
hidden; this is why `NothingStaysHidden` exempts them. Two windows, two generations, one hotkey in
the queue and one nested dialog give every overlap of two recordings.

### Codex runtime (`CodexRuntime`)

The module is `codex_runtime.py`: supervisors, their applications and commands that share only the
files `activeFile`, `manifest`, `stopFile`. A command is one or two reads and what it decides;
another process may run between them. `hazards` says what a behaviour may contain. "crash":
supervisors that are killed. "hasty": without it a command starts only when no other is under way and
no supervisor is starting or finishing (`Settled`), and no application ends while a command looks at
files and processes (`Undisturbed`).

Checked (`StatusIsTrue`): `FinalIsOver`, a manifest never calls a session over whose application
runs, whatever the hazards; `OneApplication`, without hasty behaviour two applications are never
supervised at a time, supervisors killed or not; and the runtime half of `StopsComplete` under weak
fairness of each supervisor, a loop of timed waits.

Known and not a run, against `docs/codex-runtime.md:57` ("Only one active orchestrated authoring
session is permitted"): there is no lock between the check of `active.json` and the launch
(`codex_runtime.py:394`), so two hasty launches may both find no session and both start one. One
command at a time is not enough either, as the attempt to prove it showed: when an application ends
while a launch decides, the launch starts a second session, the first supervisor then writes its last
manifest over `active.json` (`codex_runtime.py:378`), and the next launch starts a third session
beside the second. It takes three sessions; the run has two, the theorem below is for any number.

### `DesktopRuns`

Batches of a project window and runs of a plan window, which minimize the windows of the harness
first. `StatusIsTrue` (part "runs") is `BatchTruthful` (what the file of a batch says of its plans is
what came of them, and it says "passed" or "over" only when that is so, unless its window reported
an error) and `StopLeavesNothing` is `DesktopIsClear` (no harness window covers a plan that is executed unless the user or
the end of another run brought it back; when no run is active every window is back).

Of two overlapping runs the first to finish restores the windows over the other's run
(`preferences_runtime.py:4`). A run also brings back windows that were minimized before it, a batch
whose save failed in the middle can read "passed" with fewer plans, and a crash leaves "running".

### `ReusableSteps`

Extraction of steps into a definition, its publication, invocations in plans and in other
definitions, and their expansion before a run. `ReusableIsFaithful`: the expansion, a textual
substitution, means what a procedure call means (inputs taken when it begins, locals of its own,
outputs handed back at its end); replacing steps by an invocation of the definition made of them
changes neither who wrote what they read nor what they wait for; a plan saved with its snapshots
runs without its project. Two ids, three calls and two variables give nested definitions, a later
version of one and names that clash.

`Apart` and `Straight` name what the property excludes, because the code differs there: an output
bound to a variable that is also an input is call-by-name; a step that reads a variable before a
selected step writes it does not make it an input (against the docstring of
`extract_reusable_step`); a literal default is used although the plan overwrote the variable. Not
modelled: `_next_node_id` reuses the id of a removed step, so that a dangling `depends_on` binds to
a new one; completion and scope of an invocation are dropped; variables of the definition outside
its contract are not carried; project registries override snapshots as a whole.

### Proofs (`ServicesProofs`, second part)

The module `EXTENDS Services`. Each theorem is about `ServicesSpec`, for all values of the constants
under `RecorderAssumption` (`NoWindow` is no window), `RuntimeAssumption` and `RunsAssumption` (the
bounds are numbers; a project window is not a plan window).

- `OneWindowRecords`: `ServicesSpec => []OneRecording`. `WindowInv` says that the owner of the
  recorder is busy with a recording or its stop (`OwnerIsBusy`) and what the phases of a window
  exclude (`Phases`), so that a window takes the recorder only when nobody else records.
- `NothingIsLeft`: `ServicesSpec => []StopLeavesNothing`. A hidden window is known to the recording
  that hid it (`HiddenForRecording`), and a highlight is of a running recording or has a callback in
  the queue of the main loop that clears it (`Highlights`), which every handler that takes a callback
  out of the queue, out of order included, must keep. For runs, `WindowsAway`: a window that runs
  remembers every open window, and all are minimized unless it is excused.
- `FilesTellTheTruth`: `ServicesSpec => []StatusIsTrue`. `FilesInv` ties where a supervisor is to its
  application and its manifest, and what a command has read to applications that have started; it
  holds under every hazard. `AloneInv`, without hasty behaviour: at most one session is not over,
  `active.json` names it, one command is at work, and what it has read still holds when it decides.
  For batches, `FilesTrue` compares the run record of a project window, the file of the batch, what
  the plans came to and how many were asked for, also of runs their window has forgotten.

Only model-checked: `ReusableIsFaithful`, which says what a recursive expansion computes of every
plan and definition: its operators are declared RECURSIVE, which the SMT backend does not take; and
`StopsComplete`, which is liveness.

## 8. Components around the tested applications

`MCComponents` puts parts side by side that meet only through the desktop and the file system. Each
is checked, in the run `components`, against everything its neighbours may do; nothing is assumed of
how they meet. Where a part has a set `faults`, it is chosen at the start of a behaviour: the
properties say what holds with and without each fault.

### `NextClick`

`capture_next_click` of the bridge driver and `captureNextClick` of the agent: one request per JVM,
the first answer wins, the others stay armed until a click or their timeout. `ClaimIsHeld` with
`CapturedWhileWaiting`: a JVM is claimed only by an armed request, unless its JavaFX thread failed
to answer once (fault "busy": then the claim stays for ever), and no capture returns a click made
for another. Two JVMs and two captures are what an older request and a newer capture need.

### `MenuClick`

`select_menu_path` and the menu operations of the agent: observe, click, confirm, and the scheduled
`fire()` when the click's action was not seen. `SelectedOnce`: a selection that succeeds made its
item act, and only once while the JavaFX thread answers in time. `NothingPending` was checked while
developing and is not part of a run.

### `CaptureRouting`

`HybridObjectCaptureService` and `RoutedCaptureService`: the owner of the press, the list of bridges
and the hit test are three reads. `OwnerIsCaptured`: what is captured belongs to the process that
owned the press, never to the harness, and a JavaFX target has no substitute. `RoutedToOwner` is
about the pure decision for every target and every set of backends. The refusal of a target whose
`window_id` does not match (`core/routed_capture.py:115`) is left out: it only turns a capture into
an error.

### `ActionExecution`

`ComponentHandle.execute` with `WindowOrchestrator.ensure_foreground` and the X11 handshake.
`ForegroundProven`: nothing is dispatched before its window was active during its own preparation
(unless X11 reuses a window id). `ActsOnce`: a click or a close takes effect at most once; the other
actions do unless a backend acts and reports failure (fault "lost"), when the next strategy repeats
it.

### `Locators`

How a persisted locator finds its object across JVMs and in the AT-SPI tree. `pinged` are the JVMs
that answer the ping of `discover_javafx_endpoints` within 0.5 s; the others are left out without an
error (`drivers/javafx_bridge.py:836`). `silent` are those of `pinged` that fail afterwards, which is
an error. `FoundIsMeant`: what is found has the id and is in the window of the locator, and without
an ordinal it is the only object of the pinged JVMs that has all the locator asks for; a failure
after the ping never makes an object unique. `ActsOnFound`: the action reaches what was found. Three
nodes on two JVMs give an ambiguity within and across JVMs; `pinged` is both or the first, since the
second alone would be the first by another name, and with none nothing is found.

`unpinged_jvm` shows what does not hold: the object found need not be the only one of all JVMs
(`UniqueInEveryJvm`), since one that missed the ping may show another, against the comments at
`drivers/javafx_bridge.py:783` and `:455`. Seen while modelling: a locator with a regular expression
escapes the window it is scoped to when one node has its mandatory part
(`core/locator_matching.py:252`, against `core/component_handle.py:315`); an ordinal is counted over
the JVMs that answered, so a missed ping shifts it.

### `SwingActions`

`drivers/java_agent.py` with the mixed agent of `java-agent/src/java8`: the driver asks one JVM
after the other; a pool thread finds the component on the event dispatch thread and acts in a second
job there, while windows change. `CallsAreTrue` (part "swing"): a call that succeeds acted; an
action that was answered in time acted in exactly one JVM if it succeeded and in none if it failed.
Two JVMs and a pool of one thread are what a modal dialog that keeps its request needs.

What it leaves room for, because the code does so: a close or a set_value that was refused, or whose
re-read fails, is sent to the next JVM; locators that match in two JVMs are not recognised as
ambiguous; a handler that opens a modal dialog keeps its request and its pool thread, so that the
driver gives up after 5 s and tries the next JVM.

### `RecordedMenus`

A menu selection from the click over the review to the replay. `ReplaysRecorded`: the replay fires
the recorded item if the items on its route always were called the same, and also if they are called
what the repository learned last, which are the selectors the agent is sent: a later recording that
meets a known item gives it the selector of that day, for all the steps that select it. Two menus in the bar and a submenu with a leaf
give equal labels on different levels and in different menus.

The property needs names that are unique within one menu, since `find_logical_menu_targets` matches
a terminal label anywhere below the owner, and new items with different keys (`rivals`), since keys
are proposed before any is staged (two items with one key get steps that both select the first). When a
recorded item is gone the agent takes the one at its recorded place. Context menus are left out:
every definition of a context menu matches every context menu.

### `Waiting`

`wait_for` and the resolution retry on one clock of ticks. `WaitsAreHonest`: a wait that succeeds
judged no sample false within its stability window; one that times out did not miss a condition that
had held for the window and a sample; and a wait ends at most one interval and one resolution after
its deadline. `Timeouts`, `Stabilities` and `Resolutions` have values on both sides of each other.

What follows from it: with the default timeouts a wait for the absence of an object with a stability
window cannot succeed, because resolution takes as long as the whole wait; a wait may succeed after
its deadline; `ComponentHandle.wait_for` ends with the error of the resolution timeout even if its
own timeout is longer.

### `JavaFxActions`

A call of the bridge driver: ping the JVMs, look in every one that answered (`heard`), then ask the
one that has the object. The ping needs no JavaFX thread; a JVM that misses it is left out, as in
`Locators`, so `StartCall` takes any of the JVMs. Each request is a job on the JavaFX thread, done later even if nobody waits for its answer any more (after 5 s in
the driver; the agent's own 10 s never reach it). `CallsAreTrue` (part "fx action", `FxCallIsTrue`):
a call acts in one JVM at most, on the only thing the locator could mean in the JVMs of `heard` if
no window changed, also when one of them is too slow to answer; if it succeeds it acted, and if it was answered in time and the application did not spoil it a failure
left no trace; the item selected in a list is the recorded one (`SelectedIsRecorded`). A failing
handler, an unconfirmed selection and a refused close are reported as errors after their effect. A
locator without window has its ordinal applied over all JVMs by the driver and again inside the
chosen JVM by the agent; that is left to `Locators`.

### `AtspiActions`

Menu paths, close, focus and actions over the accessibility bus, while the application exposes,
renames and replaces objects. A look at a menu (`_children`) returns any of its items, since an
application exposes them one by one and items that cannot be read are skipped; the recorded ordinal
counts in that list (`AtOrdinal`), and so does uniqueness. `CallsAreTrue` (part "bus action",
`AtspiCallIsTrue`): a menu path that succeeds activates one item and one that fails none; item and
menu have the recorded names unless they change during the call; in menus unchanged since the
recording it is the recorded item itself, if each was picked from a complete list (`~partial`). From
a partial list another item of the same name may be taken (`drivers/atspi_driver.py:1267`). A window reported as closed is gone. Not modelled:
which application of a name is used (`_live_application` prefers the newest one with live children),
and that a path that fails leaves its menus open. A close that succeeds is reported as failed if the
object no longer answers.

### `AtspiClick`

`capture_next_click`: an event is looked at when its turn comes. `CapturesOwnClick` (part "bus
click", `CapturesClicked`): the first event that counts decides, and what is captured was clicked,
as long as the screen stays as it was and the focus is moved by clicks on components alone. The
exceptions are the code's: the details (1, 0) of a focus event are read as coordinates, so that
focus on something that is no target hit-tests the corner of the desktop; a click on what had the
focus from the start is not captured; a click on the harness ends the capture with an error, or
captures what lies beneath when its source is defunct.

### `HitTesting`

The two walks that turn a point into an object: the accessibility tree, which knows no stacking, and
the JavaFX scene graphs. `CapturesOwnClick` (part "hit", `HitIsOnTop`): the smallest of the
innermost objects at the point and the nearest operated object around it; in JavaFX the uppermost
node of the uppermost window, a popup above the others and the focused window above the rest.
Overlapping windows without focus are taken in list order, and `hitTest` looks at a node's own
`isVisible` only.

### Proofs (`ComponentsProofs`)

The properties are proved for all values of their constants, in the module in which their
parts run side by side: a behaviour takes one part, whose invariant `part = "..." => Inv` the steps of the
others leave alone.

- `Foreground`: `Spec => []ActsProvenAndOnce`. `ActionInv` says, for each step of the
  handshake, what is known of the window asked for: that it was seen in front during this
  preparation as long as it is in front, and that a remembered window still is what it was called,
  unless X11 reuses ids. `EffectInv` counts effects and what can still be sent.
- `Waits`: `Spec => []WaitsAreHonest`. `WaitInv` relates the times that matter: when the
  condition last changed, when a sample last was judged false, when the present series began, when
  the loop wakes, and how late it may be (`SampleBound`, `EndsInTime`).
- `MenuSelection`: `Spec => []SelectedOnce`. While the JavaFX thread answers in time, at most one
  job that can fire an item exists per selection (`OneJobEach`), and none once it has fired
  (`FiresOnce`).
- `LocatorsFindMeant`: `Spec => []FoundIsMeant`. The agents' and the driver's narrowing leaves the
  nodes meant (`FindsMeant`, `NarrowingSame`), and one that is acted upon was the only one in the
  JVMs that answered the ping.
- `ClicksAreOwn`: `Spec => [](part # "hit" => CapturesOwnClick)`, with one invariant for each way to
  capture a click. In the JVM, a claim belongs to the one request that is armed there (`ClaimInv`),
  and what a request caught, an answer brings or a capture returns was clicked for that capture
  (`ClickInv`). On the overlay, the owner is the process that was on top at the click (`OwnerInv`)
  and what is returned was verified to be its (`ResultInv`). On the bus, the first event that counts
  is the one handled (`FirstDecides`), the events in the queue stem from clicks as long as the focus
  has not moved by itself (`EventsOfClicks`), and so the first was clicked (`FirstClicked`). What
  lies at a point (part "hit") is defined by recursion over the tree and is left to TLC.
- `DriversTellTheTruth`: `Spec => []CallsAreTrue`, with one invariant for each driver. Swing: a
  request is one job, in its JVM (`JobsInv`), where it is says whether it acted (`EffectsInv`), and a
  call that goes on to the second JVM passed the first with an error or gave it up (`CallsInv`,
  `TodoInv`, `Successes`). JavaFX: what was counted in the JVMs is what is there as long as the scene
  has not changed (`LookInv`), so the request asks for the only node meant (`AskInv`); an answer says
  what the request did (`DoneInv`, `CloseInv`). AT-SPI: how far the
  call is says what it did (`PhaseInv`, `EndInv`); in menus that do not change meanwhile, what was
  walked and what was activated bear the recorded labels, and the recorded places too if nothing
  changed since the recording (`AsRecorded`, `WalkedInv`, `ActivatedInv`).
- `SelectionsReplay`: `Spec => []ReplaysRecorded`, for any number of selections and relabellings of
  the five items. A path of the inventory has one node (`Inventories`), whose selector is a name that
  the item of the path has had, and so for the menu above it (`Sound`, `Right`); where names differ
  within a menu (`Alone`), that says which item it is. A proposed path that exists when it is reviewed
  is that of the item, or was made for another item with the same key since, which is a rival
  (`Proposed`, `Rival`). Staging a route keeps all of this (`StagedKeeps`, `BuildingKeeps`), and new
  names of the application only add to what an item has been called (`MenuChanges`). So steps lead to
  their items (`Leads`), and the agent finds what is called as its selectors say (`ReachedIs`,
  `Fires`). That a free key exists among the first n + 1 (`FreeKeyIs`) is the pigeonhole principle.

Assumed of the constants: `XidsAssumption` (the "no window" value is no id), `DurationsAssumption`
(times count ticks), `ComponentsAssumption` (the words for a frame, the harness and the like name no
component) and `BoundsAssumption`.

Only model-checked: the part "hit" of `CapturesOwnClick`.

## 9. Editing, running and bundles

`MCAuthoring` does for what an author edits and starts what `MCComponents` does for the tested
applications: run `authoring`, one part per behaviour.

### `ArtifactEditing`

Several windows edit one repository and one plan, other processes save the same files, and a
migration publishes both. A document is the set of edits it contains. Another process may save
between two callbacks, and inside one at the places `gaps`, a set that each behaviour takes from
`Gaps` and keeps. A publication is one `Recheck` and one `Publish` for each file, so that a save may
come between a check and its replacement ("rename") and between the two replacements ("publish").

- `SavedStays`: nobody's saved edit is taken away. There is no lock
  (`core/component_repository.py:249`, `core/repository_reconciliation.py:191`), and the property
  says so: it is about the behaviours whose `gaps` have at most "save", that is, other processes save
  between callbacks or while a window applies what was typed. With any other place in `gaps` the save
  of that process can be lost.
- `MigratedTogether`: outside a publication a migration is in both files or in none, for any `gaps`.

The run has `gaps` of either kind: {"save"} for the first property and {"publish", "rename"} for the
second; alone, the part also passes with all seven places. What is typed and not yet saved
is lost when the context is loaded again, against `README.md:1476`.

Limits: another process adds edits of its own to what it finds in a file and replaces it in one
step, it does not migrate; what a failed publication has replaced can be restored (a failing
`os.replace` in the handler of `_atomic_publish` leaves one file migrated); the process is not
killed between the two replacements, after which nothing in the code would finish or undo it.

### `IdentityForm`

What showing, editing, recapturing, deleting and saving in the identity workbench do to the locators
of a repository. `ArtifactsAreSound` (part "identity", `IdentityIsAuthored`): an object the form has
not shown keeps its definition; the others keep the conditions of their last capture that nobody
touched and get none but from captures and the user; every object keeps a condition to be found by,
a name of its own and what was recorded of it. `untouched_locators` shows that a save updates
definitions nobody changed, against `repository_identity_workbench_window.py:506`.

Seen while modelling: an anchored_visual object has no editable locator, so that Save Repository
fails while one exists (`:519`); after a recapture the form offers evidence of the old capture; an
unfinished edit is dropped at save without a word; a recapture replaces all strategies; swapping two
names always fails; a save that fails half way leaves what it applied in memory; delete and reload
discard typed edits of all objects (against `README.md:1476`).

### `StepCalls`

Registered steps that run others in one context. `RunsAreHonest` (part "calls",
`InvocationsAreTransactions`): the bindings in force are those of the innermost step called through
the registry; a call commits at most once, outputs its step declares, and not if it failed before; a
detailed call returns its own result with the bindings it asked for; the log is nested as the calls
are. `nested_steps` shows what does not hold: a step that calls a decorated step as a plain function
hands it its own bindings and capture, so that the caller finishes and the call raises
(`core/step_registry.py:245`). The built-in steps `gui.button.click`, `gui.text.set` and
`gui.selection.select` do that, and so fail in the plan runner after they acted. Also seen: a write
of evidence that fails after the commit leaves the outputs of a failed step bound; the digest of a
script in the evidence is that of load time; the timeout of a script kills only its direct child.
Scripts run as subprocesses, so their `SystemExit` does not reach the registry.

### `BundleRuns`

A bundle from its static check over display, application and test process to the published verdict.
`ArtifactsAreSound` (part "bundles") is `CheckForesees`: what the check says of step references is
what the test process finds, in both directions, but for what `Hidden` and `Strict` name.
`RunsAreHonest` (part "bundles") is `NothingLeftRunning` (whatever failed or was interrupted,
display and application are down at the end, unless one of them cannot be killed) and
`VerdictIsEarned` (a published success is one of a checked bundle whose test passed; a failed test
is not reported as a failure of the harness).

`Hidden`: the check does not see computed names, nested or refused declarations and libraries that
raise. `Strict`: it refuses computed names and bindings, a declaration that never runs, a library
listed twice, an alias equal to its own name. A process that survives kill makes `stop` raise, so
that no `run.json` is written and the display stays; exit codes 2 and 3 are shared with pytest's
own; a library that fails to load leaves its first registrations. Not modelled: an interrupt inside
`stop`, references of libraries (the check treats them like the test's).

### Proofs (`AuthoringProofs`)

One invariant per part, over that part's variables; the theorems are about the specification in
which the parts run side by side, for all values of the constants.

- `SavedEditsStay`: `Spec => SavedStays`; the property speaks of `gaps \subseteq {"save"}`, and so
  does the invariant. `EditInv` says what the callback under way knows of the file it is about to
  replace (`Knows`, `Replacing`), and that what a window compares the file with is part of what it
  would save (`LoadedInv`).
- `MigrationsAreWhole`: `Spec => [](part = "editing" => Editing!MigratedTogether)`, for any `gaps`.
  `EditInv` does not hold then, and `MigrationInv` speaks of migrations alone: two documents have
  the same ones (`SameMigrations`) although other edits were added to one of them. Edits are numbered, so
  that a migration is in no document before it is made (`NumberInv`); a window holds the migrations
  of what it compares with (`OwnEditsInv`), a callback those of the file it has loaded or compared,
  whoever saves inside it (`FoundInv`); in a publication each file has those of what was proposed or
  of what was there, as far as it has come (`HalfInv`), and both of these are whole (`WholeInv`,
  `ProposedTogether`). `EditingAssumption`: a migration brings an object; the code refuses one of a
  plan that embeds none (`authoring/gui/plan_authoring_window.py:111`).
- `ButtonsKeepTheirObjects`: `Spec => []PublishedAsAccepted`, from `SafelyPublishes` of
  `AtspiAdapterProofs`, which does not need the fairness of that module's specification.
- `RunsHonestly`: `Spec => []RunsAreHonest`. For the calls, `CallInv` is the types, `ContextInv`
  (each frame remembers what the innermost call through the registry below it asked for, so that
  its end restores that), `BoundInv` (a call that runs has bound nothing yet, and calls are numbered
  as they begin) and `LogInv` (a running step has only its start in the log, and what follows it is
  of steps inside it that run, or closed after it). For bundles, `BundleInv` ties the exit code to
  how the test went (`VerdictInv`) and to what is up.

- `FormsKeepIdentities`: `Spec => [](part = "identity" => Identity!IdentityIsAuthored)`, for every
  finite set of objects. `IdentityInv` is: the tree lists objects the repository has, each once
  (`TreeInv`); of every definition and of what is kept to be saved, each mandatory condition is the
  capture's or the user's, and no captured one is gone without a touch (`DefinitionsInv`, `Made`); the
  same holds of the rows of the form, of which a condition is made when they are read (`FormInv`,
  `RowsMade`); nothing was done to an object that was not shown (`UnseenInv`). A save is a fold over
  the tree (`SaveFolds`, `SaveStep`): whatever the order, and wherever it fails, an object is
  rewritten as a whole or left.
- `ChecksForesee`: `Spec => [](part = "bundles" => Bundles!CheckForesees)`. Both directions are
  facts about any bundle (`AcceptedWorks`, `RefusedFails`): the load of the libraries is a fold over
  them (`LoadedIs`), which ends without a failure when no names collide and every library runs
  (`LoadedWhole`), and then finds what the check meant (`FoundIsMeant`). `ForeseenInv` says that the
  files a test found unresolved are files the check had accepted.
- `ArtifactsSound`: `Spec => []ArtifactsAreSound`, from the two and `MigrationsAreWhole`.

A fold is the value of a recursive function that its definition chooses. `FoldExists` shows, by
induction over the number of indices, that there is one, and `FoldStays` that what one element
preserves the fold preserves. The induction itself is over sets of numbers (`InductionOnSets`), from
the minimum that `WellFoundedInduction` gives every set; no operator is passed as an argument.
`ObjectsAssumption` (finitely many objects; "no object" is none of them) and `NamesAssumption` ("no
alias" is no name) are assumed of the constants.

## 10. Not modelled

- Code the program does not reach: `authoring/app.py` is a retired shell that the launcher no longer
  starts; `repository_workbench_window.py` and `repository_rhel_window.py` import
  `authoring/object_reference_updates`, which does not exist; `build_capture_context`,
  `build_recording_context` and `open_capture_workbench` are reached from there only;
  `repository_events.py`, `merge_repository_or`, `merge_objects_or`, `persist_recorded_menu_owner`
  and `delete_subtree` are called by tests only; nothing constructs `JavaDesktopBackend`;
  `JavaAgentDriver.capture_next_click` is not used.
- GTK layout, dialogs without state of their own, argument parsing, rendering of reports and the
  pytest adapter: no state that lives from one call to the next. So `core/execution_context.py`.
- Native I/O: AT-SPI trees, X11 sampling, image matching, sockets, process launch. Where the code
  above depends on what they may answer, the answer is a nondeterministic choice.
- Pure document transformations: hierarchy normalisation, identity formatting, rewriting of
  references, the merge of repositories.
- Completion modes other than the wait for a state; `reference/`, a demonstration target.
