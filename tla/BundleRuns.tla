------------------------------ MODULE BundleRuns ------------------------------
(***************************************************************************)
(* A test bundle is checked from its source before anything is started     *)
(* (runner/validator.py); a backend starts a display and an application    *)
(* (backends/); a test process loads the step libraries and runs the test  *)
(* (core/step_registry.py, core/test_context.py); the backend is stopped   *)
(* and the verdict published (runner/execution.py).                        *)
(***************************************************************************)
EXTENDS Naturals, Sequences, FiniteSets, SequencesExt

CONSTANTS
  Builtin,            \* the name of a step that comes with the harness
  UserNames,          \* names of steps that libraries add
  MaxDisplays,        \* bound on the display numbers that are tried
  MaxFaults           \* bound on what goes wrong around one run

VARIABLES
  bundle,
  backend,            \* its kind, and whether it starts a display of its own
  pc,
  display, app,       \* the processes of the backend: "off", "up", "dead"
  tries,              \* display numbers that did not work
  refused,            \* the process that survived being killed
  interrupted,
  tested,             \* how the test ended, "no" before
  code,               \* RunResult.exit_code
  published,          \* the code in run.json
  faults

vars == <<bundle, backend, pc, display, app, tries, refused, interrupted, tested, code, published, faults>>

-----------------------------------------------------------------------------
(* Bundles, as the source shows them                                       *)

NoAlias == "no alias"
NoCode == 99                          \* stands for None
Names == {Builtin} \cup UserNames

(* A library declares one step: at its top level with a literal name, with *)
(* a computed one, inside a function that nothing calls, or in a way that  *)
(* the decorator refuses; it may have an error in its text, or raise.      *)
Declaration(n, alias, outputs, needs, form) ==
  [name |-> n, alias |-> alias, outputs |-> outputs, needs |-> needs, form |-> form]
Library(file, d, state) == [file |-> file, step |-> d, state |-> state]

First ==
  {Library(1, Declaration(n, a, p[1], p[2], "plain"), "ok") :
     n \in Names, a \in Names \cup {NoAlias}, p \in {<<TRUE, FALSE>>, <<FALSE, FALSE>>, <<TRUE, TRUE>>}}
  \cup {Library(1, Declaration(n, NoAlias, TRUE, FALSE, f), "ok") : n \in Names, f \in {"computed", "nested", "broken"}}
  \cup {Library(1, Declaration(n, NoAlias, TRUE, FALSE, "plain"), s) : n \in UserNames, s \in {"syntax", "raises"}}
Second == {Library(2, Declaration(n, NoAlias, TRUE, FALSE, "plain"), "ok") : n \in UserNames}
Libraries == {<<>>} \cup {<<l>> : l \in First} \cup {<<l, l>> : l \in First} \cup (First \X Second)

(* The reference of the test: to a component or a step, by a literal or    *)
(* not, with bindings of the output of the step.                           *)
Bindings == {"no", "good", "undeclared", "dotted", "spaced", "computed"}
References ==
  [kind : {"component"}, target : {"known", "unknown"}, literal : BOOLEAN, bind : {"no"}]
    \cup [kind : {"step"}, target : Names, literal : {TRUE}, bind : Bindings]
    \cup [kind : {"step"}, target : Names, literal : {FALSE}, bind : {"no", "good"}]

(* TestBundle.load; "capable": the backend has what some steps require.    *)
Bundles == [libraries : Libraries, ref : References, capable : BOOLEAN]
Backends == {<<"reference", TRUE>>, <<"reference", FALSE>>, <<"gtk-demo", TRUE>>, <<"live-desktop", FALSE>>}

NamesOf(d) == {d.name, d.alias} \ {NoAlias}
TheBuiltin == Declaration(Builtin, NoAlias, TRUE, TRUE, "plain")

-----------------------------------------------------------------------------
(* validate_bundle *)

(* _scan_step_libraries: what it sees of the libraries.                    *)
Readable(l) == l.state # "syntax" /\ l.step.form # "computed"
Seen(b) ==
  [i \in {k \in DOMAIN b.libraries : Readable(b.libraries[k])} |-> b.libraries[i].step]

(* Mutant: only the names of steps are compared, not their aliases.        *)
CollidesByName(seen) ==
  \E i \in DOMAIN seen :
     seen[i].name = Builtin \/ \E j \in DOMAIN seen : j < i /\ seen[j].name = seen[i].name

(* _validate_declared_step_collisions *)
Collides(seen) ==
  \E i \in DOMAIN seen :
     \/ Builtin \in NamesOf(seen[i])
     \/ seen[i].alias = seen[i].name
     \/ \E j \in DOMAIN seen : j < i /\ NamesOf(seen[j]) \cap NamesOf(seen[i]) # {}

(* The declaration a name stands for: a builtin one, or the first.         *)
Meant(name, seen) ==
  IF name = Builtin THEN {TheBuiltin}
  ELSE LET with == {i \in DOMAIN seen : name \in NamesOf(seen[i])}
       IN {seen[i] : i \in {i \in with : \A j \in with : i <= j}}

(* _literal_bind_outputs and what _validate_step_references makes of them. *)
BindingIsWrong(d, bind) ==
  \/ bind \in {"undeclared", "dotted", "computed"}
  \/ bind \in {"good", "spaced"} /\ ~d.outputs

(* _validate_component_references, _validate_step_references *)
ReferenceIsWrong(b) ==
  /\ b.ref.literal
  /\ IF b.ref.kind = "component" THEN b.ref.target = "unknown"
     ELSE LET meant == Meant(b.ref.target, Seen(b))
          IN meant = {} \/ \E d \in meant : BindingIsWrong(d, b.ref.bind) \/ (d.needs /\ ~b.capable)

Issues(b) ==
  \/ \E i \in DOMAIN b.libraries : ~Readable(b.libraries[i])
  \/ Collides(Seen(b)) \/ ReferenceIsWrong(b)

-----------------------------------------------------------------------------
(* What the test process makes of the same bundle *)

(* load_step_library, StepRegistry.register: a file is executed once, and  *)
(* a name that another step has is refused.                                *)
NoSteps == [ok |-> TRUE, files |-> {}, steps |-> {TheBuiltin}]
NamesIn(registry) == UNION {NamesOf(d) : d \in registry.steps}

Executed(registry, l) ==
  IF ~registry.ok \/ l.file \in registry.files THEN registry
  ELSE LET taken == NamesOf(l.step) \cap NamesIn(registry) # {}
           ok == CASE l.step.form = "broken" -> FALSE
                   [] l.step.form = "nested" -> l.state = "ok"
                   [] OTHER -> l.state = "ok" /\ ~taken
           added == IF ok /\ l.step.form # "nested" THEN {l.step} ELSE {}
       IN [ok |-> ok, files |-> registry.files \cup {l.file}, steps |-> registry.steps \cup added]

Loaded(b) == FoldLeft(Executed, NoSteps, b.libraries)

(* StepRegistry.get, _validate_output_bindings and the capabilities; or    *)
(* ComponentRepository.get.                                                *)
Unresolved(b) ==
  LET found == {d \in Loaded(b).steps : b.ref.target \in NamesOf(d)}
      rejects(d) == \/ b.ref.bind \in {"undeclared", "dotted", "spaced"}
                    \/ b.ref.bind # "no" /\ ~d.outputs
                    \/ d.needs /\ ~b.capable
  IN \/ ~Loaded(b).ok
     \/ IF b.ref.kind = "component" THEN b.ref.target = "unknown"
        ELSE found = {} \/ \E d \in found : rejects(d)

-----------------------------------------------------------------------------
(* execute_bundle *)

Init ==
  /\ bundle \in Bundles
  /\ backend = <<"none", FALSE>>
  /\ pc = "check" /\ display = "off" /\ app = "off" /\ tries = 0 /\ refused = "none"
  /\ interrupted = FALSE /\ tested = "no" /\ code = NoCode /\ published = NoCode /\ faults = 0

Fault == faults < MaxFaults /\ faults' = faults + 1
Kind == backend[1]

(* The except clause: any exception inside ends in the finally clause.     *)
Raises == pc' = "stop" /\ code' = 3

(* validate_bundle and preflight_issues *)
Check ==
  /\ pc = "check"
  /\ backend' \in Backends
  /\ \/ Issues(bundle) /\ pc' = "publish" /\ code' = 2 /\ UNCHANGED faults
     \/ Fault /\ pc' = "publish" /\ code' = 2
     \/ ~Issues(bundle) /\ pc' = "display" /\ UNCHANGED <<code, faults>>
  /\ UNCHANGED <<bundle, display, app, tries, refused, interrupted, tested, published>>

(* _prepare_display: Xvfb starts, ends or does not open its socket; GTK    *)
(* Demo then stops what it started and tries the next number.              *)
StartDisplay ==
  /\ pc = "display"
  /\ \/ ~backend[2] /\ pc' = "app" /\ UNCHANGED <<display, tries, code, faults>>
     \/ backend[2] /\ display' = "up" /\ pc' = "app" /\ UNCHANGED <<tries, code, faults>>
     \/ /\ backend[2] /\ Fault
        /\ \/ display' = "off" /\ Raises /\ UNCHANGED tries
           \/ Kind = "reference" /\ display' \in {"dead", "up"} /\ Raises /\ UNCHANGED tries
           \/ /\ Kind = "gtk-demo" /\ display' = "off" /\ tries' = tries + 1
              /\ IF tries + 1 = MaxDisplays THEN Raises ELSE UNCHANGED <<pc, code>>
  /\ UNCHANGED <<bundle, backend, app, refused, interrupted, tested, published>>

(* start: the application does not start, ends, or never gets ready.       *)
StartApp ==
  /\ pc = "app"
  /\ \/ Kind = "live-desktop" /\ pc' = "health" /\ UNCHANGED <<app, code, faults>>
     \/ Kind # "live-desktop" /\ app' = "up" /\ pc' = "health" /\ UNCHANGED <<code, faults>>
     \/ Kind # "live-desktop" /\ Fault /\ app' \in {"off", "dead", "up"} /\ Raises
     \/ Kind = "live-desktop" /\ Fault /\ Raises /\ UNCHANGED app
  /\ UNCHANGED <<bundle, backend, display, tries, refused, interrupted, tested, published>>

(* health_check *)
HealthCheck ==
  /\ pc = "health"
  /\ \/ (Kind = "live-desktop" \/ app = "up") /\ pc' = "test" /\ UNCHANGED <<code, faults>>
     \/ Kind # "live-desktop" /\ app # "up" /\ Raises /\ UNCHANGED faults
     \/ Fault /\ Raises
  /\ UNCHANGED <<bundle, backend, display, app, tries, refused, interrupted, tested, published>>

(* pytest: the fixture ctx loads the libraries and resets the reference    *)
(* application. The exit code of pytest, which has meanings of its own for *)
(* 2 and 3, is the one of the run, unless its report cannot be read.       *)
Test ==
  /\ pc = "test"
  /\ \/ /\ ~Unresolved(bundle) /\ (Kind = "reference" => app = "up")
        /\ tested' = "passed" /\ code' = 0 /\ pc' = "stop" /\ UNCHANGED faults
     \/ /\ tested' = (IF Unresolved(bundle) THEN "unresolved" ELSE "failed")
        /\ code' = 1 /\ pc' = "stop" /\ UNCHANGED faults
     \/ Fault /\ tested' = "broken" /\ pc' = "stop" /\ code' \in {2, 3, 9}
  /\ UNCHANGED <<bundle, backend, display, app, tries, refused, interrupted, published>>

(* Mutant: stop waits for the application only.                            *)
StopApp ==
  /\ pc = "stop"
  /\ app' = (IF app = "up" THEN "off" ELSE app)
  /\ pc' = IF interrupted THEN "escaped" ELSE "publish"
  /\ UNCHANGED <<bundle, backend, display, tries, refused, interrupted, tested, code, published, faults>>

(* The finally clause: stop terminates and kills the application, then the *)
(* display; the wait for a process that is still there raises.             *)
Stop ==
  /\ pc = "stop"
  /\ \/ /\ app' = "off" /\ display' = "off"
        /\ pc' = IF interrupted THEN "escaped" ELSE "publish"
        /\ UNCHANGED <<refused, faults>>
     \/ /\ app = "up" /\ Fault /\ refused' = "app" /\ pc' = "escaped"
        /\ UNCHANGED <<app, display>>
     \/ /\ display = "up" /\ Fault /\ refused' = "display" /\ pc' = "escaped"
        /\ app' = "off" /\ UNCHANGED display
  /\ UNCHANGED <<bundle, backend, tries, interrupted, tested, code, published>>

(* _finalize_run: run.json, then the environment and the summary.          *)
Publish ==
  /\ pc = "publish"
  /\ \/ published' = code /\ pc' = "done" /\ UNCHANGED faults
     \/ Fault /\ published' \in {NoCode, code} /\ pc' = "escaped"
  /\ UNCHANGED <<bundle, backend, display, app, tries, refused, interrupted, tested, code>>

(* KeyboardInterrupt is not caught, but the finally clause runs; one that  *)
(* hits stop itself is left out.                                           *)
Interrupt ==
  /\ pc \in {"display", "app", "health", "test"} /\ Fault
  /\ interrupted' = TRUE /\ pc' = "stop"
  /\ UNCHANGED <<bundle, backend, display, app, tries, refused, tested, code, published>>

(* A process ends by itself, an application with its display.              *)
Ends ==
  /\ pc \in {"app", "health", "test", "stop"} /\ Fault
  /\ \/ app = "up" /\ app' = "dead" /\ UNCHANGED display
     \/ display = "up" /\ display' = "dead" /\ app' = (IF app = "up" THEN "dead" ELSE app)
  /\ UNCHANGED <<bundle, backend, pc, tries, refused, interrupted, tested, code, published>>

Next ==
  \/ Check \/ StartDisplay \/ StartApp \/ HealthCheck \/ Test \/ Stop \/ Publish
  \/ Interrupt \/ Ends
Spec == Init /\ [][Next]_vars

-----------------------------------------------------------------------------
(* Properties *)

(* What the source does not show the check: computed names, declarations   *)
(* that run elsewhere or are refused, a library that raises, the spaces    *)
(* around a variable name.                                                 *)
Hidden(b) ==
  \/ ~b.ref.literal \/ b.ref.bind = "spaced"
  \/ \E i \in DOMAIN b.libraries :
       b.libraries[i].state = "raises" \/ b.libraries[i].step.form \in {"nested", "broken"}

(* What it refuses although it would work: computed names and bindings, a  *)
(* declaration that never runs, a library listed twice, an alias that is   *)
(* the name of its own step.                                               *)
Strict(b) ==
  \/ b.ref.bind = "computed"
  \/ \E i \in DOMAIN b.libraries :
       \/ b.libraries[i].step.form \in {"computed", "nested"}
       \/ b.libraries[i].step.alias = b.libraries[i].step.name
       \/ \E j \in DOMAIN b.libraries : i # j /\ b.libraries[i].file = b.libraries[j].file

(* The check before a run agrees with what the test process finds, in both *)
(* directions, whatever libraries add, alias or repeat ("Validate literal  *)
(* ctx.run_step()/invoke_step() references before startup",                *)
(* runner/validator.py:283).                                               *)
CheckForesees ==
  /\ tested = "unresolved" => Hidden(bundle)
  /\ pc # "check" /\ Issues(bundle) /\ ~Strict(bundle) => Unresolved(bundle)

(* After a run nothing of its backend is left, however far the start came  *)
(* and whatever ended it, but for a process that cannot be killed and what *)
(* is stopped after it.                                                    *)
NothingLeftRunning ==
  pc \in {"publish", "done", "escaped"} =>
    /\ app = "up" => refused = "app"
    /\ display = "up" => refused # "none"

(* A published success is one of a checked bundle whose test passed, a     *)
(* failed test is not reported as a failure of the harness, and a run that *)
(* returned has a verdict.                                                 *)
VerdictIsEarned ==
  /\ published = 0 => tested = "passed" /\ ~Issues(bundle)
  /\ published = 1 => tested \in {"failed", "unresolved"}
  /\ published \in {2, 3} => tested \in {"no", "broken"}
  /\ pc = "done" => published # NoCode /\ ~interrupted
=============================================================================
