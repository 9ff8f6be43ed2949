--------------------------- MODULE PlanExecution ---------------------------
(***************************************************************************)
(* One call of runner/plan_execution.py:execute_plan: qualification, the   *)
(* managed queue, the step loop with its failure handler, the run's        *)
(* artifacts (execution_state.json, events.jsonl, run.json), the life of   *)
(* the backend, and what a reader of the artifacts sees.                   *)
(*                                                                         *)
(* Any write to disk may fail, a step may raise before or after its        *)
(* outputs are bound, the operator may interrupt the run (a BaseException  *)
(* only the finally clause handles), and the process may die at any step.  *)
(***************************************************************************)
EXTENDS PlanModel

CONSTANT Plans                (* the plans a run may be given *)

ASSUME PlansAssumption == Plans \subseteq PlanType

VARIABLES
  plan,       \* the immutable TestPlan
  pc,         \* where execute_plan is
  cur,        \* node_id of the step being executed
  status,     \* queue.state.steps[*].status
  attempts,   \* queue.state.steps[*].attempts
  globals,    \* the VariableStore
  qvars,      \* queue.state.variables
  passed,     \* result.passed
  failed,     \* result.failed
  exit,       \* result.exit_code
  backend,    \* the backend's process
  events,     \* last plan_step_* event of each step in events.jsonl
  file,       \* per-step status in execution_state.json
  runJson,    \* exit_code in run.json
  interrupted \* a BaseException is propagating

NoStep == 0
NoExit == -1
Exits == {NoExit, 0, 1, 2, 3}
NotRecorded == "none"   \* the step does not occur in the file

queueVars == <<status, attempts, qvars>>
resultVars == <<passed, failed, exit>>
diskVars == <<events, file, runJson>>
vars == <<plan, pc, cur, globals, backend, interrupted,
          queueVars, resultVars, diskVars>>

Stopped == {"done", "escaped", "crashed"}
InTry == {"starting", "health", "writeInitial", "loop", "writeStarted",
          "invoke", "await", "commit", "record", "writePassed", "failing",
          "writeFailed", "verdict"}
Labels == {"qualify", "stopping", "finalize"} \cup InTry \cup Stopped

Init ==
  /\ plan \in Plans
  /\ pc = "qualify"
  /\ cur = NoStep
  /\ status = [s \in Steps |-> "pending"]
  /\ attempts = [s \in Steps |-> 0]
  /\ globals = InitialValues(plan)
  /\ qvars = InitialValues(plan)
  /\ passed = 0 /\ failed = 0 /\ exit = NoExit
  /\ backend = "down"
  /\ events = [s \in Steps |-> NotRecorded]
  /\ file = [s \in Steps |-> NotRecorded]
  /\ runJson = NoExit
  /\ interrupted = FALSE

(* An exception that only the outer handler catches. *)
Abort == exit' = 3 /\ pc' = "stopping"

-----------------------------------------------------------------------------
(* Qualification and backend start *)

(* Validation issues or backend preflight issues: the run ends with exit   *)
(* code 2 and the backend is never started. Up to the try block a write to *)
(* the recorder that fails leaves execute_plan.                            *)
Reject ==
  /\ pc = "qualify"
  /\ exit' = 2
  /\ pc' \in {"finalize", "escaped"}
  /\ UNCHANGED <<plan, cur, globals, backend, interrupted, queueVars,
                 passed, failed, diskVars>>

Qualify ==
  /\ pc = "qualify"
  /\ Validated(plan)
  /\ status' = Recomputed(plan, status, qvars)
  /\ pc' \in {"starting", "escaped"}
  /\ UNCHANGED <<plan, cur, globals, backend, interrupted, attempts, qvars,
                 resultVars, diskVars>>

(* The target process may be up although start() raises: it did not become *)
(* healthy in time.                                                        *)
StartBackend ==
  /\ pc = "starting"
  /\ \/ backend' = "up" /\ pc' = "health" /\ UNCHANGED exit
     \/ backend' \in {"down", "up"} /\ Abort
  /\ UNCHANGED <<plan, cur, globals, interrupted, queueVars, passed, failed,
                 diskVars>>

(* mutant: an unhealthy backend ends the run at once *)
HealthCheckReturns ==
  /\ pc = "health"
  /\ \/ pc' = "writeInitial" /\ UNCHANGED exit
     \/ exit' = 3 /\ pc' = "finalize"
  /\ UNCHANGED <<plan, cur, globals, backend, interrupted, queueVars, passed,
                 failed, diskVars>>

HealthCheck ==
  /\ pc = "health"
  /\ \/ pc' = "writeInitial" /\ UNCHANGED exit
     \/ Abort
  /\ UNCHANGED <<plan, cur, globals, backend, interrupted, queueVars, passed,
                 failed, diskVars>>

-----------------------------------------------------------------------------
(* The step loop *)

(* _write_execution_state: a temporary file is written, then renamed over  *)
(* execution_state.json, so the file changes as a whole or not at all.     *)
AfterWrite ==
  [writeInitial |-> "loop", writeStarted |-> "invoke",
   writePassed |-> "loop", writeFailed |-> "verdict"]

(* mutant: a failing write is ignored *)
WriteIgnoringErrors ==
  /\ pc \in DOMAIN AfterWrite
  /\ file' \in {status, file}
  /\ pc' = AfterWrite[pc]
  /\ UNCHANGED <<plan, cur, globals, backend, interrupted, queueVars,
                 resultVars, events, runJson>>

WriteExecutionState ==
  /\ pc \in DOMAIN AfterWrite
  /\ \/ file' = status /\ pc' = AfterWrite[pc] /\ UNCHANGED exit
     \/ UNCHANGED file /\ Abort
  /\ UNCHANGED <<plan, cur, globals, backend, interrupted, queueVars, passed,
                 failed, events, runJson>>

(* Inputs are resolved against the VariableStore before queue.start; the   *)
(* plan_step_started event may fail to reach the disk after it.            *)
StartStep(s) ==
  /\ pc = "loop"
  /\ Offered(status, s)
  /\ \A p \in plan.needs[s] : Resolves(globals, p)
  /\ cur' = s
  /\ status' = [status EXCEPT ![s] = "running"]
  /\ attempts' = [attempts EXCEPT ![s] = @ + 1]
  /\ \/ /\ events' = [events EXCEPT ![s] = "running"]
        /\ pc' = "writeStarted"
        /\ UNCHANGED exit
     \/ UNCHANGED events /\ Abort
  /\ UNCHANGED <<plan, globals, qvars, backend, interrupted, passed, failed,
                 file, runJson>>

(* Reading a variable raises: the path is missing or the read could not be *)
(* recorded. The step is still ready.                                      *)
ResolveFails(s) ==
  /\ pc = "loop"
  /\ Offered(status, s)
  /\ plan.needs[s] # {}
  /\ Abort
  /\ UNCHANGED <<plan, cur, globals, backend, interrupted, queueVars, passed,
                 failed, diskVars>>

NothingOffered ==
  /\ pc = "loop"
  /\ \A s \in Steps : ~ Offered(status, s)
  /\ pc' = "verdict"
  /\ UNCHANGED <<plan, cur, globals, backend, interrupted, queueVars,
                 resultVars, diskVars>>

(* Window preparation or the step function raises: nothing is bound. *)
StepRaises ==
  /\ pc = "invoke"
  /\ pc' = "failing"
  /\ UNCHANGED <<plan, cur, globals, backend, interrupted, queueVars,
                 resultVars, diskVars>>

(* The step function returned and set_many_atomic committed its outputs.   *)
(* What follows inside the wrapper may still raise.                        *)
StepBinds(keys) ==
  /\ pc = "invoke"
  /\ plan.binds[cur] \subseteq keys
  /\ \A p \in keys : RootOf[p] \in plan.binds[cur]
  /\ globals' = Bound(plan, globals, cur, keys)
  /\ pc' \in {"await", "failing"}
  /\ UNCHANGED <<plan, cur, backend, interrupted, queueVars, resultVars,
                 diskVars>>

(* await_step_completion, then the window-context effect. *)
AwaitCompletion ==
  /\ pc = "await"
  /\ pc' \in {"commit", "failing"}
  /\ UNCHANGED <<plan, cur, globals, backend, interrupted, queueVars,
                 resultVars, diskVars>>

(* mutant: readiness is recomputed before the outputs are staged *)
Unstaged == qvars

(* queue.complete, with its recompute over the staged outputs, and then    *)
(* the snapshot of the store replaces the queue's variables.               *)
Staged == [p \in Paths |-> IF RootOf[p] \in plan.binds[cur]
                           THEN globals[p] ELSE qvars[p]]

CompleteStep ==
  /\ pc = "commit"
  /\ status[cur] = "running"
  /\ status' = Recomputed(plan, [status EXCEPT ![cur] = "passed"], Staged)
  /\ qvars' = globals
  /\ passed' = passed + 1
  /\ pc' = "record"
  /\ UNCHANGED <<plan, cur, globals, backend, interrupted, attempts, failed,
                 exit, diskVars>>

RecordFinished ==
  /\ pc = "record"
  /\ \/ events' = [events EXCEPT ![cur] = "passed"] /\ pc' = "writePassed"
     \/ UNCHANGED events /\ pc' = "failing"
  /\ UNCHANGED <<plan, cur, globals, backend, interrupted, queueVars,
                 resultVars, file, runJson>>

(* The handler of a failing step. queue.fail raises for a step that is no  *)
(* longer running, which the outer handler turns into exit code 3.         *)
FailStep ==
  /\ pc = "failing"
  /\ status[cur] = "running"
  /\ status' = Recomputed(plan, [status EXCEPT ![cur] = "failed"], qvars)
  /\ failed' = failed + 1
  /\ \/ /\ exit' = 1
        /\ events' = [events EXCEPT ![cur] = "failed"]
        /\ pc' = "writeFailed"
     \/ UNCHANGED events /\ Abort
  /\ UNCHANGED <<plan, cur, globals, backend, interrupted, attempts, qvars,
                 passed, file, runJson>>

FailRaises ==
  /\ pc = "failing"
  /\ status[cur] # "running"
  /\ Abort
  /\ UNCHANGED <<plan, cur, globals, backend, interrupted, queueVars, passed,
                 failed, diskVars>>

-----------------------------------------------------------------------------
(* Verdict, backend stop, final artifacts *)

(* mutant: blocked steps count as finished *)
UnfinishedPending == {s \in Steps : status[s] \in {"pending", "ready", "running"}}

Unfinished == {s \in Steps : status[s] \notin Terminal}

Verdict ==
  /\ pc = "verdict"
  /\ \/ /\ exit' = IF exit # NoExit THEN exit
                   ELSE IF Unfinished # {} THEN 2 ELSE 0
        /\ pc' = "stopping"
     \/ Abort
  /\ UNCHANGED <<plan, cur, globals, backend, interrupted, queueVars, passed,
                 failed, diskVars>>

(* backend.stop() of the finally clause; an exception from it replaces the *)
(* result and _finalize is never reached.                                  *)
StopBackend ==
  /\ pc = "stopping"
  /\ \/ /\ backend' = "down"
        /\ pc' = IF interrupted THEN "escaped" ELSE "finalize"
     \/ UNCHANGED backend /\ pc' = "escaped"
  /\ UNCHANGED <<plan, cur, globals, interrupted, queueVars, resultVars,
                 diskVars>>

Finalize ==
  /\ pc = "finalize"
  /\ \/ runJson' = exit /\ pc' \in {"done", "escaped"}
     \/ UNCHANGED runJson /\ pc' = "escaped"
  /\ UNCHANGED <<plan, cur, globals, backend, interrupted, queueVars,
                 resultVars, events, file>>

(* KeyboardInterrupt and SystemExit are no Exception: only the finally     *)
(* clause runs. Outside the try block they leave execute_plan at once.     *)
Interrupt ==
  /\ pc \notin Stopped
  /\ interrupted' = TRUE
  /\ pc' = IF pc \in InTry THEN "stopping" ELSE "escaped"
  /\ UNCHANGED <<plan, cur, globals, backend, queueVars, resultVars, diskVars>>

Crash ==
  /\ pc \notin Stopped
  /\ pc' = "crashed"
  /\ UNCHANGED <<plan, cur, globals, backend, interrupted, queueVars,
                 resultVars, diskVars>>

Terminated == pc \in Stopped /\ UNCHANGED vars

Progress ==
  \/ Reject \/ Qualify \/ StartBackend \/ HealthCheck
  \/ WriteExecutionState
  \/ \E s \in Steps : StartStep(s) \/ ResolveFails(s)
  \/ NothingOffered
  \/ StepRaises \/ (\E keys \in SUBSET Paths : StepBinds(keys))
  \/ AwaitCompletion \/ CompleteStep \/ RecordFinished
  \/ FailStep \/ FailRaises
  \/ Verdict \/ StopBackend \/ Finalize

Next == Progress \/ Interrupt \/ Crash \/ Terminated

Spec == Init /\ [][Next]_vars

(* Every wait of a step is bounded by a timeout and every library call is  *)
(* assumed to return: the runner's thread keeps taking steps.              *)
FairSpec == Spec /\ WF_vars(Progress)

-----------------------------------------------------------------------------
(* What a reader of the run directory sees (reporting/run_reports.py): the *)
(* events give a status, which the execution state overrides.              *)

Shown(st) ==
  [pending |-> "NOT RUN", blocked |-> "NOT RUN", ready |-> "NOT RUN",
   none |-> "NOT RUN", running |-> "RUNNING", passed |-> "PASSED",
   failed |-> "FAILED", skipped |-> "SKIPPED", cancelled |-> "CANCELLED"][st]

Report(s) == IF file[s] # NotRecorded THEN Shown(file[s]) ELSE Shown(events[s])

-----------------------------------------------------------------------------
(* Properties *)

PassedSteps == {s \in Steps : status[s] = "passed"}
Attempted == {s \in Steps : attempts[s] > 0}

TypeOK ==
  /\ plan \in PlanType
  /\ pc \in Labels
  /\ cur \in Steps \cup {NoStep}
  /\ status \in [Steps -> Status]
  /\ attempts \in [Steps -> Nat]
  /\ globals \in [Paths -> Origins]
  /\ qvars \in [Paths -> Origins]
  /\ passed \in Nat /\ failed \in Nat
  /\ exit \in Exits
  /\ backend \in {"down", "up"}
  /\ events \in [Steps -> Status \cup {NotRecorded}]
  /\ file \in [Steps -> Status \cup {NotRecorded}]
  /\ runJson \in Exits
  /\ interrupted \in BOOLEAN

(* Readiness is derived: whenever the loop asks the queue for a step, the  *)
(* statuses are what recomputing them from the plan, the variable store    *)
(* and the settled steps would give, and the queue's copy of the variables *)
(* is the store (ManagedExecutionQueue, "the queue is a derived view").    *)
ReadinessDerived ==
  pc \in {"writeInitial", "loop", "writePassed"} =>
    /\ qvars = globals
    /\ status = Recomputed(plan, status, globals)

(* A step runs against the data the authored order promises: each path it  *)
(* refers to was last written by the nearest earlier step that binds the   *)
(* path's variable, or by plan.variables when no earlier step binds it.    *)
LastWriters(s, p) ==
  {q \in Steps : /\ q < s /\ RootOf[p] \in plan.binds[q]
                 /\ \A r \in Steps : q < r /\ r < s =>
                                       RootOf[p] \notin plan.binds[r]}

InputsFromAuthoredOrder ==
  pc \in {"writeStarted", "invoke"} =>
    \A p \in plan.needs[cur] :
      IF LastWriters(cur, p) = {} THEN globals[p] = Initial
      ELSE globals[p] \in LastWriters(cur, p)

(* A step that failed leaves nothing behind in execution_state.json's      *)
(* variables, although its outputs may already be in the variable store:   *)
(* every committed value was written by a passed step.                     *)
CommittedByPassedSteps ==
  \A p \in Paths : qvars[p] \in {Absent, Initial} \cup PassedSteps

(* A step reads only values an earlier step of the authored order has      *)
(* committed, and only passed steps commit any (queue order, staging and   *)
(* commit in execute_plan).                                                *)
DataFlowSound == InputsFromAuthoredOrder /\ CommittedByPassedSteps

(* The verdict in run.json agrees with what happened to the steps.         *)
VerdictTruthful ==
  /\ runJson = 0 => PassedSteps = Steps /\ passed = N /\ failed = 0
  /\ runJson = 1 => \E s \in Steps : /\ status[s] = "failed"
                                    /\ \A t \in Steps : t < s => status[t] = "passed"
  /\ runJson = 2 => ~ \E s \in Steps : status[s] \in {"running", "failed"}

(* Whoever reads the run directory, during the run, after it or after the  *)
(* runner died, is wrong about at most the step that was being executed,   *)
(* and never sees a pass or a failure that did not happen.                 *)
ReportLagsByOneStep ==
  \A s \in Steps :
    /\ Report(s) # Shown(status[s]) => s = cur
    /\ Report(s) \in {"PASSED", "FAILED"} => Report(s) = Shown(status[s])

(* A run that published a verdict other than "runtime error" left a report *)
(* that is exact for every step.                                           *)
PublishedReportExact ==
  runJson \in {0, 1, 2} => \A s \in Steps : Report(s) = Shown(status[s])

(* No result is published while the target still runs: run.json is only    *)
(* written after backend.stop() returned.                                  *)
BackendReleasedBeforeVerdict ==
  runJson # NoExit => backend = "down"

(* What a reader of the run directory sees, after a crash at any point, is *)
(* what happened: execution_state.json is at most one step behind, the     *)
(* published report is exact, and no verdict is out before the backend is  *)
(* released (RunRecorder, _finalize).                                      *)
ArtifactsTruthful ==
  ReportLagsByOneStep /\ PublishedReportExact /\ BackendReleasedBeforeVerdict

(* A plan whose steps depend on earlier steps only, and refer to variables *)
(* rather than into them, cannot stall: the runner's verdict "execution    *)
(* graph stalled" is never about such a plan.                              *)
ForwardPlan ==
  \A s \in Steps :
    /\ plan.needs[s] \subseteq Vars
    /\ \A t \in Steps : Edge(plan, t, s) => t < s

Stalled == pc \in {"stopping", "finalize", "done"} /\ exit = 2 /\ status[1] # "pending"

ForwardPlansDoNotStall == ForwardPlan => ~ Stalled

(* The run keeps the promise of SequentialRun. *)
Promise == INSTANCE SequentialRun
             WITH dispatched <- Attempted, done <- PassedSteps, verdict <- runJson

KeepsPromise == Promise!Spec

(* The documentation's reading: a validated plan holds a consumer back     *)
(* until its producer has committed, wherever the producer stands.         *)
ValidatedPlansDoNotStall ==
  plan.needs \in [Steps -> SUBSET Vars] => ~ Stalled

(* A target that was started is stopped again, however the run goes,       *)
(* unless stop() itself raised or the runner died.                         *)
BackendReclaimed ==
  backend = "up" ~> (backend = "down" \/ pc \in {"escaped", "crashed"})

=============================================================================
