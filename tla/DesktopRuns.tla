----------------------------- MODULE DesktopRuns -----------------------------
(***************************************************************************)
(* Runs started from the authoring windows of one process: a project       *)
(* window runs a batch of plans (authoring/project_runs) and keeps its     *)
(* history in a file, a plan window runs its plan. Either one minimizes    *)
(* every harness window first, because the plans act on the same desktop,  *)
(* and restores them in a callback on the main loop when its worker ends.  *)
(***************************************************************************)
EXTENDS Naturals, Sequences

CONSTANTS
  Projects, Plans,     \* windows that run batches, and windows that run one plan
  Starter,             \* the start window, which the launcher minimized
  MaxRuns,             \* runs in all
  MaxPlans,            \* plans in a batch
  MaxRaises            \* minimized windows the user brings back

Runners == Projects \cup Plans
Frames == Runners \cup {Starter}

VARIABLES
  open, minimized,     \* windows that exist, and those that are iconified
  running,             \* per window: pc, number of its run, its plans, how many ran, records, error
  restore,             \* per window: _run_minimized_windows
  history,             \* per run: the batch file
  told,                \* per window: what its status says
  ended,               \* the process is over
  runs, raises,
  ran,                 \* ghost, per run: what really came of its plans
  asked,               \* ghost, per run: how many plans were to run
  warned,              \* ghost: runs whose window reported an error
  excused              \* ghost, per window: windows were brought back during its run

vars == <<open, minimized, running, restore, history, told, ended, runs, raises, ran, asked, warned, excused>>

Results == {"passed", "failed"}
NoFile == [plans |-> <<>>, finished |-> FALSE, saved |-> FALSE]
NoRun == [pc |-> "idle", run |-> 0, total |-> 0, index |-> 0, done |-> <<>>, error |-> FALSE]

Init ==
  /\ open = Frames /\ minimized = {Starter}
  /\ running = [w \in Runners |-> NoRun] /\ restore = [w \in Runners |-> {}]
  /\ history = [r \in 1 .. MaxRuns |-> NoFile] /\ told = [w \in Runners |-> "ready"]
  /\ ended = FALSE /\ runs = 0 /\ raises = 0
  /\ ran = [r \in 1 .. MaxRuns |-> <<>>] /\ asked = [r \in 1 .. MaxRuns |-> 0]
  /\ warned = {} /\ excused = [w \in Runners |-> FALSE]

At(w, step) == ~ended /\ running[w].pc = step
Goto(w, step) == running' = [running EXCEPT ![w].pc = step]

(* (mutant) Only the window that runs makes way.                           *)
SuspendOwn(w) ==
  /\ minimized' = minimized \cup {w}
  /\ restore' = [restore EXCEPT ![w] = {w}]

(* _suspend_harness_windows: an iconified window is still visible for GTK  *)
(* and is taken into the list as well.                                     *)
Suspend(w) ==
  /\ minimized' = open
  /\ restore' = [restore EXCEPT ![w] = open]

(* Run Selected, Run All and Run Test: the first two return while a batch  *)
(* of this window is active, the button of the third is insensitive.       *)
Run(w, n) ==
  /\ ~ended /\ w \in open \ minimized /\ running[w].pc = "idle" /\ runs < MaxRuns
  /\ w \in Plans => n = 1
  /\ runs' = runs + 1
  /\ running' = [running EXCEPT ![w] = [NoRun EXCEPT !.pc = "settling", !.run = runs + 1, !.total = n]]
  /\ told' = [told EXCEPT ![w] = "running"]
  /\ excused' = [excused EXCEPT ![w] = FALSE]
  /\ asked' = [asked EXCEPT ![runs + 1] = n]
  /\ Suspend(w) /\ UNCHANGED <<open, history, ended, raises, ran, warned>>

(* The worker thread, started after the desktop has settled.               *)
StartWorker(w) ==
  /\ At(w, "settling") /\ Goto(w, IF w \in Projects THEN "opening" ELSE "plan")
  /\ UNCHANGED <<open, minimized, restore, history, told, ended, runs, raises, ran, asked, warned, excused>>

Saved(w, finished) ==
  history' = [history EXCEPT ![running[w].run] =
                [plans |-> running[w].done, finished |-> finished, saved |-> TRUE]]

(* save_batch before the first plan: a failure is outside of the try.      *)
Open(w) ==
  /\ At(w, "opening")
  /\ \/ Saved(w, FALSE) /\ Goto(w, "plan")
     \/ running' = [running EXCEPT ![w].pc = "calling", ![w].error = TRUE] /\ UNCHANGED history
  /\ UNCHANGED <<open, minimized, restore, told, ended, runs, raises, ran, asked, warned, excused>>

(* (mutant) A plan that raised leaves no record.                           *)
RecordOfPassed(done, result) == IF result = "passed" THEN Append(done, result) ELSE done

Record(done, result) == Append(done, result)

(* One plan is loaded and executed; an exception is a failed record of the *)
(* batch, but the error of a plan window's run.                            *)
Execute(w, result) ==
  /\ At(w, "plan")
  /\ ran' = [ran EXCEPT ![running[w].run] = Append(@, result)]
  /\ \/ running' = [running EXCEPT ![w].pc = IF w \in Projects THEN "saving" ELSE "calling",
                                   ![w].done = Record(@, result), ![w].index = @ + 1]
     \/ w \in Plans /\ result = "failed"
        /\ running' = [running EXCEPT ![w].pc = "calling", ![w].error = TRUE]
  /\ UNCHANGED <<open, minimized, restore, history, told, ended, runs, raises, asked, warned, excused>>

(* save_batch after a plan: a failure ends the batch.                      *)
Save(w) ==
  /\ At(w, "saving")
  /\ \/ Saved(w, FALSE)
        /\ Goto(w, IF running[w].index < running[w].total THEN "plan" ELSE "closing")
     \/ running' = [running EXCEPT ![w].pc = "closing", ![w].error = TRUE] /\ UNCHANGED history
  /\ UNCHANGED <<open, minimized, restore, told, ended, runs, raises, ran, asked, warned, excused>>

(* The finally clause: the batch is over, whatever ended it.               *)
Close(w) ==
  /\ At(w, "closing")
  /\ \/ Saved(w, TRUE) /\ Goto(w, "calling")
     \/ running' = [running EXCEPT ![w].pc = "calling", ![w].error = TRUE] /\ UNCHANGED history
  /\ UNCHANGED <<open, minimized, restore, told, ended, runs, raises, ran, asked, warned, excused>>

(* (mutant) The windows come back only after a run without an error.       *)
RestoreOnSuccess(w) ==
  /\ minimized' = IF running[w].error THEN minimized ELSE minimized \ restore[w]
  /\ restore' = [restore EXCEPT ![w] = {}]

(* _restore_harness_windows: the ones of the list that still exist, and    *)
(* the window itself.                                                      *)
Restore(w) ==
  /\ minimized' = minimized \ (restore[w] \cup {w})
  /\ restore' = [restore EXCEPT ![w] = {}]

Verdict(done) == IF \A i \in DOMAIN done : done[i] = "passed" THEN "passed" ELSE "failed"

(* _batch_finished and _run_finished, on the main loop.                    *)
Finished(w) ==
  /\ At(w, "calling")
  /\ told' = [told EXCEPT ![w] = IF running[w].error THEN "error" ELSE Verdict(running[w].done)]
  /\ Goto(w, "idle") /\ Restore(w)
  /\ excused' = [x \in Runners |-> excused[x] \/ (x # w /\ running[x].pc # "idle")]
  /\ warned' = IF running[w].error THEN warned \cup {running[w].run} ELSE warned
  /\ UNCHANGED <<open, history, ended, runs, raises, ran, asked>>

Worker(w) ==
  \/ StartWorker(w) \/ Open(w) \/ Save(w) \/ Close(w) \/ Finished(w)
  \/ \E result \in Results : Execute(w, result)

(* The user brings a minimized window back.                                *)
Raise(w) ==
  /\ ~ended /\ w \in open \cap minimized /\ raises < MaxRaises /\ raises' = raises + 1
  /\ minimized' = minimized \ {w}
  /\ excused' = [x \in Runners |-> excused[x] \/ running[x].pc # "idle"]
  /\ UNCHANGED <<open, running, restore, history, told, ended, runs, ran, asked, warned>>

(* The start window comes back when the project it opened is closed.       *)
Comeback(w) == IF w \in Projects THEN {w, Starter} ELSE {w}

(* A window is closed, and the last one takes the process with it.         *)
CloseWindow(w) ==
  /\ ~ended /\ w \in open
  /\ open' = open \ {w} /\ minimized' = minimized \ Comeback(w)
  /\ ended' = (open = {w})
  /\ excused' = [x \in Runners |-> excused[x] \/ (running[x].pc # "idle" /\ w \in Projects)]
  /\ UNCHANGED <<running, restore, history, told, runs, raises, ran, asked, warned>>

Crash ==
  /\ ~ended /\ ended' = TRUE
  /\ UNCHANGED <<open, minimized, running, restore, history, told, runs, raises, ran, asked, warned, excused>>

Next ==
  \/ \E w \in Runners : Worker(w) \/ \E n \in 1 .. MaxPlans : Run(w, n)
  \/ \E w \in Frames : Raise(w) \/ CloseWindow(w)
  \/ Crash

Spec == Init /\ [][Next]_vars

-----------------------------------------------------------------------------
TypeOK ==
  /\ minimized \subseteq open /\ open \subseteq Frames /\ ended \in BOOLEAN
  /\ \A w \in Runners :
       /\ running[w].pc \in {"idle", "settling", "opening", "plan", "saving", "closing", "calling"}
       /\ restore[w] \subseteq Frames
       /\ told[w] \in {"ready", "running", "passed", "failed", "error"}
  /\ \A r \in 1 .. MaxRuns : history[r].plans \in Seq(Results) /\ ran[r] \in Seq(Results)

(* What is on disk of a batch is what really came of its first plans. A    *)
(* file says that a batch is over only when it ran no more plans, and that *)
(* it passed only when all its plans did or its window reported an error.  *)
(* One that still says "running" belongs to a batch that runs, to a        *)
(* process that is over or to an error that its window reported.           *)
Executing(r) == \E w \in Projects : running[w].run = r /\ running[w].pc \notin {"idle", "calling"}
Reported(r) == r \in warned \/ \E w \in Projects : running[w].run = r /\ running[w].error

BatchTruthful ==
  \A r \in 1 .. MaxRuns : history[r].saved =>
    /\ Len(history[r].plans) <= Len(ran[r])
    /\ \A i \in DOMAIN history[r].plans : history[r].plans[i] = ran[r][i]
    /\ history[r].finished =>
         /\ history[r].plans = ran[r]
         /\ ~Executing(r)
         /\ Verdict(history[r].plans) = "passed" =>
              Reported(r) \/ Len(ran[r]) = asked[r]
    /\ ~history[r].finished => Executing(r) \/ ended \/ Reported(r)

(* While a plan is executed no harness window covers the application,      *)
(* unless the user or the end of another run brought one back; and when no *)
(* run is active every window is back that a run had minimized.            *)
DesktopIsClear ==
  ~ended =>
    /\ \A w \in Runners : running[w].pc = "plan" /\ ~excused[w] => open \subseteq minimized
    /\ (\A w \in Runners : running[w].pc = "idle") => minimized \subseteq {Starter}
=============================================================================
