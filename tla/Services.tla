------------------------------- MODULE Services -------------------------------
(***************************************************************************)
(* Parts of the harness that outlive one recording or one run, checked     *)
(* side by side: a behaviour belongs to one part, and leaves the variables *)
(* of the others alone. They share no state in the code.                   *)
(***************************************************************************)
EXTENDS AtspiRegistry

CONSTANTS
  Windows, NoWindow, MaxGenerations, MaxIdle, MaxDialogs, MaxSessions,
  MaxCommands,
  Projects, Plans, Starter, MaxRuns, MaxPlans, MaxRaises

VARIABLES
  part, owner, win, alive, visible, active, closing, idle, dialogs, workers,
  hazards, activeFile, manifest, stopFile, supervisor, stopSent, app,
  command, commands, open, minimized, running, restore, history, told,
  ended, runs, raises, ran, asked, warned, excused

Recorder == INSTANCE RecordingWindow
Runtime == INSTANCE CodexRuntime
Runs == INSTANCE DesktopRuns

ASSUME RecorderAssumption == NoWindow \notin Windows
ASSUME RuntimeAssumption == MaxSessions \in Nat
ASSUME RunsAssumption == Projects \cap Plans = {} /\ MaxRuns \in Nat

(* The variables that only one part has, and their value in the others.    *)
Absent == 0

onlyRegistry == vars
NoRegistry == Init

onlyRecorder == <<owner, win, alive, visible, active, closing, idle, dialogs, workers>>
NoRecorder ==
  /\ owner = Absent /\ win = Absent /\ alive = Absent /\ visible = Absent
  /\ active = Absent /\ closing = Absent /\ idle = Absent /\ dialogs = Absent
  /\ workers = Absent

onlyRuntime == <<hazards, activeFile, manifest, stopFile, supervisor, stopSent, app,
  command, commands>>
NoRuntime ==
  /\ hazards = Absent /\ activeFile = Absent /\ manifest = Absent
  /\ stopFile = Absent /\ supervisor = Absent /\ stopSent = Absent
  /\ app = Absent /\ command = Absent /\ commands = Absent

onlyRuns == <<open, minimized, running, restore, history, told, ended, runs, raises,
  ran, asked, warned, excused>>
NoRuns ==
  /\ open = Absent /\ minimized = Absent /\ running = Absent
  /\ restore = Absent /\ history = Absent /\ told = Absent /\ ended = Absent
  /\ runs = Absent /\ raises = Absent /\ ran = Absent /\ asked = Absent
  /\ warned = Absent /\ excused = Absent

ServicesInit ==
  \/ part = "registry" /\ Init
     /\ NoRecorder /\ NoRuntime /\ NoRuns
  \/ part = "window" /\ Recorder!Init
     /\ NoRegistry /\ NoRuntime /\ NoRuns
  \/ part = "runtime" /\ Runtime!Init
     /\ NoRegistry /\ NoRecorder /\ NoRuns
  \/ part = "runs" /\ Runs!Init
     /\ NoRegistry /\ NoRecorder /\ NoRuntime

ServicesNext ==
  /\ UNCHANGED part
  /\ \/ part = "registry" /\ Next
        /\ UNCHANGED <<onlyRecorder, onlyRuntime, onlyRuns>>
     \/ part = "window" /\ Recorder!Next
        /\ UNCHANGED <<onlyRegistry, onlyRuntime, onlyRuns>>
     \/ part = "runtime" /\ Runtime!Next
        /\ UNCHANGED <<onlyRegistry, onlyRecorder, onlyRuns>>
     \/ part = "runs" /\ Runs!Next
        /\ UNCHANGED <<onlyRegistry, onlyRecorder, onlyRuntime>>

all == <<part, onlyRegistry, onlyRecorder, onlyRuntime, onlyRuns>>

ServicesSpec == ServicesInit /\ [][ServicesNext]_all

-----------------------------------------------------------------------------
(* At most one window records (see RecordingWindow).                       *)
OneRecording == part = "window" => Recorder!OneRecording

(* After a recording, windows, highlights and pending stops are left as    *)
(* they should be (see RecordingWindow). A run's desktop is clear of       *)
(* harness windows, which come back after it (see DesktopRuns).            *)
StopLeavesNothing ==
  /\ part = "window" =>
       Recorder!CompletionIsCurrent /\ Recorder!NothingStaysHidden /\ Recorder!HighlightsAreCleared
  /\ part = "runs" => Runs!DesktopIsClear

(* What files say of processes is true: one supervised application, no     *)
(* manifest that gives up on a running one (see CodexRuntime), and a       *)
(* history of a batch that claims what its plans did (see DesktopRuns).    *)
StatusIsTrue ==
  /\ part = "runtime" => Runtime!OneApplication /\ Runtime!FinalIsOver
  /\ part = "runs" => Runs!BatchTruthful
=============================================================================
