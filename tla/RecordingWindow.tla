--------------------------- MODULE RecordingWindow ---------------------------
(***************************************************************************)
(* authoring/gui/plan_recording_window.py with the hotkey dispatch of      *)
(* authoring/gui/launcher.py: several Test Plan windows of one process     *)
(* share one recorder. Everything below runs on the GTK main loop, except  *)
(* the worker that stops a session, the X11 hotkey thread and the threads  *)
(* of the recording adapters. A modal dialog runs the main loop inside the *)
(* callback that opened it, so the rest of that callback is a frame on the *)
(* stack "dialogs" and anything may run before it.                         *)
(*                                                                         *)
(* GLib dispatches idle callbacks in the order they were added, and none   *)
(* while an event of the user is waiting.                                  *)
(***************************************************************************)
EXTENDS Integers, Sequences, SequencesExt, FiniteSetsExt

CONSTANTS
  Windows,            \* the Test Plan windows
  NoWindow,
  MaxGenerations,     \* bound on the recordings of all windows
  MaxIdle,            \* bound on queued idle callbacks, for new hotkeys
  MaxDialogs          \* bound on the dialogs a refused start nests

Generations == 0 .. MaxGenerations
None == 0             \* no generation

VARIABLES
  owner,              \* _ACTIVE_RECORDING_WINDOW
  win,                \* the recording attributes of each window
  alive, visible,     \* windows that exist, and those on the screen
  active,             \* _LAST_ACTIVE_WINDOW
  closing,            \* close requests not yet delivered
  idle,               \* idle callbacks queued on the main loop
  dialogs,            \* callbacks suspended in a modal dialog, the innermost last
  workers             \* stop threads: window, generation and result

vars == <<owner, win, alive, visible, active, closing, idle, dialogs, workers>>
desktop == <<alive, visible, active, closing>>

Callback(kind, w, g) == [kind |-> kind, window |-> w, gen |-> g]
Workers == [window : Windows, gen : Generations, result : {"stopping", "ok", "raised"}]

Init ==
  /\ owner = NoWindow
  /\ win = [w \in Windows |->
              [session |-> FALSE, pending |-> FALSE, gen |-> None, watch |-> None,
               stop |-> None, shown |-> FALSE,
               press |-> FALSE, lit |-> FALSE,
               suspended |-> {}]]
  /\ alive = Windows /\ visible = Windows
  /\ active \in Windows
  /\ closing = {} /\ idle = <<>> /\ dialogs = <<>> /\ workers = {}

Open(kind, w) == dialogs' = Append(dialogs, [kind |-> kind, window |-> w])

-----------------------------------------------------------------------------
(* start_recording and stop_recording. Both are called by a click or by a  *)
(* hotkey; "rest" is what is left of the idle queue.                       *)

Busy(w) == win[w].session \/ win[w].pending
Recordings == MapThenSumSet(LAMBDA w : win[w].gen, Windows)

(* No adapter, a session that raises, or a recording of another window.    *)
StartRefused(w, rest) ==
  /\ ~ Busy(w) /\ Len(dialogs) < MaxDialogs
  /\ Open("message", w)
  /\ idle' = rest
  /\ UNCHANGED <<owner, win, desktop, workers>>

(* _show_recording_stop_window, _suspend_recording_windows *)
WithStop(r, g) == [r EXCEPT !.stop = g, !.shown = TRUE]
Suspending(r) == [r EXCEPT !.suspended = visible]

(* session.start() keeps the main loop busy: a click on a close button is  *)
(* delivered after the windows have been hidden.                           *)
Started(w, rest) ==
  /\ LET r == [win[w] EXCEPT !.session = TRUE, !.gen = @ + 1]
     IN win' = [win EXCEPT ![w] = Suspending(WithStop(r, r.gen))]
  /\ owner' = w
  /\ \E late \in SUBSET visible : closing' = closing \union (IF dialogs = <<>> THEN late ELSE {})
  /\ visible' = {}
  /\ idle' = rest
  /\ UNCHANGED <<alive, active, dialogs, workers>>

(* Mutant: the recorder of another window is not looked at. *)
StartBeside(w, rest) ==
  /\ ~ Busy(w) /\ Recordings < MaxGenerations
  /\ Started(w, rest)

StartRecording(w, rest) ==
  /\ ~ Busy(w) /\ owner \in {NoWindow, w} /\ Recordings < MaxGenerations
  /\ Started(w, rest)

StopRecording(w, rest) ==
  /\ win[w].session /\ ~ win[w].pending
  /\ win' = [win EXCEPT ![w].session = FALSE, ![w].pending = TRUE,
                        ![w].watch = win[w].gen]
  /\ idle' = Append(rest, Callback("prepare", w, None))
  /\ workers' = workers \union {[window |-> w, gen |-> win[w].gen, result |-> "stopping"]}
  /\ UNCHANGED <<owner, desktop, dialogs>>

Ignored(rest) == idle' = rest /\ UNCHANGED <<owner, win, desktop, dialogs, workers>>

-----------------------------------------------------------------------------
(* The user. A modal dialog blocks every other window, and input arrives   *)
(* in the order in which it was made.                                      *)

Toggle(w) ==
  /\ w \in visible /\ dialogs = <<>> /\ closing = {}
  /\ StartRecording(w, idle) \/ StartRefused(w, idle)

ClickStop(w) ==
  /\ win[w].stop # None /\ win[w].shown /\ dialogs = <<>> /\ closing = {}
  /\ StopRecording(w, idle)

Focus(w) ==
  /\ w \in visible \ {active}
  /\ active' = w
  /\ UNCHANGED <<owner, win, alive, visible, closing, idle, dialogs, workers>>

RequestClose(w) ==
  /\ w \in visible \ closing /\ dialogs = <<>>
  /\ closing' = closing \union {w}
  /\ UNCHANGED <<owner, win, alive, visible, active, idle, dialogs, workers>>

(* The X11 thread queues the hotkey on the main loop. *)
Hotkey(kind) ==
  /\ Len(idle) < MaxIdle
  /\ idle' = Append(idle, Callback(kind, NoWindow, None))
  /\ UNCHANGED <<owner, win, desktop, dialogs, workers>>

(* A thread of an adapter reports the target of a press: it looks at the   *)
(* session, and queues the highlight when it may have ended. One report at *)
(* a time is a bound.                                                      *)
Reporting == (\E w \in Windows : win[w].press) \/ \E i \in DOMAIN idle : idle[i].kind = "highlight"

TargetResolved(w) ==
  /\ win[w].session /\ ~ win[w].pending /\ ~ Reporting
  /\ win' = [win EXCEPT ![w].press = TRUE]
  /\ UNCHANGED <<owner, desktop, idle, dialogs, workers>>

QueueHighlight(w) ==
  /\ win[w].press
  /\ win' = [win EXCEPT ![w].press = FALSE]
  /\ idle' = Append(idle, Callback("highlight", w, None))
  /\ UNCHANGED <<owner, desktop, dialogs, workers>>

-----------------------------------------------------------------------------
(* Closing. The "delete-event" handler of the base class was connected     *)
(* first: it destroys a window without unsaved changes, and otherwise asks.*)

(* _window_closed of the launcher, _release_recording_owner, and           *)
(* _cancel_recording_completion_watch with the end of the stop control.    *)
LastActive(w) ==
  IF active # w THEN {active} ELSE IF alive = {w} THEN {NoWindow} ELSE alive \ {w}
OwnerWithout(w) == IF owner = w /\ ~ win[w].session THEN NoWindow ELSE owner
Unwatched(r) == [r EXCEPT !.watch = None, !.stop = None, !.shown = FALSE]

Destroyed(w) ==
  /\ alive' = alive \ {w} /\ visible' = visible \ {w}
  /\ active' \in LastActive(w)
  /\ owner' = OwnerWithout(w)
  /\ win' = [win EXCEPT ![w] = Unwatched(@)]
  /\ UNCHANGED <<idle, workers>>

DeliverClose(w) ==
  /\ w \in closing
  /\ closing' = closing \ {w}
  /\ \/ /\ dialogs # <<>> \/ w \notin alive
        /\ UNCHANGED <<owner, win, alive, visible, active, idle, dialogs, workers>>
     \/ /\ dialogs = <<>> /\ w \in alive
        /\ \/ Destroyed(w) /\ UNCHANGED dialogs
           \/ /\ Open("confirm", w)
              /\ UNCHANGED <<owner, win, alive, visible, active, idle, workers>>

-----------------------------------------------------------------------------
(* The worker of a stop and the end of a recording. *)

(* Mutant: a worker whose session raises ends without writing to the pipe. *)
WorkerDies(k) ==
  /\ k.result = "stopping"
  /\ \E rest \in {{}, {[k EXCEPT !.result = "ok"]}} : workers' = (workers \ {k}) \union rest
  /\ UNCHANGED <<owner, win, desktop, idle, dialogs>>

WorkerEnds(k) ==
  /\ k.result = "stopping"
  /\ \E result \in {"ok", "raised"} :
       workers' = (workers \ {k}) \union {[k EXCEPT !.result = result]}
  /\ UNCHANGED <<owner, win, desktop, idle, dialogs>>

(* The tail of _recording_finished, after its dialog if there was one: the *)
(* generation to destroy is read here. The refresh it queues is layout.    *)
DestroyLater(w) == idle' = Append(idle, Callback("destroy", w, win[w].stop))

Released(w) == IF owner = w THEN NoWindow ELSE owner
Shown(w) == visible \union (win[w].suspended \intersect alive)
Finished(w) == [win[w] EXCEPT !.pending = FALSE, !.watch = None, !.suspended = {}]

(* Mutant: the windows are restored only after a recording that succeeded. *)
FinishedForgetfully(w, result) ==
  /\ owner' = Released(w)
  /\ visible' = IF result = "ok" THEN Shown(w) ELSE visible
  /\ \/ Open(IF result = "ok" THEN "review" ELSE "failed", w)
     \/ UNCHANGED dialogs
  /\ win' = [win EXCEPT ![w] = Finished(w)]
  /\ UNCHANGED <<alive, active, closing, idle>>

(* A review that raises leaves the callback: windows and owner are free,   *)
(* the control of this generation stays behind.                            *)
RecordingFinished(w, result) ==
  /\ owner' = Released(w)
  /\ visible' = Shown(w)
  /\ win' = [win EXCEPT ![w] = Finished(w)]
  /\ \/ result = "ok" /\ DestroyLater(w) /\ UNCHANGED dialogs
     \/ Open(IF result = "ok" THEN "review" ELSE "failed", w) /\ UNCHANGED idle
     \/ result = "ok" /\ UNCHANGED <<idle, dialogs>>
  /\ UNCHANGED <<alive, active, closing>>

(* _recording_stop_completion_ready: the completion pipe is readable.      *)
CompletionReady(w) ==
  /\ win[w].watch # None
  /\ \E k \in workers :
       /\ k.window = w /\ k.gen = win[w].watch /\ k.result # "stopping"
       /\ workers' = workers \ {k}
       /\ \/ /\ win[w].watch = win[w].gen
             /\ RecordingFinished(w, k.result)
          \/ /\ win[w].watch # win[w].gen
             /\ win' = [win EXCEPT ![w].watch = None]
             /\ UNCHANGED <<owner, desktop, idle, dialogs>>

DialogCloses ==
  /\ dialogs # <<>>
  /\ dialogs' = Front(dialogs)
  /\ LET w == Last(dialogs).window
         kind == Last(dialogs).kind
     IN \/ /\ kind \in {"review", "failed"}
           /\ DestroyLater(w)
           /\ UNCHANGED <<owner, win, desktop, workers>>
        \/ /\ kind = "confirm" /\ w \in alive
           /\ Destroyed(w) /\ UNCHANGED closing
        \/ /\ kind \in {"message", "confirm"}
           /\ UNCHANGED <<owner, win, desktop, idle, workers>>

-----------------------------------------------------------------------------
(* Idle callbacks *)

(* _prepare_recording_stop_ui: whatever control is current is hidden. *)
Prepare(w) == [win EXCEPT ![w].lit = FALSE, ![w].shown = FALSE]

(* _destroy_recording_stop_window(generation) *)
DestroyStop(w, g) ==
  IF g \in {None, win[w].stop} THEN [win EXCEPT ![w].stop = None, ![w].shown = FALSE] ELSE win

ShowHighlight(w) ==
  IF win[w].session /\ ~ win[w].pending THEN [win EXCEPT ![w].lit = TRUE] ELSE win

Dispatch(rest) ==
  \/ active = NoWindow /\ Ignored(rest)
  \/ /\ active # NoWindow /\ Head(idle).kind = "start"
     /\ \/ (Busy(active) \/ Len(dialogs) >= MaxDialogs) /\ Ignored(rest)
        \/ StartRecording(active, rest)
        \/ StartRefused(active, rest)
  \/ /\ active # NoWindow /\ Head(idle).kind = "stop"
     /\ \/ ~ win[active].session /\ Ignored(rest)
        \/ StopRecording(active, rest)

RunIdle ==
  /\ idle # <<>> /\ closing = {}
  /\ LET c == Head(idle)
         rest == Tail(idle)
         w == c.window
     IN \/ c.kind \in {"start", "stop"} /\ Dispatch(rest)
        \/ /\ c.kind \notin {"start", "stop"}
           /\ win' = CASE c.kind = "prepare" -> Prepare(w)
                       [] c.kind = "destroy" -> DestroyStop(w, c.gen)
                       [] c.kind = "highlight" -> ShowHighlight(w)
           /\ idle' = rest
           /\ UNCHANGED <<owner, desktop, dialogs, workers>>

(* The timeout of a highlight. *)
HighlightExpires(w) ==
  /\ win[w].lit
  /\ win' = [win EXCEPT ![w].lit = FALSE]
  /\ UNCHANGED <<owner, desktop, idle, dialogs, workers>>

User ==
  \/ \E w \in Windows : Toggle(w) \/ ClickStop(w) \/ Focus(w) \/ RequestClose(w)
  \/ \E kind \in {"start", "stop"} : Hotkey(kind)

MainLoop ==
  \/ \E w \in Windows : DeliverClose(w) \/ CompletionReady(w) \/ HighlightExpires(w)
  \/ RunIdle \/ DialogCloses

Next ==
  \/ User \/ MainLoop
  \/ \E k \in workers : WorkerEnds(k)
  \/ \E w \in Windows : TargetResolved(w) \/ QueueHighlight(w)

(* session.stop() returns (CallsReturn of the adapter), and a readable     *)
(* pipe is dispatched. Nobody has to close a dialog.                       *)
Fairness ==
  /\ \A w \in Windows : WF_vars(CompletionReady(w))
  /\ WF_vars(\E k \in workers : WorkerEnds(k))

Spec == Init /\ [][Next]_vars
FairSpec == Spec /\ Fairness

-----------------------------------------------------------------------------
(* Properties *)

(* Every attribute keeps its values; frames and callbacks name windows.    *)
TypeOK ==
  /\ owner \in Windows \union {NoWindow} /\ active \in Windows \union {NoWindow}
  /\ win \in [Windows -> [session : BOOLEAN, pending : BOOLEAN, gen : Generations,
                          watch : Generations, stop : Generations, shown : BOOLEAN, press : BOOLEAN, lit : BOOLEAN,
                          suspended : SUBSET Windows]]
  /\ alive \subseteq Windows /\ visible \subseteq alive /\ closing \subseteq Windows
  /\ workers \subseteq Workers

(* A window that records, or whose session is still being stopped, holds   *)
(* the recorder, across hotkeys, nested dialogs and other windows that are *)
(* closed meanwhile: two windows of the process never record at a time.    *)
OneRecording == \A w \in alive : Busy(w) => owner = w

(* A stop that is pending has its completion watch armed with the current  *)
(* generation, so the early return for a stale completion can never leave  *)
(* the window waiting for ever.                                            *)
CompletionIsCurrent ==
  \A w \in alive : win[w].watch = IF win[w].pending THEN win[w].gen ELSE None

(* Windows hidden for a recording come back when it ends, however it ends, *)
(* unless the window that recorded was closed under its own recording.     *)
NothingStaysHidden ==
  owner = NoWindow =>
    \A v \in alive \ visible : \E w \in Windows \ alive : v \in win[w].suspended

(* A highlight is on the screen only while its window records or the       *)
(* callback that clears it is on its way.                                  *)
HighlightsAreCleared ==
  \A w \in Windows : win[w].lit =>
     win[w].session \/ \E i \in DOMAIN idle : idle[i] = Callback("prepare", w, None)

(* A stop that was asked for comes to an end, whatever the user does with  *)
(* dialogs, hotkeys and other windows, as long as its window exists.       *)
StopCompletes ==
  \A w \in Windows : win[w].pending ~> ~ win[w].pending \/ w \notin alive
=============================================================================
