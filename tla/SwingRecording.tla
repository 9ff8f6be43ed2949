---------------------------- MODULE SwingRecording ----------------------------
(***************************************************************************)
(* Recording in a Swing application: SwingRecorder of the mixed Java agent *)
(* (java-agent/src/java8) with the record operations of AgentServer. The   *)
(* agent hears every mouse event before the component does. Of a press it  *)
(* takes the component under the pointer; of a release only the place, and *)
(* posts a job that looks for the component there after the application    *)
(* has handled the release. Requests come from other threads at any time.  *)
(***************************************************************************)
EXTENDS Naturals, Sequences, FiniteSets

CONSTANTS
  Spots,               \* what may be under the pointer
  MaxClicks,           \* bound on clicks
  MaxRecordings        \* bound on recordings

Clicks == 1 .. MaxClicks
Recordings == 1 .. MaxRecordings

VARIABLES
  under,               \* the component under the pointer
  edt,                 \* the event queue: presses, releases and posted jobs
  holding,             \* the button is down
  clicks,              \* for each click, what was under the pointer when it was made
  moved,               \* clicks after whose press something else came under the pointer
  offering,            \* what the running job has ready, of the buffer it read
  sink, active,        \* SwingRecorder.buffer is set, RecordingBuffer.active
  recording,           \* which recording this is
  server,              \* where record_start or record_stop is
  buffer,              \* the observations not read yet
  taken                \* what the harness got, and in which recording

queueVars == <<edt, holding, clicks>>
serverVars == <<sink, active, recording, server>>
vars == <<under, edt, holding, clicks, moved, offering, sink, active, recording,
          server, buffer, taken>>

NoOffer == <<>>
Event(does, n) == [does |-> does, of |-> n]
Observation(phase, n, spot) == [phase |-> phase, of |-> n, on |-> spot]

Init ==
  /\ under \in Spots /\ edt = <<>> /\ holding = FALSE /\ clicks = <<>> /\ moved = {}
  /\ offering = NoOffer /\ sink = FALSE /\ active = FALSE /\ recording = 0
  /\ server = "idle" /\ buffer = <<>> /\ taken = <<>>

-----------------------------------------------------------------------------
(* The user; events are queued as they happen.                             *)

Press ==
  /\ ~ holding /\ Len(clicks) < MaxClicks
  /\ holding' = TRUE /\ clicks' = Append(clicks, under)
  /\ edt' = Append(edt, Event("press", Len(clicks) + 1))
  /\ UNCHANGED <<under, moved, offering, serverVars, buffer, taken>>

Release ==
  /\ holding /\ holding' = FALSE
  /\ edt' = Append(edt, Event("release", Len(clicks)))
  /\ UNCHANGED <<under, clicks, moved, offering, serverVars, buffer, taken>>

(* The application shows something else there, in answer to a click or by  *)
(* itself; never while a listener of the agent runs.                       *)
Unread == {edt[i].of : i \in DOMAIN edt} \cup IF holding THEN {Len(clicks)} ELSE {}
ChangeUnder ==
  /\ offering = NoOffer
  /\ \E s \in Spots : s # under /\ under' = s
  /\ moved' = moved \cup Unread
  /\ UNCHANGED <<queueVars, offering, serverVars, buffer, taken>>

-----------------------------------------------------------------------------
(* The event dispatch thread: event and processRelease. The buffer is read *)
(* once, and offered to when the target has been described.                *)

Coming == Head(edt)
Offer(o) == IF sink THEN offering' = <<o>> ELSE UNCHANGED offering

HearPress ==
  /\ offering = NoOffer /\ edt # <<>> /\ Coming.does = "press"
  /\ edt' = Tail(edt)
  (* A press on a rendered surface that cannot tell what was hit is kept   *)
  (* back.                                                                 *)
  /\ Offer(Observation("pressed", Coming.of, under)) \/ UNCHANGED offering
  /\ UNCHANGED <<under, holding, clicks, moved, serverVars, buffer, taken>>

HearRelease ==
  /\ offering = NoOffer /\ edt # <<>> /\ Coming.does = "release"
  /\ edt' = Append(Tail(edt), Event("process", Coming.of))
  /\ UNCHANGED <<under, holding, clicks, moved, offering, serverVars, buffer, taken>>

ProcessRelease ==
  /\ offering = NoOffer /\ edt # <<>> /\ Coming.does = "process"
  /\ edt' = Tail(edt)
  /\ Offer(Observation("released", Coming.of, under))
  /\ UNCHANGED <<under, holding, clicks, moved, serverVars, buffer, taken>>

(* RecordingBuffer.offer; every recording uses the same buffer.            *)
EndOffer ==
  /\ offering # NoOffer /\ offering' = NoOffer
  /\ buffer' = IF active THEN buffer \o offering ELSE buffer
  /\ UNCHANGED <<under, queueVars, moved, serverVars, taken>>

-----------------------------------------------------------------------------
(* AgentServer: record_start, record_read and record_stop                  *)

(* Mutant of Drain: the buffer is copied and not cleared.                  *)
Copied ==
  /\ UNCHANGED buffer
  /\ taken' = taken \o [i \in DOMAIN buffer |-> [seen |-> buffer[i], during |-> recording]]

Drain ==
  /\ buffer' = <<>>
  /\ taken' = taken \o [i \in DOMAIN buffer |-> [seen |-> buffer[i], during |-> recording]]

StartBuffer ==
  /\ server = "idle" /\ recording < MaxRecordings
  /\ recording' = recording + 1 /\ active' = TRUE /\ buffer' = <<>> /\ server' = "starting"
  /\ UNCHANGED <<under, queueVars, moved, offering, sink, taken>>

StartRecorder ==
  /\ server = "starting" /\ sink' = TRUE /\ server' = "recording"
  /\ UNCHANGED <<under, queueVars, moved, offering, active, recording, buffer, taken>>

Read ==
  /\ server = "recording" /\ buffer # <<>> /\ Drain
  /\ UNCHANGED <<under, queueVars, moved, offering, serverVars>>

StopRecorder ==
  /\ server = "recording" /\ sink' = FALSE /\ server' = "stopping"
  /\ UNCHANGED <<under, queueVars, moved, offering, active, recording, buffer, taken>>

StopBuffer ==
  /\ server = "stopping" /\ active' = FALSE /\ server' = "idle" /\ Drain
  /\ UNCHANGED <<under, queueVars, moved, offering, sink, recording>>

-----------------------------------------------------------------------------
User == Press \/ Release
DispatchThread == HearPress \/ HearRelease \/ ProcessRelease \/ EndOffer
Server == StartBuffer \/ StartRecorder \/ Read \/ StopRecorder \/ StopBuffer

Next == User \/ ChangeUnder \/ DispatchThread \/ Server

Spec == Init /\ [][Next]_vars

-----------------------------------------------------------------------------
(* Properties *)

TypeOK ==
  /\ under \in Spots /\ edt \in Seq([does : {"press", "release", "process"}, of : Clicks])
  /\ clicks \in Seq(Spots) /\ moved \subseteq Clicks /\ Len(offering) <= 1
  /\ {holding, sink, active} \subseteq BOOLEAN /\ recording \in 0 .. MaxRecordings
  /\ server \in {"idle", "starting", "recording", "stopping"}

Released == {i \in DOMAIN taken : taken[i].seen.phase = "released"}

(* A recorded release names the component that was clicked, unless what is *)
(* under the pointer changed since: a click whose own handler hides its    *)
(* component (a menu item, a card) is recorded on what is then there.      *)
ReleaseNamesClicked ==
  \A i \in Released :
    LET o == taken[i].seen IN o.of \notin moved => o.on = clicks[o.of]

(* Each release is recorded at most once and in the order of the clicks,   *)
(* after its press, whatever requests come in between.                     *)
ReleasesInOrder ==
  /\ \A i, j \in Released : i < j => taken[i].seen.of < taken[j].seen.of
  /\ \A i \in Released, j \in DOMAIN taken :
       taken[j].seen.phase = "pressed" /\ taken[j].seen.of = taken[i].seen.of => j < i
=============================================================================
