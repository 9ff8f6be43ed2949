------------------------------ MODULE MCAdapters ------------------------------
(***************************************************************************)
(* What hears the user of a tested application, checked side by side: the  *)
(* AT-SPI adapter, the JavaFX adapter with its agents, and the recorder in *)
(* a Swing application. A behaviour belongs to one of them, "part", and    *)
(* leaves the variables of the others alone. They share no state.          *)
(***************************************************************************)
EXTENDS AtspiAdapter

CONSTANTS
  Limit, MaxEvents, MaxRecordings, Spots, MaxClicks

(* Bounds of runs are counts, and a buffer holds something.                *)
ASSUME LimitsAssumption == Limit \in Nat \ {0} /\ MaxEvents \in Nat /\ MaxRecordings \in Nat

VARIABLES
  part, faults, tabs, phase, emit, stopping, reader, batch, rest, straggler,
  sink, active, buffer, failure, posted, listening, offering, happened,
  heard, emitted, under, edt, holding, clicks, moved, recording, server,
  taken

Fx == INSTANCE JavaFxRecording
Swing == INSTANCE SwingRecording

(* The variables that only one part has, and their value in the others.    *)
Absent == 0

onlyAdapter == vars
NoAdapter == Init /\ ~atspi

onlyFx == <<faults, tabs, phase, emit, stopping, reader, batch, rest, straggler,
  failure, posted, listening, happened, heard, emitted>>
NoFx ==
  /\ faults = Absent /\ tabs = Absent /\ phase = Absent /\ emit = Absent
  /\ stopping = Absent /\ reader = Absent /\ batch = Absent /\ rest = Absent
  /\ straggler = Absent /\ failure = Absent /\ posted = Absent
  /\ listening = Absent /\ happened = Absent /\ heard = Absent
  /\ emitted = Absent

onlySwing == <<under, edt, holding, clicks, moved, recording, server, taken>>
NoSwing ==
  /\ under = Absent /\ edt = Absent /\ holding = Absent /\ clicks = Absent
  /\ moved = Absent /\ recording = Absent /\ server = Absent
  /\ taken = Absent

AdaptersInit ==
  \/ part = "atspi" /\ Init
     /\ NoFx /\ NoSwing /\ sink = Absent /\ active = Absent
     /\ buffer = Absent /\ offering = Absent
  \/ part = "javafx" /\ Fx!Init
     /\ NoAdapter /\ NoSwing
  \/ part = "swing" /\ Swing!Init
     /\ NoAdapter /\ NoFx

AdaptersNext ==
  /\ UNCHANGED part
  /\ \/ part = "atspi" /\ Next
        /\ UNCHANGED <<onlyFx, onlySwing, sink, active, buffer, offering>>
     \/ part = "javafx" /\ Fx!Next
        /\ UNCHANGED <<onlyAdapter, onlySwing>>
     \/ part = "swing" /\ Swing!Next
        /\ UNCHANGED <<onlyAdapter, onlyFx>>

all == <<part, onlyAdapter, onlyFx, onlySwing, sink, active, buffer,
          offering>>

AdaptersSpec == AdaptersInit /\ [][AdaptersNext]_all

(* As in AtspiAdapter: start and stop run on a thread of their own, and    *)
(* every wait in them is bounded.                                          *)
FairSpec == AdaptersSpec /\ WF_vars(part = "atspi" /\ (Starting \/ Stopping))

-----------------------------------------------------------------------------
(* What the recording buffer took and did not drop is published, in the    *)
(* order and the recording it happened in, and never after the stop (see   *)
(* JavaFxRecording): reader thread, long poll, abandoned record_stop.      *)
PublishedAsHeard == part = "javafx" => Fx!HeardIsPublished /\ Fx!PublishedInOrder
StopIsFinal == [][part = "javafx" => Fx!StoppedIsSilent]_all

(* Released clicks are recorded in order, and name the component that was  *)
(* clicked (see SwingRecording).                                           *)
ReleasesRecorded == part = "swing" => Swing!ReleaseNamesClicked /\ Swing!ReleasesInOrder
=============================================================================
