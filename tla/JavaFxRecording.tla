--------------------------- MODULE JavaFxRecording ---------------------------
(***************************************************************************)
(* recording/adapters/javafx.py and the in-process agent it reads from     *)
(* (RecordingBuffer, AgentServer, JavaFxRecorder). The JavaFX thread of    *)
(* the recorded application offers observations to a bounded buffer; a     *)
(* reader thread of the adapter polls it and publishes what it gets; a     *)
(* stop joins the reader for a limited time, drains the buffer and         *)
(* publishes the rest itself.                                              *)
(*                                                                         *)
(* There are two agents. The dedicated one for tab selections              *)
(* (AutomationHarnessJavaFxAgent) does the same with another buffer: it    *)
(* refuses to be started twice, fails instead of dropping anything, and    *)
(* starts, stops and removes its listeners on the JavaFX thread.           *)
(*                                                                         *)
(* An agent lives as long as the application. Every recording has an       *)
(* adapter of its own, and a reader that was given up may outlive it.      *)
(* Observations are numbered as they happen.                               *)
(***************************************************************************)
EXTENDS Naturals, Sequences, FiniteSets

CONSTANTS
  Limit,               \* RecordingBuffer.LIMIT
  MaxEvents,           \* bound on what happens in the application
  MaxRecordings        \* bound on recordings

Recordings == 1 .. MaxRecordings
Events == 1 .. MaxEvents
NoRecording == 0

(* What may go wrong in a behaviour: the reader needs longer than the join *)
(* waits for it; requests and the conversion of an observation raise.      *)
Faults == {"slow", "failing"}

VARIABLES
  faults,
  tabs,                \* the agent is the dedicated one
  phase,               \* of each adapter's start and stop
  emit, stopping,      \* _emit is set; _stopping
  reader, batch,       \* each adapter's reader thread, what it has in hand
  rest,                \* what record_stop returned and is not published yet
  straggler,           \* a record_stop the client gave up is still to be executed
  sink, active,        \* JavaFxRecorder.buffer is set; RecordingBuffer.active
  buffer,              \* RecordingBuffer.events, TAB_RECORD_EVENTS
  failure,             \* TAB_RECORD_FAILURE is set
  posted, listening,   \* attachOpenScenes is queued; listeners are installed
  offering,            \* the JavaFX thread is past the check of offer()
  happened,            \* observations so far
  heard,               \* the recording in which the buffer took each
  emitted              \* what the adapters published

adapterVars == <<phase, emit, stopping, reader, batch, rest>>
agentVars == <<straggler, sink, active, buffer, failure>>
fxVars == <<posted, listening, offering, happened, heard>>
setup == <<faults, tabs>>
vars == <<setup, adapterVars, agentVars, fxVars, emitted>>

Init ==
  /\ faults \in SUBSET Faults /\ tabs \in BOOLEAN
  /\ phase = [g \in Recordings |-> "new"]
  /\ emit = [g \in Recordings |-> FALSE] /\ stopping = [g \in Recordings |-> FALSE]
  /\ reader = [g \in Recordings |-> "off"] /\ batch = [g \in Recordings |-> <<>>]
  /\ rest = <<>> /\ straggler = FALSE
  /\ sink = FALSE /\ active = FALSE /\ buffer = <<>> /\ failure = FALSE
  /\ posted = FALSE /\ listening = FALSE /\ offering = FALSE
  /\ happened = 0 /\ heard = [n \in Events |-> NoRecording]
  /\ emitted = <<>>

Over == {"stopped", "stop_failed"}
Publish(n, g) == emitted' = Append(emitted, [of |-> n, during |-> g])

-----------------------------------------------------------------------------
(* The JavaFX thread *)

Attach ==
  /\ posted /\ ~ offering
  /\ posted' = FALSE /\ listening' = TRUE
  /\ UNCHANGED <<setup, adapterVars, agentVars, offering, happened, heard, emitted>>

Happens ==
  /\ listening /\ ~ offering /\ happened < MaxEvents
  /\ happened' = happened + 1
  /\ offering' = sink
  /\ UNCHANGED <<setup, adapterVars, agentVars, posted, listening, heard, emitted>>

Heard ==
  heard' = [heard EXCEPT ![happened] =
    LET running == {g \in Recordings : phase[g] \notin Over \cup {"new", "starting"}
                                       /\ (phase[g] = "started" => tabs)}
    IN IF running = {} THEN NoRecording ELSE CHOOSE g \in running : TRUE]

(* offer() reads the reference a second time: a stop in between makes it   *)
(* raise in the application. What arrives before record_start was answered *)
(* is not counted as heard: the answer that carries it is ignored.         *)
Offer ==
  /\ offering /\ ~ tabs /\ offering' = FALSE
  /\ \/ /\ sink /\ active
        /\ buffer' = Append(IF Len(buffer) = Limit THEN Tail(buffer) ELSE buffer, happened)
        /\ Heard
     \/ ~ (sink /\ active) /\ UNCHANGED <<buffer, heard>>
  /\ UNCHANGED <<setup, adapterVars, straggler, sink, active, failure, posted, listening, happened, emitted>>

(* Mutant: the dedicated agent drops the oldest selection, too. *)
OfferTabDropping ==
  /\ offering /\ tabs /\ offering' = FALSE
  /\ buffer' = Append(IF Len(buffer) = Limit THEN Tail(buffer) ELSE buffer, happened)
  /\ Heard
  /\ UNCHANGED <<setup, adapterVars, straggler, sink, active, failure, posted, listening, happened, emitted>>

(* observeTabSelection *)
OfferTab ==
  /\ offering /\ tabs /\ offering' = FALSE
  /\ IF Len(buffer) < Limit
     THEN /\ buffer' = Append(buffer, happened)
          /\ Heard /\ UNCHANGED <<sink, active, failure>>
     ELSE /\ buffer' = <<>> /\ sink' = FALSE /\ active' = FALSE /\ failure' = TRUE
          /\ Heard
  /\ UNCHANGED <<setup, adapterVars, straggler, posted, listening, happened, emitted>>

-----------------------------------------------------------------------------
(* start *)

Start(g) ==
  /\ phase[g] = "new" /\ \A h \in Recordings : h < g => phase[h] \in Over
  /\ phase' = [phase EXCEPT ![g] = "starting"]
  /\ emit' = [emit EXCEPT ![g] = TRUE]
  /\ UNCHANGED <<setup, stopping, reader, batch, rest, agentVars, fxVars, emitted>>

AgentStarts(g) ==
  /\ phase[g] = "starting" /\ ~ (tabs /\ (active \/ offering))
  /\ phase' = [phase EXCEPT ![g] = "started"]
  /\ buffer' = <<>> /\ active' = TRUE /\ sink' = TRUE /\ failure' = FALSE
  /\ posted' = ~ tabs /\ listening' = (listening \/ tabs)
  /\ UNCHANGED <<setup, emit, stopping, reader, batch, rest, straggler, offering,
                 happened, heard, emitted>>

(* The answer carries what was offered meanwhile; the adapter ignores it.  *)
AgentAnswers(g) ==
  /\ phase[g] = "started"
  /\ phase' = [phase EXCEPT ![g] = "live"]
  /\ buffer' = IF tabs THEN buffer ELSE <<>>
  /\ reader' = [reader EXCEPT ![g] = "top"]
  /\ UNCHANGED <<setup, emit, stopping, batch, rest, straggler, sink, active, failure, fxVars, emitted>>

(* The session stops every adapter when one of them failed to start; the   *)
(* dedicated agent refuses to start while it is still active.              *)
StartFails(g) ==
  /\ \/ "failing" \in faults /\ phase[g] \in {"starting", "started"}
     \/ tabs /\ active /\ phase[g] = "starting"
  /\ phase' = [phase EXCEPT ![g] = "closing"]
  /\ stopping' = [stopping EXCEPT ![g] = TRUE]
  /\ UNCHANGED <<setup, emit, reader, batch, rest, agentVars, fxVars, emitted>>

-----------------------------------------------------------------------------
(* _read_loop and _emit_events *)

Poll(g) ==
  /\ reader[g] = "top"
  /\ reader' = [reader EXCEPT ![g] = IF stopping[g] THEN "ended" ELSE "reading"]
  /\ posted' = (posted \/ (~ stopping[g] /\ sink /\ active /\ ~ tabs))
  /\ UNCHANGED <<setup, phase, emit, stopping, batch, rest, agentVars, listening, offering,
                 happened, heard, emitted>>

(* awaitAndDrain ends with something in the buffer, at its timeout or when *)
(* the recording is stopped.                                               *)
AgentReads(g) ==
  /\ reader[g] = "reading" /\ ~ failure
  /\ reader' = [reader EXCEPT ![g] = "emitting"]
  /\ batch' = [batch EXCEPT ![g] = buffer] /\ buffer' = <<>>
  /\ UNCHANGED <<setup, phase, emit, stopping, rest, straggler, sink, active, failure, fxVars, emitted>>

(* Mutant: the reader stops as soon as it is asked to. *)
PublishNextUnlessStopping(g) ==
  /\ reader[g] = "emitting" /\ batch[g] # <<>>
  /\ emit[g]
  /\ IF stopping[g] THEN batch' = [batch EXCEPT ![g] = <<>>] /\ UNCHANGED emitted
     ELSE Publish(Head(batch[g]), g) /\ batch' = [batch EXCEPT ![g] = Tail(@)]
  /\ UNCHANGED <<setup, phase, emit, stopping, reader, rest, agentVars, fxVars>>

PublishNext(g) ==
  /\ reader[g] = "emitting" /\ batch[g] # <<>>
  /\ emit[g]
  /\ Publish(Head(batch[g]), g) /\ batch' = [batch EXCEPT ![g] = Tail(@)]
  /\ UNCHANGED <<setup, phase, emit, stopping, reader, rest, agentVars, fxVars>>

BatchDone(g) ==
  /\ reader[g] = "emitting" /\ batch[g] = <<>>
  /\ reader' = [reader EXCEPT ![g] = "top"]
  /\ UNCHANGED <<setup, phase, emit, stopping, batch, rest, agentVars, fxVars, emitted>>

GivesUp(g) ==
  /\ reader' = [reader EXCEPT ![g] = "ended"] /\ batch' = [batch EXCEPT ![g] = <<>>]
  /\ stopping' = [stopping EXCEPT ![g] = TRUE]

(* A request fails, before or after the agent drained its buffer; an       *)
(* observation cannot be converted; _emit was reset by a stop that gave up *)
(* waiting. The reader ends without a word and drops what it has in hand.  *)
ReadFails(g) ==
  /\ \/ "failing" \in faults /\ reader[g] = "reading" /\ buffer' \in {buffer, <<>>}
     \/ "failing" \in faults /\ reader[g] = "emitting" /\ UNCHANGED buffer
     \/ reader[g] = "emitting" /\ ~ emit[g] /\ UNCHANGED buffer
  /\ GivesUp(g)
  /\ UNCHANGED <<setup, phase, emit, rest, straggler, sink, active, failure, fxVars, emitted>>

(* The dedicated agent reports what made it give up. *)
ReadRefused(g) ==
  /\ reader[g] = "reading" /\ failure
  /\ GivesUp(g)
  /\ UNCHANGED <<setup, phase, emit, rest, agentVars, fxVars, emitted>>

-----------------------------------------------------------------------------
(* stop *)

Stop(g) ==
  /\ phase[g] = "live"
  /\ phase' = [phase EXCEPT ![g] = "joining"]
  /\ stopping' = [stopping EXCEPT ![g] = TRUE]
  /\ UNCHANGED <<setup, emit, reader, batch, rest, agentVars, fxVars, emitted>>

Joined(g) ==
  /\ phase[g] = "joining" /\ (reader[g] = "ended" \/ "slow" \in faults)
  /\ phase' = [phase EXCEPT ![g] = "closing"]
  /\ UNCHANGED <<setup, emit, stopping, reader, batch, rest, agentVars, fxVars, emitted>>

StopsRecording ==
  /\ sink' = FALSE /\ active' = FALSE /\ buffer' = <<>> /\ failure' = FALSE
  /\ listening' = (listening /\ ~ tabs)
  /\ UNCHANGED <<posted, offering, happened, heard>>

AgentStops(g) ==
  /\ phase[g] = "closing" /\ ~ failure /\ ~ (tabs /\ offering)
  /\ phase' = [phase EXCEPT ![g] = "draining"]
  /\ StopsRecording /\ rest' = buffer
  /\ UNCHANGED <<setup, emit, stopping, reader, batch, straggler, emitted>>

(* record_stop raises: it was not executed, its answer was lost, it will   *)
(* be executed after the client gave up, or the dedicated agent had failed.*)
StopFails(g) ==
  /\ phase[g] = "closing" /\ ~ (tabs /\ offering)
  /\ phase' = [phase EXCEPT ![g] = "stop_failed"]
  /\ \/ "failing" \in faults /\ UNCHANGED <<agentVars, fxVars>>
     \/ "failing" \in faults /\ straggler' = TRUE /\ UNCHANGED <<sink, active, buffer, failure, fxVars>>
     \/ ("failing" \in faults \/ failure) /\ StopsRecording /\ UNCHANGED straggler
  /\ UNCHANGED <<setup, emit, stopping, reader, batch, rest, emitted>>

Straggle ==
  /\ straggler /\ straggler' = FALSE /\ ~ (tabs /\ offering)
  /\ StopsRecording
  /\ UNCHANGED <<setup, adapterVars, emitted>>

PublishRest(g) ==
  /\ phase[g] = "draining" /\ rest # <<>>
  /\ Publish(Head(rest), g) /\ rest' = Tail(rest)
  /\ UNCHANGED <<setup, phase, emit, stopping, reader, batch, agentVars, fxVars>>

RestRaises(g) ==
  /\ "failing" \in faults /\ phase[g] = "draining" /\ rest # <<>>
  /\ phase' = [phase EXCEPT ![g] = "stop_failed"] /\ rest' = <<>>
  /\ UNCHANGED <<setup, emit, stopping, reader, batch, agentVars, fxVars, emitted>>

(* Mutant: _emit stays set. *)
StoppedOpen(g) ==
  /\ phase[g] = "draining" /\ rest = <<>>
  /\ phase' = [phase EXCEPT ![g] = "stopped"]
  /\ UNCHANGED <<setup, emit, stopping, reader, batch, rest, agentVars, fxVars, emitted>>

Stopped(g) ==
  /\ phase[g] = "draining" /\ rest = <<>>
  /\ phase' = [phase EXCEPT ![g] = "stopped"]
  /\ emit' = [emit EXCEPT ![g] = FALSE]
  /\ UNCHANGED <<setup, stopping, reader, batch, rest, agentVars, fxVars, emitted>>

-----------------------------------------------------------------------------
Reading(g) == Poll(g) \/ AgentReads(g) \/ PublishNext(g) \/ BatchDone(g) \/ ReadFails(g)
              \/ ReadRefused(g)
Starting(g) == Start(g) \/ AgentStarts(g) \/ AgentAnswers(g) \/ StartFails(g)
Stopping(g) ==
  \/ Joined(g) \/ AgentStops(g) \/ StopFails(g) \/ PublishRest(g) \/ RestRaises(g) \/ Stopped(g)

Next ==
  \/ Attach \/ Happens \/ Offer \/ OfferTab \/ Straggle
  \/ \E g \in Recordings : Starting(g) \/ Reading(g) \/ Stop(g) \/ Stopping(g)

Spec == Init /\ [][Next]_vars

-----------------------------------------------------------------------------
(* Properties *)

TypeOK ==
  /\ faults \subseteq Faults
  /\ phase \in [Recordings -> Over \cup {"new", "starting", "started", "live", "joining",
                                         "closing", "draining"}]
  /\ emit \in [Recordings -> BOOLEAN] /\ stopping \in [Recordings -> BOOLEAN]
  /\ reader \in [Recordings -> {"off", "top", "reading", "emitting", "ended"}]
  /\ batch \in [Recordings -> Seq(Events)] /\ rest \in Seq(Events) /\ buffer \in Seq(Events)
  /\ Len(buffer) <= Limit /\ (sink => active)
  /\ {tabs, failure, straggler, sink, active, posted, listening, offering} \subseteq BOOLEAN
  /\ happened \in 0 .. MaxEvents /\ heard \in [Events -> 0 .. MaxRecordings]
  /\ emitted \in Seq([of : Events, during : Recordings])

InRecording(g) == {i \in DOMAIN emitted : emitted[i].during = g}

(* When neither the transport nor the reader misbehaves, a stop that       *)
(* returns leaves nothing behind: what the agent heard during a recording  *)
(* was published by it, except what fell out of a full buffer, and then at *)
(* least a bufferful followed it; the dedicated agent never loses any.     *)
HeardIsPublished ==
  faults = {} => \A g \in Recordings : phase[g] = "stopped" =>
    \A n \in Events : heard[n] = g =>
      \/ \E i \in InRecording(g) : emitted[i].of = n
      \/ Cardinality({k \in n + 1 .. happened : heard[k] = g}) >= Limit /\ ~ tabs

(* No observation is published twice or for another recording than the one *)
(* that heard it, and they come in the order in which they happened. Two   *)
(* exceptions: a reader that outlived the join publishes alternately with  *)
(* the stop, and takes observations of the next recording with it; a start *)
(* that failed is stopped and reports what an earlier recording whose stop *)
(* failed left in the agent.                                               *)
PublishedInOrder ==
  /\ \A i, j \in DOMAIN emitted : i # j => emitted[i].of # emitted[j].of
  /\ "slow" \notin faults =>
       \A i, j \in DOMAIN emitted :
         /\ i < j => emitted[i].of < emitted[j].of
         /\ reader[emitted[i].during] # "off" => heard[emitted[i].of] = emitted[i].during

(* Nothing is published by an adapter whose stop returned, not even by a   *)
(* reader it stopped waiting for.                                          *)
StoppedIsSilent ==
  \A g \in Recordings : phase[g] = "stopped" =>
    \A i \in DOMAIN emitted' : emitted'[i].during = g => i \in DOMAIN emitted
StopIsFinal == [][StoppedIsSilent]_vars
=============================================================================
