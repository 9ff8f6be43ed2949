------------------------------ MODULE NextClick ------------------------------
(***************************************************************************)
(* JavaFxBridgeDriver.capture_next_click and captureNextClick of the       *)
(* JavaFX automation agent. A capture asks every JVM with a bridge for its *)
(* next click, each from a worker thread of its own, and takes the first   *)
(* answer that has a node. The requests it does not need any more are not  *)
(* cancelled: they stay armed in their JVM until a click or their timeout. *)
(***************************************************************************)
EXTENDS Naturals, Sequences, FiniteSets

CONSTANTS
  Endpoints,           \* JVMs with a bridge
  MaxCaptures,         \* bound on captures
  MaxClicks            \* bound on the clicks of the user

Captures == 1 .. MaxCaptures
Requests == Captures \X Endpoints
NoClick == 0

(* "busy": the JavaFX thread of a JVM may not answer in time. *)
Faults == {"busy"}

VARIABLES
  faults,
  driver,              \* each capture: new, waiting, captured, failed or refused
  results,             \* its queue of answers: a click, or NoClick for an error
  remaining,           \* how many it still waits for
  outcome,             \* the click it returned
  request,             \* each request in its JVM: none, sent, armed or answered
  caught,              \* the click it captured
  claimed,             \* NEXT_CLICK_CAPTURE_ACTIVE of each JVM
  clicks               \* for each click of the user, the capture it was meant for

driverVars == <<driver, results, remaining, outcome>>
agentVars == <<request, caught, claimed>>
vars == <<faults, driver, results, remaining, outcome, request, caught, claimed, clicks>>

Init ==
  /\ faults \in SUBSET Faults
  /\ driver = [c \in Captures |-> "new"] /\ results = [c \in Captures |-> <<>>]
  /\ remaining = [c \in Captures |-> 0] /\ outcome = [c \in Captures |-> NoClick]
  /\ request = [r \in Requests |-> "none"] /\ caught = [r \in Requests |-> NoClick]
  /\ claimed = [e \in Endpoints |-> FALSE]
  /\ clicks = <<>>

Waiting == {c \in Captures : driver[c] = "waiting"}

-----------------------------------------------------------------------------
(* The driver. Its lock admits one capture at a time. *)

StartCapture(c) ==
  /\ driver[c] = "new" /\ \A b \in Captures : b < c => driver[b] # "new"
  /\ IF Waiting = {}
     THEN /\ driver' = [driver EXCEPT ![c] = "waiting"]
          /\ remaining' = [remaining EXCEPT ![c] = Cardinality(Endpoints)]
          /\ request' = [r \in Requests |-> IF r[1] = c THEN "sent" ELSE request[r]]
     ELSE driver' = [driver EXCEPT ![c] = "refused"] /\ UNCHANGED <<remaining, request>>
  /\ UNCHANGED <<faults, results, outcome, caught, claimed, clicks>>

TakeResult(c) ==
  /\ driver[c] = "waiting" /\ results[c] # <<>>
  /\ outcome' = [outcome EXCEPT ![c] = Head(results[c])]
  /\ driver' = [driver EXCEPT ![c] =
       IF Head(results[c]) # NoClick THEN "captured"
       ELSE IF remaining[c] = 1 THEN "failed" ELSE "waiting"]
  /\ results' = [results EXCEPT ![c] = Tail(@)]
  /\ remaining' = [remaining EXCEPT ![c] = @ - 1]
  /\ UNCHANGED <<faults, agentVars, clicks>>

(* The deadline of the capture is later than those of its requests. *)
GiveUp(c) ==
  /\ driver[c] = "waiting" /\ "busy" \in faults
  /\ driver' = [driver EXCEPT ![c] = "failed"]
  /\ UNCHANGED <<faults, results, remaining, outcome, agentVars, clicks>>

-----------------------------------------------------------------------------
(* captureNextClick, run by the worker's request in its JVM *)

(* What a request brings back goes to the queue of its own capture, which  *)
(* nobody reads any more once the capture has returned.                    *)
Answer(r, click) ==
  /\ request' = [request EXCEPT ![r] = "answered"]
  /\ results' = [results EXCEPT ![r[1]] = IF driver[r[1]] = "waiting" THEN Append(@, click) ELSE @]

Claim(r) ==
  /\ request[r] = "sent"
  /\ IF claimed[r[2]]
     THEN Answer(r, NoClick) /\ UNCHANGED claimed
     ELSE /\ request' = [request EXCEPT ![r] = "armed"]
          /\ claimed' = [claimed EXCEPT ![r[2]] = TRUE]
          /\ UNCHANGED results
  /\ UNCHANGED <<faults, driver, remaining, outcome, caught, clicks>>

(* The filters are installed again every 100 ms, for scenes that are new.  *)
(* When the JavaFX thread does not do so in time, the exception leaves     *)
(* before the block that would release the claim.                          *)
InstallFails(r) ==
  /\ "busy" \in faults /\ request[r] = "armed"
  /\ Answer(r, NoClick)
  /\ UNCHANGED <<faults, driver, remaining, outcome, caught, claimed, clicks>>

(* The user clicks because a capture asks for it. *)
Click(e) ==
  /\ Len(clicks) < MaxClicks
  /\ \E c \in Waiting :
       /\ clicks' = Append(clicks, c)
       /\ caught' = [r \in Requests |->
            IF r[2] = e /\ request[r] = "armed" /\ caught[r] = NoClick THEN Len(clicks) + 1 ELSE caught[r]]
  /\ UNCHANGED <<faults, driverVars, request, claimed>>

(* Mutant: only a capture gives the claim back. *)
FinishKeeping(r) ==
  /\ request[r] = "armed"
  /\ Answer(r, caught[r])
  /\ claimed' = [claimed EXCEPT ![r[2]] = caught[r] = NoClick]
  /\ UNCHANGED <<faults, driver, remaining, outcome, caught, clicks>>

(* A click was caught, or the time is over: the filters are removed if the *)
(* JavaFX thread answers, and in any case the claim is given back.         *)
Finish(r) ==
  /\ request[r] = "armed"
  /\ Answer(r, caught[r])
  /\ claimed' = [claimed EXCEPT ![r[2]] = FALSE]
  /\ UNCHANGED <<faults, driver, remaining, outcome, caught, clicks>>

-----------------------------------------------------------------------------
Agent(r) == Claim(r) \/ InstallFails(r) \/ Finish(r)

Next ==
  \/ \E c \in Captures : StartCapture(c) \/ TakeResult(c) \/ GiveUp(c)
  \/ \E r \in Requests : Agent(r)
  \/ \E e \in Endpoints : Click(e)

Spec == Init /\ [][Next]_vars

-----------------------------------------------------------------------------
(* Properties *)

TypeOK ==
  /\ driver \in [Captures -> {"new", "waiting", "captured", "failed", "refused"}]
  /\ \A c \in Captures : results[c] \in Seq(0 .. MaxClicks)
  /\ remaining \in [Captures -> 0 .. Cardinality(Endpoints)]
  /\ outcome \in [Captures -> 0 .. MaxClicks] /\ caught \in [Requests -> 0 .. MaxClicks]
  /\ request \in [Requests -> {"none", "sent", "armed", "answered"}]
  /\ claimed \in [Endpoints -> BOOLEAN]
  /\ clicks \in Seq(Captures)

(* The requests of a capture that was answered elsewhere stay armed, so    *)
(* this is about several captures: a JVM arms at most one request, and is  *)
(* free for the next capture when no request is armed in it, unless its    *)
(* JavaFX thread once failed to answer: then the claim stays for ever.     *)
ClaimIsHeld ==
  \A e \in Endpoints :
    LET armed == {r \in Requests : r[2] = e /\ request[r] = "armed"}
    IN /\ Cardinality(armed) <= 1
       /\ armed # {} => claimed[e]
       /\ claimed[e] /\ faults = {} => armed # {}

(* A capture returns a click the user made for it, never one that an older *)
(* request, still armed, took for itself; and no click is returned twice.  *)
CapturedWhileWaiting ==
  /\ \A c \in Captures : driver[c] = "captured" => outcome[c] # NoClick /\ clicks[outcome[c]] = c
  /\ \A b, c \in Captures : b # c /\ outcome[b] # NoClick => outcome[b] # outcome[c]
=============================================================================
