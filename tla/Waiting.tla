------------------------------- MODULE Waiting -------------------------------
(***************************************************************************)
(* Waiting for the condition of a step: utils/wait.wait_for samples it     *)
(* under a deadline until it has held for a stability window. A sample of  *)
(* an object's state is itself retried while the object cannot be resolved *)
(* (core/resolution_retry), so that one sample of an absent object takes   *)
(* as long as the resolution may take. Time is counted in ticks.           *)
(***************************************************************************)
EXTENDS Integers

CONSTANTS
  Timeouts, Stabilities,   \* deadlines and stability windows of the contracts
  Resolutions,         \* object_resolution_timeout, 0 for no retry
  Interval,            \* between samples, and between attempts to resolve
  MaxFlips,            \* times the object appears or disappears
  MaxLate              \* ticks that calls and the scheduler take in all

VARIABLES
  wait,                \* wanted state, caller, timeout, stability window, resolution timeout
  there,               \* the object exists
  now, deadline, resolveBy, wake,
  stableSince,         \* when the first sample of the current series was judged
  seen,                \* what the last sample found
  pc, outcome,
  flips, late,
  since,               \* ghost: when the object's present state began
  falseAt              \* ghost: when a sample was last judged false

vars == <<wait, there, now, deadline, resolveBy, wake, stableSince, seen, pc, outcome,
          flips, late, since, falseAt>>

Never == -1            \* no time
clockVars == <<now, flips, late, there, since>>
taskVars == <<wait, deadline>>

Satisfied(found) == found = (wait.wants = "present")
Shorter(a, b) == IF a < b THEN a ELSE b

Init ==
  /\ wait \in [wants : {"present", "absent"}, by : {"completion", "handle"},
               timeout : Timeouts, stability : Stabilities, resolution : Resolutions]
  /\ wait.by = "handle" => wait.wants = "present" /\ wait.stability = 0
  /\ there \in BOOLEAN /\ now = 0 /\ deadline = wait.timeout /\ resolveBy = wait.resolution
  /\ wake = 0 /\ stableSince = Never /\ seen = FALSE /\ pc = "sample" /\ outcome = "none"
  /\ flips = 0 /\ late = 0 /\ since = 0 /\ falseAt = Never

(* One attempt of the resolution: state() of the component. While it fails *)
(* before its own deadline it sleeps, at most up to that deadline.         *)
Attempt ==
  /\ pc = "sample"
  /\ \/ /\ there \/ now >= resolveBy
        /\ seen' = there /\ pc' = "judge" /\ UNCHANGED wake
     \/ ~there /\ now < resolveBy
        /\ wake' = now + Shorter(Interval, resolveBy - now) /\ pc' = "retry" /\ UNCHANGED seen
  /\ UNCHANGED <<taskVars, clockVars, resolveBy, stableSince, outcome, falseAt>>

TryAgain ==
  /\ pc = "retry" /\ now >= wake /\ pc' = "sample"
  /\ UNCHANGED <<taskVars, clockVars, resolveBy, wake, stableSince, seen, outcome, falseAt>>

(* A step's completion takes an object that cannot be resolved for absent. *)
(* ComponentHandle.wait_for lets the error pass: the wait is over.         *)
Raises ==
  /\ pc = "judge" /\ wait.by = "handle" /\ ~seen
  /\ outcome' = "unresolved" /\ pc' = "done"
  /\ UNCHANGED <<taskVars, clockVars, resolveBy, wake, stableSince, seen, falseAt>>

(* wait_for after a sample: success once it has held for the window, then  *)
(* the deadline, then the next sample.                                     *)
(* (The mutant counts the window from the beginning of the wait.)          *)
StartedWithWait == IF stableSince = Never THEN 0 ELSE stableSince
Started == IF stableSince = Never THEN now ELSE stableSince

Succeeds ==
  /\ pc = "judge" /\ ~(wait.by = "handle" /\ ~seen)
  /\ Satisfied(seen) /\ now - Started >= wait.stability
  /\ stableSince' = Started /\ outcome' = "ok" /\ pc' = "done"
  /\ UNCHANGED <<taskVars, clockVars, resolveBy, wake, seen, falseAt>>

(* stable_since after a sample that does not end the wait.                 *)
Series == IF Satisfied(seen) THEN Started ELSE Never

Continues ==
  /\ pc = "judge" /\ ~(wait.by = "handle" /\ ~seen)
  /\ ~(Satisfied(seen) /\ now - Started >= wait.stability)
  /\ stableSince' = Series
  /\ falseAt' = IF Satisfied(seen) THEN falseAt ELSE now
  /\ IF now >= deadline THEN outcome' = "timeout" /\ pc' = "done" /\ UNCHANGED wake
     ELSE pc' = "sleep" /\ wake' = now + Interval /\ UNCHANGED outcome
  /\ UNCHANGED <<taskVars, clockVars, resolveBy, seen>>

NextSample ==
  /\ pc = "sleep" /\ now >= wake
  /\ pc' = "sample" /\ resolveBy' = now + wait.resolution
  /\ UNCHANGED <<taskVars, clockVars, wake, stableSince, seen, outcome, falseAt>>

Waiter == Attempt \/ TryAgain \/ Raises \/ Succeeds \/ Continues \/ NextSample

(* Time passes while the waiter sleeps, and a little while it works.       *)
Asleep == pc \in {"retry", "sleep"} /\ now < wake
Tick ==
  /\ pc # "done" /\ now' = now + 1
  /\ \/ Asleep /\ UNCHANGED late
     \/ ~Asleep /\ late < MaxLate /\ late' = late + 1
  /\ UNCHANGED <<taskVars, there, since, flips, resolveBy, wake, stableSince, seen, pc, outcome, falseAt>>

Flip ==
  /\ pc # "done" /\ flips < MaxFlips /\ flips' = flips + 1
  /\ there' = ~there /\ since' = now
  /\ UNCHANGED <<taskVars, now, late, resolveBy, wake, stableSince, seen, pc, outcome, falseAt>>

Next == Waiter \/ Tick \/ Flip

Spec == Init /\ [][Next]_vars

-----------------------------------------------------------------------------
TypeOK ==
  /\ there \in BOOLEAN /\ seen \in BOOLEAN /\ now \in Nat /\ wake \in Nat /\ since <= now
  /\ pc \in {"sample", "retry", "judge", "sleep", "done"}
  /\ outcome \in {"none", "ok", "timeout", "unresolved"}

(* How long a wait may take, and how long a condition has to hold before a *)
(* wait cannot miss it: a sample that found otherwise is followed by a     *)
(* sleep, and by a sample that begins the window.                          *)
SampleTakes == IF wait.wants = "absent" THEN wait.resolution ELSE Interval
Slack == Interval + SampleTakes + wait.stability + MaxLate
Longest == wait.timeout + Interval + wait.resolution + MaxLate

(* A wait that succeeds has judged no sample false within its window. One  *)
(* that times out does not miss a condition that has held for a while:     *)
(* with the default timeouts, where resolution takes as long as the whole  *)
(* wait, that says nothing of an absent object and a stability window,     *)
(* which cannot succeed. It ends at the latest one interval and one        *)
(* resolution after its deadline, and it may succeed that late.            *)
WaitsAreHonest ==
  /\ outcome = "ok" => falseAt = Never \/ falseAt + wait.stability <= now
  /\ outcome = "timeout" /\ Satisfied(there) => now - since <= Slack
  /\ now <= Longest
=============================================================================
