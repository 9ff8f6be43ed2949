---------------------------- MODULE ComponentsProofs ----------------------------
(***************************************************************************)
(* Proofs about the components that MCComponents checks side by side. Each *)
(* component has an inductive invariant of its own, stated over its        *)
(* variables; that a behaviour of the sum belongs to one part and leaves   *)
(* the others alone carries it over to the whole.                          *)
(***************************************************************************)
EXTENDS MCComponents, Integers, Sequences, FiniteSetTheorems, SequenceTheorems, WellFoundedInduction, TLAPS

-----------------------------------------------------------------------------
(* ActionExecution: the window of a component is in the foreground before  *)
(* the action is dispatched.                                               *)

(* The steps of the preparation, during which the desktop is watched.      *)
Preparing == {"request", "find", "raised", "confirm", "prepared", "focus"}
NoRecycling == "recycle" \notin faults

WindowsTyped ==
  window \in [Xids -> {Action!Unused, Action!Gone} \cup [pid : Action!Pids, title : Action!Titles]]
ActiveIsOpen == active # Action!None => active \in Xids /\ window[active].pid # Action!None

(* An id that was verified names the window it was verified for, or none.  *)
Names(x, t) == x \in Xids /\ window[x] \in {Action!Win(Action!App, t), Action!Gone}
LastIsNamed == NoRecycling /\ last.xid # Action!None => Names(last.xid, last.object)
FoundIsNamed ==
  /\ step = "raised" => xid # Action!None
  /\ NoRecycling /\ xid # Action!None /\ step \in Preparing => Names(xid, title)
IdentityIsTitle == step \in {"find", "raised", "confirm", "prepared"} => identity = title

(* While the action is prepared, no moment in which its window is active   *)
(* goes unnoticed.                                                         *)
ForegroundNoticed == step \in Preparing => (Action!Shows(window, active, title) => proven)
ProvenPrepared ==
  step \in {"prepared", "focus", "dispatch", "done"} /\ kind # "popup item" /\ NoRecycling => proven

ActionInv ==
  /\ WindowsTyped /\ ActiveIsOpen /\ LastIsNamed /\ FoundIsNamed /\ IdentityIsTitle
  /\ ForegroundNoticed /\ ProvenPrepared

(* A click or a close, and any action of a backend that is never wrong     *)
(* about its failures, takes effect once.                                  *)
Once == kind \in {"once", "popup item"} \/ "lost" \notin faults
EffectInv ==
  /\ effects \in Nat
  /\ step \notin {"done", "failed"} /\ Once => effects = 0
  /\ Action!ActsOnce

USE DEF Action!None, Action!App, Action!Win, Action!Unused, Action!Gone, Action!Pids, Action!Titles

(* A component starts as ActionExecution says, whatever is left of what    *)
(* other components are.                                                   *)
LEMMA ActionStarts ==
  ASSUME Action!Init
  PROVE  ActionInv /\ EffectInv
<1>1. WindowsTyped /\ ActiveIsOpen
  BY DEF Action!Init, WindowsTyped, ActiveIsOpen
<1>2. LastIsNamed /\ FoundIsNamed /\ IdentityIsTitle
  BY DEF Action!Init, LastIsNamed, FoundIsNamed, IdentityIsTitle
<1>3. ForegroundNoticed /\ ProvenPrepared
  BY DEF Action!Init, ForegroundNoticed, ProvenPrepared, Action!Shows
<1>4. EffectInv
  BY DEF Action!Init, EffectInv, Action!ActsOnce
<1> QED BY <1>1, <1>2, <1>3, <1>4 DEF ActionInv

(* Windows are opened, closed and raised under the preparation: an id that *)
(* was verified keeps its window or loses it, and a window that becomes    *)
(* active is noticed.                                                      *)
LEMMA DesktopKept ==
  ASSUME ActionInv, EffectInv, Action!Desktop
  PROVE  ActionInv' /\ EffectInv'
<1> USE DEF ActionInv
<1>0. UNCHANGED <<faults, kind, title, step, identity, xid, last, effects>>
  BY DEF Action!Desktop, Action!action
<1>1. WindowsTyped' /\ ActiveIsOpen'
  BY DEF Action!Desktop, WindowsTyped, ActiveIsOpen, Action!Open
<1>2. \A x \in Xids : \A t : NoRecycling /\ Names(x, t) => Names(x, t)'
  BY DEF Action!Desktop, WindowsTyped, Names, NoRecycling, Action!Open
<1>3. LastIsNamed' /\ FoundIsNamed' /\ IdentityIsTitle'
  <2>1. LastIsNamed'
    BY <1>0, <1>2 DEF LastIsNamed, Names, NoRecycling
  <2>2. FoundIsNamed'
    BY <1>0, <1>2 DEF FoundIsNamed, Names, NoRecycling
  <2>3. IdentityIsTitle'
    BY <1>0 DEF IdentityIsTitle
  <2> QED BY <2>1, <2>2, <2>3
<1>4. ForegroundNoticed' /\ ProvenPrepared'
  BY <1>0, Zenon DEF Action!Desktop, ForegroundNoticed, ProvenPrepared, Action!Shows, NoRecycling, Preparing
<1>5. EffectInv'
  BY <1>0, Zenon DEF EffectInv, Once, Action!ActsOnce
<1> QED BY <1>1, <1>3, <1>4, <1>5

(* The handshake asks about the component's own window and verifies the id *)
(* it found: an activation that is reused is of a window that is open, so  *)
(* of the one it names.                                                    *)
LEMMA ReusedIsShown ==
  ASSUME ActionInv, Action!Reusable, NoRecycling
  PROVE  Action!Shows(window, active, title)
  BY XidsAssumption
  DEF ActionInv, Action!Reusable, LastIsNamed, ActiveIsOpen, Names, Action!Shows, NoRecycling

LEMMA HandshakeKept ==
  ASSUME ActionInv, EffectInv,
         Action!Execute \/ Action!EnsureForeground \/ Action!FindWindow \/ Action!Raised \/ Action!Confirm
  PROVE  ActionInv' /\ EffectInv'
<1> USE DEF ActionInv
<1>1. UNCHANGED <<faults, window, active>>
  BY Zenon DEF Action!Execute, Action!EnsureForeground, Action!FindWindow, Action!Raised, Action!Confirm,
         Action!desktop
<1>2. WindowsTyped' /\ ActiveIsOpen' /\ \A x, t : Names(x, t)' <=> Names(x, t)
  BY <1>1 DEF WindowsTyped, ActiveIsOpen, Names
<1>3. CASE Action!Execute
  <2>1. LastIsNamed' /\ FoundIsNamed' /\ IdentityIsTitle'
    BY <1>1, <1>2, <1>3, Zenon DEF Action!Execute, LastIsNamed, FoundIsNamed, IdentityIsTitle, NoRecycling
  <2>2. step' \in {"dispatch", "request"} /\ (step' = "dispatch" => kind' = "popup item")
    BY <1>3, Zenon DEF Action!Execute
  <2>3. proven' = Action!Shows(window', active', title')
    BY <1>1, <1>3, Zenon DEF Action!Execute
  <2>4. ForegroundNoticed' /\ ProvenPrepared'
    BY <2>2, <2>3, Zenon DEF ForegroundNoticed, ProvenPrepared
  <2>5. effects' = 0
    BY <1>3, Zenon DEF Action!Execute
  <2>6. effects' \in Nat /\ effects' <= 1
    BY <2>5
  <2>7. EffectInv'
    BY <2>5, <2>6, Zenon DEF EffectInv, Action!ActsOnce
  <2> QED BY <1>2, <2>1, <2>4, <2>7
<1>4. CASE Action!EnsureForeground
  <2>1. CASE Action!Reusable
    BY <1>1, <1>2, <1>4, <2>1, ReusedIsShown, Zenon
    DEF Action!EnsureForeground, Action!Prepared, Action!action, LastIsNamed, FoundIsNamed,
        IdentityIsTitle, ForegroundNoticed, ProvenPrepared, EffectInv, Once, Action!ActsOnce,
        NoRecycling, Preparing, Action!Shows
  <2>2. CASE ~Action!Reusable
    <3>1. Action!Request
      BY <1>4, <2>2 DEF Action!EnsureForeground
    <3>2. /\ step = "request" /\ step' \in {"failed", "find", "confirm", "prepared"}
          /\ UNCHANGED <<kind, title, xid, last, effects, proven>>
      BY <1>4, <3>1 DEF Action!EnsureForeground, Action!Request, Action!Fail, Action!action
    <3>3. IdentityIsTitle'
      BY <3>1, <3>2 DEF Action!Request, Action!Fail, IdentityIsTitle
    <3>4. LastIsNamed' /\ FoundIsNamed'
      BY <1>1, <1>2, <3>2 DEF LastIsNamed, FoundIsNamed, NoRecycling, Preparing
    <3>5. step' = "prepared" => Action!Shows(window, active, title)
      BY <3>1, <3>2, XidsAssumption
      DEF Action!Request, Action!Fail, Action!Owned, Action!Open, Action!Shows, WindowsTyped
    <3>6. ForegroundNoticed' /\ ProvenPrepared'
      BY <1>1, <3>2, <3>5, Zenon DEF ForegroundNoticed, ProvenPrepared, Preparing, Action!Shows
    <3>7. EffectInv'
      BY <1>1, <3>2, Zenon DEF EffectInv, Once, Action!ActsOnce
    <3> QED BY <1>2, <3>3, <3>4, <3>6, <3>7
  <2> QED BY <2>1, <2>2
<1>5. CASE Action!FindWindow
  <2>1. step = "find" /\ step' \in {"raised", "confirm", "failed"} /\ identity = title
    BY <1>5 DEF Action!FindWindow, IdentityIsTitle
  <2>2. \/ xid' = xid /\ step' # "raised"
        \/ xid' \in Xids /\ window[xid'] = Action!Win(Action!App, title)
    BY <1>5, <2>1 DEF Action!FindWindow, Action!Open, WindowsTyped
  <2>3. UNCHANGED <<kind, title, identity, last, effects, proven>>
    BY <1>5 DEF Action!FindWindow, Action!action
  <2> QED
    BY <1>1, <1>2, <2>1, <2>2, <2>3, XidsAssumption, Zenon
    DEF LastIsNamed, FoundIsNamed, IdentityIsTitle, ForegroundNoticed, ProvenPrepared, EffectInv,
        Once, Action!ActsOnce, NoRecycling, Preparing, Action!Shows, Names
<1>6. CASE Action!Raised
  <2>1. step = "raised" /\ step' \in {"confirm", "focus", "dispatch", "failed"}
    BY <1>6 DEF Action!Raised, Action!Prepared
  <2>2. UNCHANGED <<kind, title, identity, xid, effects, proven>>
    BY <1>6 DEF Action!Raised, Action!action
  <2>3. NoRecycling /\ active = xid => Action!Shows(window, active, title)
    BY <2>1 DEF FoundIsNamed, Names, ActiveIsOpen, Action!Shows, Preparing
  <2>4. LastIsNamed' /\ FoundIsNamed' /\ IdentityIsTitle'
    BY <1>1, <1>2, <1>6, <2>1, <2>2
    DEF Action!Raised, Action!Activated, LastIsNamed, FoundIsNamed, IdentityIsTitle, NoRecycling, Preparing
  <2>5. step' \in {"focus", "dispatch"} => active = xid
    BY <1>6 DEF Action!Raised
  <2>7. ForegroundNoticed' /\ ProvenPrepared'
    BY <1>1, <2>1, <2>2, <2>3, <2>5, Zenon
    DEF ForegroundNoticed, ProvenPrepared, NoRecycling, Preparing, Action!Shows
  <2>6. EffectInv'
    BY <1>1, <2>1, <2>2, Zenon DEF EffectInv, Once, Action!ActsOnce
  <2> QED BY <1>2, <2>4, <2>6, <2>7
<1>7. CASE Action!Confirm
  <2>1. step \in {"confirm", "prepared"} /\ step' \in {"focus", "dispatch", "failed"} /\ identity = title
    BY <1>7 DEF Action!Confirm, Action!Prepared, IdentityIsTitle
  <2>2. UNCHANGED <<kind, title, identity, xid, effects, proven>>
    BY <1>7 DEF Action!Confirm, Action!action
  <2>3. LastIsNamed' /\ FoundIsNamed' /\ IdentityIsTitle'
    BY <1>1, <1>2, <1>7, <2>1, <2>2
    DEF Action!Confirm, Action!Activated, LastIsNamed, FoundIsNamed, IdentityIsTitle, NoRecycling, Preparing
  <2>4. step' = "failed" \/ step = "prepared" \/ Action!Shows(window, active, title)
    BY <1>7, <2>1 DEF Action!Confirm
  <2>5. ForegroundNoticed' /\ ProvenPrepared'
    BY <1>1, <2>1, <2>2, <2>4, Zenon
    DEF ForegroundNoticed, ProvenPrepared, NoRecycling, Preparing, Action!Shows
  <2>6. EffectInv'
    BY <1>1, <2>1, <2>2, Zenon DEF EffectInv, Once, Action!ActsOnce
  <2> QED BY <1>2, <2>3, <2>5, <2>6
<1> QED BY <1>3, <1>4, <1>5, <1>6, <1>7

LEMMA DispatchKept ==
  ASSUME ActionInv, EffectInv, Action!Focus \/ Action!Dispatch \/ Action!Ends
  PROVE  ActionInv' /\ EffectInv'
<1> USE DEF ActionInv
<1>1. UNCHANGED <<faults, window, active, last>>
  BY DEF Action!Focus, Action!Dispatch, Action!Ends, Action!desktop
<1>2. WindowsTyped' /\ ActiveIsOpen' /\ LastIsNamed'
  BY <1>1 DEF WindowsTyped, ActiveIsOpen, LastIsNamed, Names, NoRecycling
<1>3. step' \in {"idle", "dispatch", "done", "failed"}
  BY Zenon DEF Action!Focus, Action!Dispatch, Action!Ends, Action!NextStrategy
<1>4. FoundIsNamed' /\ IdentityIsTitle' /\ ForegroundNoticed'
  BY <1>3 DEF FoundIsNamed, IdentityIsTitle, ForegroundNoticed, Preparing
<1>5. ProvenPrepared'
  BY <1>1, Zenon DEF Action!Focus, Action!Dispatch, Action!Ends, Action!NextStrategy, Action!action,
              ProvenPrepared, NoRecycling
<1>6. EffectInv'
  <2>1. CASE Action!Focus
    BY <1>1, <2>1, Zenon DEF Action!Focus, Action!action, EffectInv, Once, Action!ActsOnce
  <2>3. CASE Action!Ends
    <3>1. effects' = 0
      BY <2>3 DEF Action!Ends
    <3>2. effects' \in Nat /\ effects' <= 1
      BY <3>1
    <3> QED BY <3>1, <3>2, Zenon DEF EffectInv, Action!ActsOnce
  <2>2. CASE Action!Dispatch
    <3>1. /\ step = "dispatch" /\ step' \in {"dispatch", "done", "failed"}
          /\ UNCHANGED <<faults, kind>>
      BY <2>2, Zenon DEF Action!Dispatch, Action!NextStrategy
    <3>2. effects' \in {effects, effects + 1}
      BY <2>2 DEF Action!Dispatch, Action!Acts
    <3>3. step' = "dispatch" /\ Once => effects' = effects
      BY <2>2, <3>1, Zenon DEF Action!Dispatch, Action!Acts, Action!NextStrategy, Once
    <3>4. Once' <=> Once
      BY <3>1 DEF Once
    <3>5. Once => effects = 0 /\ effects' \in {0, 1}
      BY <3>1, <3>2 DEF EffectInv
    <3>6. effects' \in Nat
      BY <3>2 DEF EffectInv
    <3>7. Once => effects' <= 1
      BY <3>5
    <3> QED BY <3>1, <3>3, <3>4, <3>5, <3>6, <3>7, Zenon DEF EffectInv, Once, Action!ActsOnce
  <2> QED BY <2>1, <2>2, <2>3
<1> QED BY <1>2, <1>4, <1>5, <1>6

LEMMA ActionKept ==
  ASSUME ActionInv, EffectInv, [Action!Next]_Action!vars
  PROVE  ActionInv' /\ EffectInv'
<1>1. CASE UNCHANGED Action!vars
  BY <1>1, Zenon
  DEF Action!vars, ActionInv, WindowsTyped, ActiveIsOpen, LastIsNamed, FoundIsNamed, Names,
      IdentityIsTitle, ForegroundNoticed, ProvenPrepared, NoRecycling, Preparing, Action!Shows,
      EffectInv, Once, Action!ActsOnce
<1> QED BY <1>1, DesktopKept, HandshakeKept, DispatchKept DEF Action!Next, Action!Handle

(* Whatever users and programs do to the desktop, no action is dispatched  *)
(* whose window was not the active one while the action was prepared, and  *)
(* no click or close takes effect twice (ComponentHandle.execute,          *)
(* WindowOrchestrator.ensure_foreground).                                  *)
THEOREM Foreground == Spec => []ActsProvenAndOnce
<1> DEFINE Kept == part = "action" => ActionInv /\ EffectInv
<1>1. Init => Kept
  BY ActionStarts DEF Init
<1>2. Kept /\ [Next]_vars => Kept'
  <2> SUFFICES ASSUME Kept, [Next]_vars, part' = "action" PROVE ActionInv' /\ EffectInv'
    OBVIOUS
  <2>1. part = "action" /\ [Action!Next]_Action!vars
    BY Zenon DEF Next, vars, onlyAction, Action!vars
  <2> QED BY <2>1, ActionKept
<1>3. Kept => ActsProvenAndOnce
  BY Zenon DEF ActsProvenAndOnce, ActionInv, EffectInv, ProvenPrepared, NoRecycling, Action!ForegroundProven
<1> QED BY <1>1, <1>2, <1>3, PTL DEF Spec

-----------------------------------------------------------------------------
(* Waiting: a wait counts what it sampled, and ends in time.               *)

SampleBound == Interval + Wait!SampleTakes + late

WaitTyped ==
  /\ wait \in [wants : {"present", "absent"}, by : {"completion", "handle"},
               timeout : Nat, stability : Nat, resolution : Nat]
  /\ deadline = wait.timeout /\ there \in BOOLEAN /\ seen \in BOOLEAN
  /\ now \in Nat /\ since \in Nat /\ wake \in Nat /\ resolveBy \in Nat
  /\ late \in Nat /\ late <= MaxLate
  /\ stableSince \in Nat \cup {Wait!Never} /\ falseAt \in Nat \cup {Wait!Never}
  /\ since <= now /\ stableSince <= now /\ falseAt <= now

(* A sleep is at most one interval ahead, a resolution at most its own     *)
(* time, and a sleep between two attempts not beyond the resolution.       *)
SleepsBriefly ==
  /\ pc \in {"retry", "sleep"} => wake <= now + Interval
  /\ pc \in {"sample", "retry"} => resolveBy <= now + wait.resolution
  /\ pc = "retry" => wake <= resolveBy

(* No sample was judged false since the series began.                      *)
SeriesUnbroken == stableSince # Wait!Never => falseAt <= stableSince
SucceedsStable == outcome = "ok" => falseAt = Wait!Never \/ falseAt + wait.stability <= now

(* What the last sample missed happened after it was taken.                *)
NewsIsRecent == pc = "judge" /\ Wait!Satisfied(there) /\ ~Wait!Satisfied(seen) => now - since <= late

(* While the condition holds, a series began, or will begin, soon after it *)
(* came true.                                                              *)
SeriesStartsSoon ==
  Wait!Satisfied(there) =>
    /\ stableSince # Wait!Never => stableSince - since <= SampleBound
    /\ stableSince = Wait!Never =>
         /\ pc = "sleep" => wake - since <= Interval + late /\ now - since <= Interval + late
         /\ pc \in {"sample", "retry"} =>
              /\ now - since <= SampleBound
              /\ wait.wants = "absent" => resolveBy - since <= SampleBound
              /\ wait.wants = "present" /\ pc = "retry" => wake - since <= SampleBound
         /\ pc = "judge" /\ Wait!Satisfied(seen) => now - since <= SampleBound

OutcomeIsLast == pc # "done" => outcome = "none"
TimeoutIsFair == outcome = "timeout" /\ Wait!Satisfied(there) => now - since <= Wait!Slack

EndsInTime ==
  /\ pc = "sleep" => wake <= deadline + Interval /\ now <= deadline + Interval + late
  /\ pc \in {"sample", "retry"} => resolveBy <= deadline + Interval + wait.resolution + late
  /\ now <= deadline + Interval + wait.resolution + late

WaitInv ==
  /\ WaitTyped /\ SleepsBriefly /\ SeriesUnbroken /\ SucceedsStable /\ NewsIsRecent
  /\ SeriesStartsSoon /\ OutcomeIsLast /\ TimeoutIsFair /\ EndsInTime

USE DEF Wait!Never

LEMMA WaitStarts ==
  ASSUME Wait!Init
  PROVE  WaitInv
<1>1. WaitTyped
  <2>1. wait \in [wants : {"present", "absent"}, by : {"completion", "handle"},
                  timeout : Nat, stability : Nat, resolution : Nat]
    BY DurationsAssumption DEF Wait!Init
  <2>2. /\ deadline = wait.timeout /\ there \in BOOLEAN /\ seen \in BOOLEAN /\ now = 0 /\ since = 0 /\ wake = 0
        /\ late = 0 /\ resolveBy = wait.resolution /\ stableSince = Wait!Never /\ falseAt = Wait!Never
    BY DEF Wait!Init
  <2> QED BY <2>1, <2>2, DurationsAssumption DEF WaitTyped
<1>2. pc = "sample" /\ outcome = "none" /\ stableSince = Wait!Never /\ now = 0 /\ late = 0 /\ since = 0
  BY DEF Wait!Init
<1>3. resolveBy = wait.resolution
  BY DEF Wait!Init
<1>4. SleepsBriefly /\ SeriesUnbroken /\ SucceedsStable /\ NewsIsRecent /\ OutcomeIsLast /\ TimeoutIsFair
  BY <1>1, <1>2, <1>3
  DEF WaitTyped, SleepsBriefly, SeriesUnbroken, SucceedsStable, NewsIsRecent, OutcomeIsLast, TimeoutIsFair
<1>5. SeriesStartsSoon /\ EndsInTime
  BY <1>1, <1>2, <1>3, DurationsAssumption
  DEF WaitTyped, SeriesStartsSoon, EndsInTime, SampleBound, Wait!SampleTakes
<1> QED BY <1>1, <1>4, <1>5 DEF WaitInv

(* One step of the waiter, of the clock or of the object, taken apart only *)
(* by action: each leaf is arithmetic on a few clocks.                     *)
LEMMA SampleKept ==
  ASSUME WaitInv, Wait!Attempt \/ Wait!TryAgain \/ Wait!NextSample
  PROVE  WaitInv'
<1> USE DEF WaitInv, Wait!Satisfied
<1>1. /\ UNCHANGED <<wait, deadline, now, late, there, since, stableSince, outcome, falseAt>>
      /\ outcome = "none"
  BY DEF Wait!Attempt, Wait!TryAgain, Wait!NextSample, Wait!taskVars, Wait!clockVars, OutcomeIsLast
<1>2. WaitTyped'
  BY <1>1, DurationsAssumption
  DEF WaitTyped, Wait!Attempt, Wait!TryAgain, Wait!NextSample, Wait!Shorter
<1>3. SeriesUnbroken' /\ SucceedsStable' /\ OutcomeIsLast' /\ TimeoutIsFair'
  BY <1>1 DEF SeriesUnbroken, SucceedsStable, OutcomeIsLast, TimeoutIsFair
<1>4. CASE Wait!Attempt
  <2>1. SleepsBriefly' /\ NewsIsRecent' /\ EndsInTime'
    BY <1>1, <1>4, DurationsAssumption
    DEF WaitTyped, SleepsBriefly, NewsIsRecent, EndsInTime, Wait!Attempt, Wait!Shorter
  <2>2. SeriesStartsSoon'
    BY <1>1, <1>4, DurationsAssumption
    DEF WaitTyped, SeriesStartsSoon, SampleBound, Wait!SampleTakes, Wait!Attempt, Wait!Shorter
  <2> QED BY <1>2, <1>3, <2>1, <2>2
<1>5. CASE Wait!TryAgain
  <2>1. SleepsBriefly' /\ NewsIsRecent' /\ EndsInTime'
    BY <1>1, <1>5, DurationsAssumption
    DEF WaitTyped, SleepsBriefly, NewsIsRecent, EndsInTime, Wait!TryAgain
  <2>2. SeriesStartsSoon'
    BY <1>1, <1>5, DurationsAssumption
    DEF WaitTyped, SeriesStartsSoon, SampleBound, Wait!SampleTakes, Wait!TryAgain
  <2> QED BY <1>2, <1>3, <2>1, <2>2
<1>6. CASE Wait!NextSample
  <2>1. SleepsBriefly' /\ NewsIsRecent' /\ EndsInTime'
    BY <1>1, <1>6, DurationsAssumption
    DEF WaitTyped, SleepsBriefly, NewsIsRecent, EndsInTime, Wait!NextSample
  <2>2. SeriesStartsSoon'
    BY <1>1, <1>6, DurationsAssumption
    DEF WaitTyped, SeriesStartsSoon, SampleBound, Wait!SampleTakes, Wait!NextSample
  <2> QED BY <1>2, <1>3, <2>1, <2>2
<1> QED BY <1>4, <1>5, <1>6

LEMMA JudgeKept ==
  ASSUME WaitInv, Wait!Raises \/ Wait!Succeeds \/ Wait!Continues
  PROVE  WaitInv'
<1> USE DEF WaitInv, Wait!Satisfied
<1>1. UNCHANGED <<wait, deadline, now, late, there, since, resolveBy, seen>> /\ pc = "judge"
  BY DEF Wait!Raises, Wait!Succeeds, Wait!Continues, Wait!taskVars, Wait!clockVars
<1>2. WaitTyped'
  BY <1>1, DurationsAssumption
  DEF WaitTyped, Wait!Raises, Wait!Succeeds, Wait!Continues, Wait!Started, Wait!Series
<1>3. CASE Wait!Raises
  BY <1>1, <1>2, <1>3
  DEF WaitTyped, Wait!Raises, SleepsBriefly, SeriesUnbroken, SucceedsStable, NewsIsRecent, SeriesStartsSoon,
      OutcomeIsLast, TimeoutIsFair, EndsInTime, SampleBound, Wait!SampleTakes
<1>4. CASE Wait!Succeeds
  <2>1. SeriesUnbroken' /\ SucceedsStable'
    BY <1>1, <1>4 DEF WaitTyped, Wait!Succeeds, Wait!Started, SeriesUnbroken, SucceedsStable
  <2>2. SeriesStartsSoon'
    BY <1>1, <1>4, DurationsAssumption
    DEF WaitTyped, Wait!Succeeds, Wait!Started, SeriesStartsSoon, SampleBound, Wait!SampleTakes
  <2> QED
    BY <1>1, <1>2, <1>4, <2>1, <2>2
    DEF Wait!Succeeds, SleepsBriefly, NewsIsRecent, OutcomeIsLast, TimeoutIsFair, EndsInTime
<1>5. CASE Wait!Continues
  <2>1. SeriesUnbroken' /\ SucceedsStable' /\ OutcomeIsLast' /\ NewsIsRecent'
    BY <1>1, <1>5
    DEF WaitTyped, Wait!Continues, Wait!Started, Wait!Series, SeriesUnbroken, SucceedsStable, OutcomeIsLast,
        NewsIsRecent
  <2>2. SeriesStartsSoon'
    BY <1>1, <1>5, DurationsAssumption
    DEF WaitTyped, Wait!Continues, Wait!Started, Wait!Series, NewsIsRecent, SeriesStartsSoon, SampleBound,
        Wait!SampleTakes
  <2>3. TimeoutIsFair'
    BY <1>1, <1>5, DurationsAssumption
    DEF WaitTyped, Wait!Continues, Wait!Started, NewsIsRecent, SeriesStartsSoon, SampleBound,
        Wait!SampleTakes, Wait!Slack, TimeoutIsFair, OutcomeIsLast
  <2>4. SleepsBriefly' /\ EndsInTime'
    BY <1>1, <1>5, DurationsAssumption DEF WaitTyped, Wait!Continues, SleepsBriefly, EndsInTime
  <2> QED BY <1>2, <2>1, <2>2, <2>3, <2>4
<1> QED BY <1>3, <1>4, <1>5

LEMMA ClockKept ==
  ASSUME WaitInv, Wait!Tick \/ Wait!Flip
  PROVE  WaitInv'
<1> USE DEF WaitInv, Wait!Satisfied
<1>1. UNCHANGED <<wait, deadline, resolveBy, wake, stableSince, seen, pc, outcome, falseAt>> /\ pc # "done"
  BY DEF Wait!Tick, Wait!Flip, Wait!taskVars
<1>2. outcome = "none"
  BY <1>1 DEF OutcomeIsLast
<1>3. WaitTyped'
  <2>1. CASE Wait!Tick
    BY <1>1, <2>1, DurationsAssumption DEF WaitTyped, Wait!Tick
  <2>2. CASE Wait!Flip
    <3>1. there' \in BOOLEAN /\ since' = now /\ UNCHANGED <<now, late>>
      BY <2>2 DEF WaitTyped, Wait!Flip
    <3> QED BY <1>1, <3>1, DurationsAssumption DEF WaitTyped
  <2> QED BY <2>1, <2>2
<1>4. SeriesUnbroken' /\ SucceedsStable' /\ OutcomeIsLast' /\ TimeoutIsFair'
  BY <1>1, <1>2 DEF SeriesUnbroken, SucceedsStable, OutcomeIsLast, TimeoutIsFair
<1>5. CASE Wait!Tick
  <2>1. now' = now + 1 /\ UNCHANGED <<there, since>>
    BY <1>5 DEF Wait!Tick
  <2>2. (pc \in {"retry", "sleep"} /\ now + 1 <= wake /\ late' = late) \/ late' = late + 1
    BY <1>5 DEF Wait!Tick, Wait!Asleep, WaitTyped
  <2>3. SleepsBriefly' /\ NewsIsRecent' /\ EndsInTime'
    BY <1>1, <2>1, <2>2, DurationsAssumption DEF WaitTyped, SleepsBriefly, NewsIsRecent, EndsInTime
  <2>4. SeriesStartsSoon'
    BY <1>1, <2>1, <2>2, DurationsAssumption
    DEF WaitTyped, SleepsBriefly, SeriesStartsSoon, SampleBound, Wait!SampleTakes
  <2> QED BY <1>3, <1>4, <2>3, <2>4
<1>6. CASE Wait!Flip
  <2>1. there' = ~there /\ since' = now /\ UNCHANGED <<now, late>>
    BY <1>6 DEF Wait!Flip
  <2>2. SleepsBriefly' /\ NewsIsRecent' /\ EndsInTime'
    BY <1>1, <2>1, DurationsAssumption DEF WaitTyped, SleepsBriefly, NewsIsRecent, EndsInTime
  <2>3. SeriesStartsSoon'
    BY <1>1, <2>1, DurationsAssumption
    DEF WaitTyped, SleepsBriefly, SeriesStartsSoon, SampleBound, Wait!SampleTakes
  <2> QED BY <1>3, <1>4, <2>2, <2>3
<1> QED BY <1>5, <1>6

LEMMA WaitKept ==
  ASSUME WaitInv, [Wait!Next]_Wait!vars
  PROVE  WaitInv'
<1>1. CASE UNCHANGED Wait!vars
  <2>1. WaitTyped' /\ SleepsBriefly' /\ SeriesUnbroken' /\ SucceedsStable' /\ NewsIsRecent'
    BY <1>1
    DEF Wait!vars, WaitInv, WaitTyped, SleepsBriefly, SeriesUnbroken, SucceedsStable, NewsIsRecent, Wait!Satisfied
  <2>2. SeriesStartsSoon' /\ OutcomeIsLast' /\ TimeoutIsFair' /\ EndsInTime'
    BY <1>1
    DEF Wait!vars, WaitInv, SeriesStartsSoon, SampleBound, Wait!SampleTakes, OutcomeIsLast, TimeoutIsFair,
        Wait!Slack, EndsInTime, Wait!Satisfied
  <2> QED BY <2>1, <2>2 DEF WaitInv
<1> QED BY <1>1, SampleKept, JudgeKept, ClockKept DEF Wait!Next, Wait!Waiter

(* A wait that succeeds judged no sample false within its stability        *)
(* window, one that times out does not miss a condition that has held for  *)
(* the time its samples need, and both end in time, for all durations      *)
(* (utils/wait.wait_for, core/resolution_retry).                           *)
THEOREM Waits == Spec => []WaitsAreHonest
<1> DEFINE Kept == part = "waiting" => WaitInv
<1>1. Init => Kept
  BY WaitStarts DEF Init
<1>2. Kept /\ [Next]_vars => Kept'
  <2> SUFFICES ASSUME Kept, [Next]_vars, part' = "waiting" PROVE WaitInv'
    OBVIOUS
  <2>1. part = "waiting" /\ [Wait!Next]_Wait!vars
    BY Zenon DEF Next, vars, onlyWait, Wait!vars
  <2> QED BY <2>1, WaitKept
<1>3. Kept => WaitsAreHonest
  <2> SUFFICES ASSUME WaitInv PROVE Wait!WaitsAreHonest
    BY DEF WaitsAreHonest
  <2>1. now <= Wait!Longest
    BY DurationsAssumption DEF WaitInv, WaitTyped, EndsInTime, Wait!Longest
  <2> QED BY <2>1 DEF WaitInv, SucceedsStable, TimeoutIsFair, Wait!WaitsAreHonest
<1> QED BY <1>1, <1>2, <1>3, PTL DEF Spec

-----------------------------------------------------------------------------
(* MenuClick: the fallback does not double a click.                        *)

Selections == 1 .. MaxSelections
JobNames == {"select", "schedule", "press", "fire", "fired", "cleanup"}
Jobs == [do : JobNames, of : Selections]
MenuPhases == {"idle", "asked", "unrendered", "pointing", "finishing", "withdrawing",
               "awaiting", "status", "status answered"}

MenuTyped ==
  /\ queue \in Seq(Jobs) /\ selection \in Nat /\ selection <= MaxSelections
  /\ fired \in [Selections -> Nat] /\ outcome \in [Selections -> {"none", "ok", "failed"}]
  /\ phase \in MenuPhases /\ (phase # "idle" => selection \in Selections)
  /\ observed \subseteq Selections /\ observing \subseteq Selections
  /\ seen \in [observed : BOOLEAN, finished : BOOLEAN]

(* Jobs that may lead to an action event of their selection's item.        *)
Acting == {"select", "schedule", "press", "fire"}
Acts(i, s) == queue[i].of = s /\ queue[i].do \in Acting
Owes(s) == \E i \in DOMAIN queue : Acts(i, s)
Prompt == "slow" \notin faults

(* What is observed, or was read as observed, has fired.                   *)
ObservedFired ==
  /\ \A s \in observed : fired[s] >= 1
  /\ seen.observed => selection \in observed
  /\ \A s \in Selections : outcome[s] = "ok" => fired[s] >= 1

OneJobEach == Prompt => \A s \in Selections : \A i, j \in DOMAIN queue : Acts(i, s) /\ Acts(j, s) => i = j
FiresOnce == Prompt => \A s \in Selections : fired[s] <= 1 /\ (fired[s] = 1 => ~Owes(s))
NotYet ==
  /\ \A s \in Selections : s > selection => fired[s] = 0
  /\ \A i \in DOMAIN queue : queue[i].of <= selection

(* Until the driver falls back or gives up, all that the agent has still   *)
(* to do for the selection is the job the driver waits for, and an observer *)
(* sits on the item before it is clicked.                                  *)
Opening == {"asked", "unrendered", "pointing", "withdrawing", "finishing"}
Fresh ==
  Prompt /\ phase \in Opening =>
    /\ \A i \in DOMAIN queue : queue[i].of = selection =>
         \/ phase = "asked" /\ queue[i].do \in {"select", "schedule"}
         \/ phase = "finishing" /\ queue[i].do = "press"
    /\ phase # "finishing" => fired[selection] = 0
    /\ fired[selection] = 1 => selection \in observed
    /\ phase \in {"pointing", "finishing"} => selection \in observing

MenuInv == MenuTyped /\ ObservedFired /\ OneJobEach /\ FiresOnce /\ NotYet /\ Fresh

LEMMA MenuStarts ==
  ASSUME Menu!Init
  PROVE  MenuInv
<1>1. /\ queue = <<>> /\ selection = 0 /\ phase = "idle" /\ observed = {} /\ observing = {}
      /\ seen = [observed |-> FALSE, finished |-> FALSE]
      /\ fired = [s \in Selections |-> 0] /\ outcome = [s \in Selections |-> "none"]
  BY DEF Menu!Init, Menu!NoStatus, Menu!Selections, Selections
<1>2. MenuTyped
  BY <1>1, BoundsAssumption DEF MenuTyped, MenuPhases, Jobs
<1>3. ObservedFired /\ NotYet
  BY <1>1 DEF ObservedFired, NotYet
<1>4. OneJobEach /\ FiresOnce /\ Fresh
  BY <1>1 DEF OneJobEach, FiresOnce, Fresh, Owes, Opening
<1> QED BY <1>2, <1>3, <1>4 DEF MenuInv

(* The driver: steps that leave the agent's queue alone or append the one  *)
(* job it will wait for.                                                   *)
LEMMA AskKept ==
  ASSUME MenuInv, Menu!Ask
  PROVE  MenuInv'
<1> USE DEF MenuInv
<1>1. /\ selection < MaxSelections /\ selection' = selection + 1 /\ phase' = "asked"
      /\ queue' = Append(queue, [do |-> "select", of |-> selection + 1])
      /\ seen' = [observed |-> FALSE, finished |-> FALSE]
      /\ UNCHANGED <<faults, outcome, fired, observed, observing>>
  BY DEF Menu!Ask, Menu!Job, Menu!NoStatus, Menu!agentVars
<1>2. MenuTyped'
  <2>1. selection' \in Selections /\ selection' \in Nat /\ selection' <= MaxSelections
    BY <1>1, BoundsAssumption DEF MenuTyped, Selections
  <2>2. [do |-> "select", of |-> selection + 1] \in Jobs
    BY <1>1, <2>1 DEF Jobs, JobNames
  <2>3. queue' \in Seq(Jobs)
    BY <1>1, <2>2 DEF MenuTyped
  <2>4. seen' \in [observed : BOOLEAN, finished : BOOLEAN] /\ phase' \in MenuPhases
    BY <1>1 DEF MenuPhases
  <2> QED BY <1>1, <2>1, <2>3, <2>4 DEF MenuTyped
<1>3. /\ DOMAIN queue' = 1 .. Len(queue) + 1 /\ DOMAIN queue = 1 .. Len(queue)
      /\ \A i \in DOMAIN queue : queue'[i] = queue[i]
      /\ queue'[Len(queue) + 1] = [do |-> "select", of |-> selection']
      /\ Len(queue) \in Nat
  BY <1>1 DEF MenuTyped
<1>4. \A i \in DOMAIN queue : queue[i].of # selection' /\ queue'[i].of # selection'
  BY <1>1, <1>3 DEF NotYet, MenuTyped, Jobs, Selections
<1>5. fired[selection'] = 0 /\ selection' \in Selections
  BY <1>1, BoundsAssumption DEF NotYet, MenuTyped, Selections
<1>6. ObservedFired' /\ NotYet'
  <2>1. ~seen'.observed
    BY <1>1
  <2>2. ObservedFired'
    BY <1>1, <2>1 DEF ObservedFired
  <2>3. \A s \in Selections : s > selection' => fired'[s] = 0
    BY <1>1 DEF NotYet, MenuTyped, Selections
  <2>4. queue'[Len(queue) + 1].of = selection' /\ selection' \in Nat /\ selection < selection'
    BY <1>1, <1>3 DEF MenuTyped
  <2>5. ASSUME NEW i \in DOMAIN queue' PROVE queue'[i].of <= selection'
    <3>1. CASE i = Len(queue) + 1
      BY <2>4, <3>1
    <3>2. CASE i \in DOMAIN queue
      <4>1. queue[i] \in Jobs
        BY <3>2 DEF MenuTyped
      <4>2. queue[i].of <= selection /\ queue[i].of \in Nat /\ selection \in Nat
        BY <3>2, <4>1 DEF NotYet, MenuTyped, Jobs, Selections
      <4> QED BY <1>3, <2>4, <3>2, <4>2
    <3> QED BY <1>3, <3>1, <3>2
  <2> QED BY <2>2, <2>3, <2>5 DEF NotYet
<1>7. OneJobEach'
  BY <1>1, <1>3, <1>4 DEF OneJobEach, Acts, Acting, Prompt
<1>8. FiresOnce'
  BY <1>1, <1>3, <1>4, <1>5 DEF FiresOnce, Owes, Acts, Prompt
<1>9. Fresh'
  BY <1>1, <1>3, <1>4, <1>5 DEF Fresh, Prompt
<1> QED BY <1>2, <1>6, <1>7, <1>8, <1>9

(* An append of a job of the current selection.                            *)
LEMMA Appended ==
  ASSUME MenuInv, selection \in Selections, NEW name \in JobNames,
         queue' = Append(queue, Menu!Job(name, selection)), UNCHANGED selection
  PROVE  /\ queue' \in Seq(Jobs) /\ Len(queue) \in Nat
         /\ DOMAIN queue' = 1 .. Len(queue) + 1 /\ DOMAIN queue = 1 .. Len(queue)
         /\ \A i \in DOMAIN queue : queue'[i] = queue[i]
         /\ queue'[Len(queue) + 1].do = name /\ queue'[Len(queue) + 1].of = selection
         /\ \A i \in DOMAIN queue' : queue'[i].of <= selection
<1>1. Menu!Job(name, selection) \in Jobs /\ queue \in Seq(Jobs)
  BY DEF Menu!Job, Jobs, MenuInv, MenuTyped
<1>2. /\ queue' \in Seq(Jobs) /\ Len(queue) \in Nat
      /\ DOMAIN queue' = 1 .. Len(queue) + 1 /\ DOMAIN queue = 1 .. Len(queue)
      /\ \A i \in DOMAIN queue : queue'[i] = queue[i]
      /\ queue'[Len(queue) + 1] = Menu!Job(name, selection)
  BY <1>1
<1>3. queue'[Len(queue) + 1].do = name /\ queue'[Len(queue) + 1].of = selection
  BY <1>2 DEF Menu!Job
<1>4. ASSUME NEW i \in DOMAIN queue' PROVE queue'[i].of <= selection
  BY <1>2, <1>3 DEF MenuInv, NotYet, MenuTyped
<1> QED BY <1>2, <1>3, <1>4

LEMMA AskAgainKept ==
  ASSUME MenuInv, Menu!AskAgain \/ Menu!Point
  PROVE  MenuInv'
<1> USE DEF MenuInv
<1>1. /\ UNCHANGED <<faults, selection, outcome, seen, fired, observed, observing>>
      /\ selection \in Selections /\ phase \in {"unrendered", "pointing"}
      /\ phase' \in {"asked", "finishing", "withdrawing"}
      /\ phase' = "finishing" => phase = "pointing"
  BY DEF Menu!AskAgain, Menu!Point, Menu!agentVars, MenuTyped
<1>2. \/ UNCHANGED queue /\ phase' = "withdrawing"
      \/ \E name \in {"select", "schedule"} : phase' = "asked" /\ queue' = Append(queue, Menu!Job(name, selection))
      \/ phase' = "finishing" /\ queue' = Append(queue, Menu!Job("press", selection))
  BY DEF Menu!AskAgain, Menu!Point
<1>3. CASE UNCHANGED queue /\ phase' = "withdrawing"
  BY <1>1, <1>3, Zenon
  DEF MenuTyped, MenuPhases, ObservedFired, OneJobEach, FiresOnce, Owes, Acts, NotYet, Fresh, Opening, Prompt
<1>4. ASSUME NEW name \in {"select", "schedule", "press"},
             queue' = Append(queue, Menu!Job(name, selection)),
             phase' = IF name = "press" THEN "finishing" ELSE "asked"
      PROVE  MenuInv'
  <2>1. /\ queue' \in Seq(Jobs) /\ Len(queue) \in Nat
        /\ DOMAIN queue' = 1 .. Len(queue) + 1 /\ DOMAIN queue = 1 .. Len(queue)
        /\ \A i \in DOMAIN queue : queue'[i] = queue[i]
        /\ queue'[Len(queue) + 1].do = name /\ queue'[Len(queue) + 1].of = selection
        /\ \A i \in DOMAIN queue' : queue'[i].of <= selection
    BY <1>1, <1>4, Appended DEF JobNames
  <2>2. MenuTyped' /\ ObservedFired' /\ NotYet'
    BY <1>1, <1>4, <2>1, Zenon DEF MenuTyped, MenuPhases, ObservedFired, NotYet
  <2>3. Prompt => fired[selection] = 0 /\ \A i \in DOMAIN queue : queue[i].of # selection
    BY <1>1 DEF Fresh, Opening
  <2>4. OneJobEach'
    BY <1>1, <2>1, <2>3 DEF OneJobEach, Acts, Prompt
  <2>5. FiresOnce'
    BY <1>1, <2>1, <2>3 DEF FiresOnce, Owes, Acts, Prompt
  <2>6. Fresh'
    BY <1>1, <1>4, <2>1, <2>3 DEF Fresh, Opening, Prompt
  <2> QED BY <2>2, <2>4, <2>5, <2>6
<1>5. CASE \E name \in {"select", "schedule"} :
             phase' = "asked" /\ queue' = Append(queue, Menu!Job(name, selection))
  <2>1. PICK name \in {"select", "schedule"} :
          phase' = "asked" /\ queue' = Append(queue, Menu!Job(name, selection))
    BY <1>5
  <2>2. phase' = IF name = "press" THEN "finishing" ELSE "asked"
    BY <2>1
  <2> QED BY <1>4, <2>1, <2>2
<1>6. CASE phase' = "finishing" /\ queue' = Append(queue, Menu!Job("press", selection))
  BY <1>4, <1>6
<1> QED BY <1>2, <1>3, <1>5, <1>6

(* The driver ends the selection, or reads what the agent observed.        *)
LEMMA EndingKept ==
  ASSUME MenuInv,
         \/ Menu!NoAnswer \/ Menu!AwaitExpires
         \/ Menu!StatusReadsObserved \/ Menu!StatusReadsFinished \/ Menu!StatusAnswered
  PROVE  MenuInv'
<1> USE DEF MenuInv
<1>1. /\ UNCHANGED <<faults, selection, queue, fired, observed, observing>>
      /\ selection \in Selections /\ phase' \in {"idle", "awaiting", "status", "status answered"}
  BY Zenon DEF Menu!NoAnswer, Menu!AwaitExpires, Menu!StatusReadsObserved, Menu!StatusReadsFinished,
         Menu!StatusAnswered, Menu!Ends, Menu!agentVars, MenuTyped
<1>2. /\ seen' \in [observed : BOOLEAN, finished : BOOLEAN]
      /\ seen'.observed => selection \in observed
  <2>1. CASE UNCHANGED seen
    BY <2>1 DEF MenuTyped, ObservedFired
  <2>2. CASE Menu!StatusReadsObserved
    <3>1. UNCHANGED seen \/ seen' = [Menu!NoStatus EXCEPT !.observed = selection \in observed]
      BY <2>2 DEF Menu!StatusReadsObserved
    <3>2. (selection \in observed) \in BOOLEAN
      OBVIOUS
    <3>3. PICK b \in BOOLEAN : b = (selection \in observed)
      BY <3>2
    <3>4. UNCHANGED seen \/ seen' = [Menu!NoStatus EXCEPT !.observed = b]
      BY <3>1, <3>3
    <3>5. UNCHANGED seen \/ seen' = [observed |-> b, finished |-> FALSE]
      BY <3>4 DEF Menu!NoStatus
    <3>6. b => selection \in observed
      BY <3>3
    <3>7. CASE seen' = [observed |-> b, finished |-> FALSE]
      <4>1. seen' \in [observed : BOOLEAN, finished : BOOLEAN] /\ seen'.observed = b
        BY <3>3, <3>7
      <4> QED BY <3>6, <4>1
    <3> QED BY <2>1, <3>5, <3>7
  <2>3. CASE Menu!StatusReadsFinished
    <3>1. seen' = [seen EXCEPT !.finished = selection \in finished \cup broken]
      BY <2>3, Zenon DEF Menu!StatusReadsFinished
    <3>2. (selection \in finished \cup broken) \in BOOLEAN
      OBVIOUS
    <3>3. PICK b \in BOOLEAN : b = (selection \in finished \cup broken)
      BY <3>2
    <3>4. seen' = [seen EXCEPT !.finished = b]
      BY <3>1, <3>3
    <3> QED BY <3>4 DEF MenuTyped, ObservedFired
  <2> QED
    BY <2>1, <2>2, <2>3, Zenon DEF Menu!NoAnswer, Menu!AwaitExpires, Menu!StatusAnswered
<1>3. \E said \in {"ok", "failed"} :
        /\ outcome' = outcome \/ outcome' = [outcome EXCEPT ![selection] = said]
        /\ said = "ok" => seen.observed
  BY Zenon DEF Menu!NoAnswer, Menu!AwaitExpires, Menu!StatusReadsObserved, Menu!StatusReadsFinished,
         Menu!StatusAnswered, Menu!Ends
<1>4. MenuTyped'
  BY <1>1, <1>2, <1>3, Zenon DEF MenuTyped, MenuPhases
<1>5. ObservedFired'
  BY <1>1, <1>2, <1>3, Zenon DEF ObservedFired, MenuTyped
<1>6. OneJobEach' /\ FiresOnce' /\ NotYet' /\ Fresh'
  BY <1>1, Zenon DEF OneJobEach, FiresOnce, Owes, Acts, NotYet, Fresh, Opening, Prompt
<1> QED BY <1>4, <1>5, <1>6

(* The driver withdraws, confirms or falls back: with a prompt JavaFX      *)
(* thread nothing is left of the click by then.                            *)
LEMMA FinishKept ==
  ASSUME MenuInv, Menu!Withdraw \/ Menu!Confirmed \/ Menu!Fallback
  PROVE  MenuInv'
<1> USE DEF MenuInv
<1>1. /\ UNCHANGED <<faults, selection, fired, observed, observing, seen>>
      /\ selection \in Selections /\ phase \in {"withdrawing", "finishing"}
      /\ phase' \in {"idle", "awaiting"}
  BY DEF Menu!Withdraw, Menu!Confirmed, Menu!Fallback, Menu!Ends, MenuTyped
<1>2. \E name \in {"cleanup", "fire"} : queue' = Append(queue, Menu!Job(name, selection)) /\ (name = "fire" => Menu!Fallback)
  BY DEF Menu!Withdraw, Menu!Confirmed, Menu!Fallback
<1>3. PICK name \in {"cleanup", "fire"} :
        queue' = Append(queue, Menu!Job(name, selection)) /\ (name = "fire" => Menu!Fallback)
  BY <1>2
<1>4. /\ queue' \in Seq(Jobs) /\ Len(queue) \in Nat
      /\ DOMAIN queue' = 1 .. Len(queue) + 1 /\ DOMAIN queue = 1 .. Len(queue)
      /\ \A i \in DOMAIN queue : queue'[i] = queue[i]
      /\ queue'[Len(queue) + 1].do = name /\ queue'[Len(queue) + 1].of = selection
      /\ \A i \in DOMAIN queue' : queue'[i].of <= selection
  BY <1>1, <1>3, Appended DEF JobNames
<1>5. \E said \in {"ok", "failed"} :
        /\ outcome' = outcome \/ outcome' = [outcome EXCEPT ![selection] = said]
        /\ said = "ok" => selection \in observed
  BY DEF Menu!Withdraw, Menu!Confirmed, Menu!Fallback, Menu!Ends
<1>6. MenuTyped' /\ NotYet'
  BY <1>1, <1>4, <1>5, Zenon DEF MenuTyped, MenuPhases, NotYet
<1>7. ObservedFired'
  BY <1>1, <1>5 DEF ObservedFired, MenuTyped
<1>8. Prompt /\ name = "fire" => fired[selection] = 0 /\ \A i \in DOMAIN queue : queue[i].of # selection
  <2> SUFFICES ASSUME Prompt, name = "fire" PROVE fired[selection] = 0 /\ \A i \in DOMAIN queue : queue[i].of # selection
    OBVIOUS
  <2>1. phase = "finishing" /\ selection \notin observed /\ \A i \in DOMAIN queue : queue[i].do # "press"
    BY <1>3 DEF Menu!Fallback, Prompt
  <2>2. \A i \in DOMAIN queue : queue[i].of # selection
    BY <2>1 DEF Fresh, Opening
  <2>3. fired[selection] # 1 /\ fired[selection] <= 1 /\ fired[selection] \in Nat
    BY <1>1, <2>1 DEF Fresh, Opening, FiresOnce, MenuTyped
  <2> QED BY <2>2, <2>3
<1>9. OneJobEach'
  BY <1>1, <1>4, <1>8 DEF OneJobEach, Acts, Acting, Prompt
<1>10. FiresOnce'
  BY <1>1, <1>4, <1>8 DEF FiresOnce, Owes, Acts, Acting, Prompt
<1>11. Fresh'
  BY <1>1 DEF Fresh, Opening
<1> QED BY <1>6, <1>7, <1>9, <1>10, <1>11

(* The JavaFX thread takes its first job. What stays in its queue was      *)
(* there before; the job it puts there itself is the second half of the    *)
(* one it took.                                                            *)
LEMMA TakenJob ==
  ASSUME MenuInv, queue # <<>>
  PROVE  /\ queue[1] \in Jobs /\ Head(queue) = queue[1] /\ queue[1].of \in Selections
         /\ queue[1].of <= selection /\ Len(queue) \in Nat \ {0} /\ DOMAIN queue = 1 .. Len(queue)
         /\ Tail(queue) \in Seq(Jobs) /\ DOMAIN Tail(queue) = 1 .. Len(queue) - 1
         /\ \A i \in 1 .. Len(queue) - 1 : Tail(queue)[i] = queue[i + 1]
<1>1. queue \in Seq(Jobs) /\ Len(queue) \in Nat \ {0} /\ DOMAIN queue = 1 .. Len(queue)
  BY DEF MenuInv, MenuTyped
<1>2. queue[1] \in Jobs /\ Head(queue) = queue[1] /\ 1 \in DOMAIN queue
  BY <1>1
<1>3. queue[1].of \in Selections /\ queue[1].of <= selection
  BY <1>2 DEF Jobs, MenuInv, NotYet
<1>4. /\ Tail(queue) \in Seq(Jobs) /\ DOMAIN Tail(queue) = 1 .. Len(queue) - 1
      /\ \A i \in 1 .. Len(queue) - 1 : Tail(queue)[i] = queue[i + 1]
  BY <1>1
<1> QED BY <1>1, <1>2, <1>3, <1>4

(* What is left in the queue when the thread ends a job: jobs that were    *)
(* there, in places of their own, and none of the selection of the job if  *)
(* that one could act.                                                     *)
LEMMA JobLeaves ==
  ASSUME MenuInv, queue # <<>>, queue' = Tail(queue), UNCHANGED <<faults, selection>>
  PROVE  /\ queue' \in Seq(Jobs)
         /\ \A i \in DOMAIN queue' : i + 1 \in DOMAIN queue /\ queue'[i] = queue[i + 1]
         /\ OneJobEach' /\ \A i \in DOMAIN queue' : queue'[i].of <= selection'
         /\ \A s \in Selections : Owes(s)' => Owes(s)
         /\ \A s \in Selections : Prompt /\ Acts(1, s) => ~Owes(s)'
<1>1. /\ queue' \in Seq(Jobs) /\ \A i \in DOMAIN queue' : i \in Nat /\ i + 1 # 1
      /\ 1 \in DOMAIN queue /\ queue[1].of \in Selections
      /\ \A i \in DOMAIN queue' : i + 1 \in DOMAIN queue /\ queue'[i] = queue[i + 1]
  BY TakenJob
<1>2. \A i \in DOMAIN queue', s \in Selections : Acts(i, s)' => Acts(i + 1, s)
  BY <1>1 DEF Acts
<1>3. OneJobEach'
  <2> SUFFICES ASSUME Prompt', NEW s \in Selections, NEW i \in DOMAIN queue', NEW j \in DOMAIN queue',
                      Acts(i, s)', Acts(j, s)'
               PROVE  i = j
    BY DEF OneJobEach
  <2>1. i + 1 = j + 1
    BY <1>1, <1>2 DEF MenuInv, OneJobEach, Prompt
  <2> QED BY <1>1, <2>1
<1>4. \A i \in DOMAIN queue' : queue'[i].of <= selection'
  BY <1>1 DEF MenuInv, NotYet
<1>5. \A s \in Selections : Owes(s)' => Owes(s)
  BY <1>1, <1>2 DEF Owes
<1>6. ASSUME NEW s \in Selections, Prompt, Acts(1, s) PROVE ~Owes(s)'
  <2> SUFFICES ASSUME NEW i \in DOMAIN queue', Acts(i, s)' PROVE FALSE
    BY DEF Owes
  <2>1. Acts(i + 1, s) /\ Acts(1, s)
    BY <1>2, <1>6
  <2> QED BY <1>1, <1>6, <2>1 DEF MenuInv, OneJobEach
<1> QED BY <1>1, <1>3, <1>4, <1>5, <1>6

LEMMA SelectKept ==
  ASSUME MenuInv, queue # <<>>, queue[1].do = "select", Menu!Select(queue[1].of), queue' = Tail(queue),
         UNCHANGED <<faults, selection, seen>>
  PROVE  MenuInv'
<1> USE DEF MenuInv
<1>0. PICK s \in Selections : s = queue[1].of
  BY TakenJob
<1>1. UNCHANGED <<fired, observed>> /\ Acts(1, s)
  BY <1>0 DEF Menu!Select, Acts, Acting
<1>2. /\ observing \subseteq observing' /\ observing' \subseteq observing \cup {s}
      /\ phase' = phase \/ (selection = s /\ phase = "asked" /\ phase' \in {"idle", "unrendered", "pointing"})
      /\ selection = s /\ phase = "asked" => phase' # "asked"
      /\ phase' = "pointing" /\ phase # "pointing" => s \in observing'
      /\ outcome' = outcome \/ outcome' = [outcome EXCEPT ![selection] = "failed"]
  BY <1>0 DEF Menu!Select, Menu!Resolve, Menu!Waits, Menu!Ends
<1>3. /\ queue' \in Seq(Jobs) /\ OneJobEach' /\ \A i \in DOMAIN queue' : queue'[i].of <= selection'
      /\ \A i \in DOMAIN queue' : i + 1 \in DOMAIN queue /\ queue'[i] = queue[i + 1]
      /\ \A t \in Selections : Owes(t)' => Owes(t)
      /\ Prompt => ~Owes(s)'
  BY <1>0, <1>1, JobLeaves
<1>4. MenuTyped' /\ ObservedFired' /\ NotYet'
  BY <1>1, <1>2, <1>3, Zenon DEF MenuTyped, MenuPhases, ObservedFired, NotYet
<1>5. FiresOnce'
  BY <1>1, <1>3 DEF FiresOnce, Prompt
<1>6. Fresh'
  <2> SUFFICES ASSUME Prompt, phase' \in Opening PROVE Fresh'
    BY DEF Fresh, Prompt
  <2>1. CASE phase' = phase
    <3>1. \A i \in DOMAIN queue' : queue'[i].of = selection =>
            \/ phase = "asked" /\ queue'[i].do \in {"select", "schedule"}
            \/ phase = "finishing" /\ queue'[i].do = "press"
      BY <1>3, <2>1 DEF Fresh
    <3> QED BY <1>1, <1>2, <2>1, <3>1 DEF Fresh
  <2>2. CASE phase' # phase
    <3>1. selection = s /\ phase = "asked" /\ phase' \in {"unrendered", "pointing"}
      BY <1>2, <2>2 DEF Opening
    <3>2. \A i \in DOMAIN queue' : queue'[i].of # selection
      <4> SUFFICES ASSUME NEW i \in DOMAIN queue', queue'[i].of = selection PROVE FALSE
        OBVIOUS
      <4>1. Acts(i, s)'
        BY <1>3, <3>1 DEF Fresh, Opening, Acts, Acting
      <4> QED BY <1>3, <4>1 DEF Owes
    <3> QED BY <1>1, <1>2, <3>1, <3>2 DEF Fresh, Opening
  <2> QED BY <2>1, <2>2
<1> QED BY <1>3, <1>4, <1>5, <1>6

(* An action event of an item, or none: what it adds to the counts and to  *)
(* the flags.                                                              *)
LEMMA EventCounted ==
  ASSUME MenuInv, NEW s \in Selections, UNCHANGED <<outcome, seen, selection>>,
         \/ UNCHANGED <<fired, observed>>
         \/ /\ fired' = [fired EXCEPT ![s] = @ + 1]
            /\ observed' = IF s \in observing THEN observed \cup {s} ELSE observed
  PROVE  /\ fired' \in [Selections -> Nat] /\ observed' \subseteq Selections /\ ObservedFired'
         /\ fired[s] \in Nat /\ fired'[s] \in {fired[s], fired[s] + 1}
         /\ \A t \in Selections : t # s => fired'[t] = fired[t]
         /\ observed \subseteq observed'
         /\ s \in observing /\ fired'[s] # fired[s] => s \in observed'
<1> USE DEF MenuInv
<1>1. CASE UNCHANGED <<fired, observed>>
  BY <1>1 DEF MenuTyped, ObservedFired
<1>2. CASE /\ fired' = [fired EXCEPT ![s] = @ + 1]
           /\ observed' = IF s \in observing THEN observed \cup {s} ELSE observed
  <2>1. /\ fired \in [Selections -> Nat] /\ fired[s] \in Nat /\ observed \subseteq Selections
    BY DEF MenuTyped
  <2>2. /\ fired' \in [Selections -> Nat] /\ fired'[s] = fired[s] + 1
        /\ \A t \in Selections : t # s => fired'[t] = fired[t]
    BY <1>2, <2>1
  <2>3. \A t \in Selections : fired'[t] \in Nat /\ fired[t] \in Nat /\ fired'[t] >= fired[t]
    BY <2>1, <2>2
  <2>4. /\ observed \subseteq observed' /\ observed' \subseteq observed \cup {s}
        /\ s \in observing => s \in observed'
    BY <1>2
  <2>5. \A t \in observed' : fired'[t] >= 1
    BY <2>1, <2>2, <2>3, <2>4 DEF ObservedFired
  <2>6. \A t \in Selections : outcome'[t] = "ok" => fired'[t] >= 1
    BY <2>3 DEF ObservedFired
  <2>7. seen'.observed => selection' \in observed'
    BY <2>4 DEF ObservedFired
  <2>8. ObservedFired'
    BY <2>5, <2>6, <2>7 DEF ObservedFired
  <2> QED BY <2>1, <2>2, <2>4, <2>8
<1> QED BY <1>1, <1>2

LEMMA PressKept ==
  ASSUME MenuInv, queue # <<>>, queue[1].do = "press", Menu!Press(queue[1].of), queue' = Tail(queue),
         UNCHANGED <<faults, selection, seen>>
  PROVE  MenuInv'
<1> USE DEF MenuInv
<1>0. PICK s \in Selections : s = queue[1].of
  BY TakenJob
<1>1. UNCHANGED <<phase, outcome, observing>> /\ Acts(1, s)
  BY <1>0 DEF Menu!Press, Acts, Acting
<1>2. \/ UNCHANGED <<fired, observed>>
      \/ /\ fired' = [fired EXCEPT ![s] = @ + 1]
         /\ observed' = IF s \in observing THEN observed \cup {s} ELSE observed
  BY <1>0 DEF Menu!Press, Menu!ActionEvent
<1>3. /\ queue' \in Seq(Jobs) /\ OneJobEach' /\ \A i \in DOMAIN queue' : queue'[i].of <= selection'
      /\ \A i \in DOMAIN queue' : i + 1 \in DOMAIN queue /\ queue'[i] = queue[i + 1]
      /\ \A t \in Selections : Owes(t)' => Owes(t)
      /\ Prompt => ~Owes(s)'
  BY <1>0, <1>1, JobLeaves
<1>4. s <= selection /\ Owes(s) /\ 1 \in DOMAIN queue
  BY <1>0, <1>1, TakenJob DEF Owes
<1>counted.
      /\ fired' \in [Selections -> Nat] /\ observed' \subseteq Selections /\ ObservedFired'
      /\ fired[s] \in Nat /\ fired'[s] \in {fired[s], fired[s] + 1}
      /\ \A t \in Selections : t # s => fired'[t] = fired[t]
      /\ observed \subseteq observed'
      /\ s \in observing /\ fired'[s] # fired[s] => s \in observed'
  BY <1>1, <1>2, EventCounted
<1>5. MenuTyped' /\ NotYet'
  <2>1. \A t \in Selections : t > selection => fired'[t] = 0
    BY <1>4, <1>counted DEF MenuTyped, NotYet, Selections
  <2> QED BY <1>1, <1>3, <1>counted, <2>1 DEF MenuTyped, NotYet
<1>7. FiresOnce'
  <2>1. Prompt => fired[s] = 0
    BY <1>4, <1>counted DEF FiresOnce
  <2> QED BY <1>3, <1>counted, <2>1 DEF FiresOnce, Prompt
<1>8. Fresh'
  <2> SUFFICES ASSUME Prompt, phase \in Opening PROVE Fresh'
    BY <1>1 DEF Fresh, Prompt
  <2>1. \A i \in DOMAIN queue' : queue'[i].of = selection =>
          \/ phase = "asked" /\ queue'[i].do \in {"select", "schedule"}
          \/ phase = "finishing" /\ queue'[i].do = "press"
    BY <1>3 DEF Fresh
  <2>2. CASE s # selection
    <3>1. fired'[selection] = fired[selection] /\ (selection \in observed => selection \in observed')
      BY <1>counted, <2>2 DEF MenuTyped, Opening
    <3> QED BY <1>1, <2>1, <3>1 DEF Fresh
  <2>3. CASE s = selection
    <3>1. phase = "finishing"
      BY <1>0, <1>4, <2>3 DEF Fresh
    <3>2. s \in observing /\ fired[s] # 1
      BY <1>4, <2>3, <3>1 DEF Fresh, FiresOnce
    <3>3. fired'[s] = 1 => s \in observed'
      BY <1>counted, <3>2
    <3> QED BY <1>1, <2>1, <2>3, <3>1, <3>2, <3>3 DEF Fresh
  <2> QED BY <2>2, <2>3
<1> QED BY <1>3, <1>5, <1>7, <1>8, <1>counted

LEMMA CleanupKept ==
  ASSUME MenuInv, queue # <<>>, queue[1].do \in {"fired", "cleanup"},
         Menu!FireDone(queue[1].of) \/ Menu!Cleanup(queue[1].of), queue' = Tail(queue),
         UNCHANGED <<faults, selection, seen>>
  PROVE  MenuInv'
<1> USE DEF MenuInv
<1>0. PICK s \in Selections : s = queue[1].of
  BY TakenJob
<1>1. UNCHANGED <<phase, outcome, fired, observed>> /\ observing' = observing \ {s}
  BY <1>0 DEF Menu!FireDone, Menu!Cleanup
<1>2. /\ queue' \in Seq(Jobs) /\ OneJobEach' /\ \A i \in DOMAIN queue' : queue'[i].of <= selection'
      /\ \A i \in DOMAIN queue' : i + 1 \in DOMAIN queue /\ queue'[i] = queue[i + 1]
      /\ \A t \in Selections : Owes(t)' => Owes(t)
  BY JobLeaves
<1>3. MenuTyped' /\ ObservedFired' /\ NotYet'
  BY <1>1, <1>2 DEF MenuTyped, ObservedFired, NotYet
<1>4. FiresOnce'
  BY <1>1, <1>2 DEF FiresOnce, Prompt
<1>5. Fresh'
  <2> SUFFICES ASSUME Prompt, phase \in Opening PROVE Fresh'
    BY <1>1 DEF Fresh, Prompt
  <2>1. 1 \in DOMAIN queue
    BY TakenJob
  <2>2. s # selection
    BY <1>0, <2>1 DEF Fresh
  <2>3. \A i \in DOMAIN queue' : queue'[i].of = selection =>
          \/ phase = "asked" /\ queue'[i].do \in {"select", "schedule"}
          \/ phase = "finishing" /\ queue'[i].do = "press"
    BY <1>2 DEF Fresh
  <2> QED BY <1>1, <2>2, <2>3 DEF Fresh
<1> QED BY <1>2, <1>3, <1>4, <1>5

(* The second half of a job is still the only one of its selection.        *)
LEMMA ScheduleKept ==
  ASSUME MenuInv, queue # <<>>, queue[1].do = "schedule", Menu!Schedule(queue[1].of),
         queue' = Append(Tail(queue), Menu!Job("fire", queue[1].of)),
         UNCHANGED <<faults, selection, seen>>
  PROVE  MenuInv'
<1> USE DEF MenuInv
<1>0. PICK s \in Selections : s = queue[1].of
  BY TakenJob
<1>1. /\ UNCHANGED <<fired, observed>> /\ Acts(1, s) /\ 1 \in DOMAIN queue /\ s <= selection /\ Owes(s)
      /\ UNCHANGED outcome /\ observing' = observing \cup {s}
  BY <1>0, TakenJob DEF Menu!Schedule, Acts, Acting, Owes
<1>2. phase' = IF selection = s /\ phase = "asked" THEN "awaiting" ELSE phase
  BY <1>0 DEF Menu!Schedule, Menu!Waits
<1>3. PICK n \in Nat \ {0} :
        /\ n = Len(queue) /\ DOMAIN queue = 1 .. n /\ DOMAIN queue' = 1 .. n
        /\ queue' \in Seq(Jobs)
        /\ \A i \in 1 .. n - 1 : queue'[i] = queue[i + 1]
        /\ queue'[n] = Menu!Job("fire", s)
  <2>1. Menu!Job("fire", s) \in Jobs
    BY DEF Menu!Job, Jobs, JobNames
  <2>2. /\ Tail(queue) \in Seq(Jobs) /\ Len(queue) \in Nat \ {0} /\ Len(Tail(queue)) = Len(queue) - 1
        /\ \A i \in 1 .. Len(queue) - 1 : Tail(queue)[i] = queue[i + 1]
    BY TakenJob DEF MenuTyped
  <2>3. queue' \in Seq(Jobs) /\ Len(queue') = Len(queue)
    BY <1>0, <2>1, <2>2
  <2>4. queue'[Len(queue)] = Menu!Job("fire", s)
    BY <1>0, <2>1, <2>2
  <2>5. \A i \in 1 .. Len(queue) - 1 : queue'[i] = queue[i + 1]
    BY <1>0, <2>1, <2>2
  <2>6. DOMAIN queue = 1 .. Len(queue) /\ DOMAIN queue' = 1 .. Len(queue)
    BY <2>3, TakenJob
  <2> QED BY <2>2, <2>3, <2>4, <2>5, <2>6, Zenon
<1>4. queue'[n].do = "fire" /\ queue'[n].of = s
  BY <1>3 DEF Menu!Job
<1>5. \A i \in 1 .. n - 1, t \in Selections : Acts(i, t)' => Acts(i + 1, t)
  BY <1>3 DEF Acts
<1>6. \A t \in Selections : Owes(t)' => Owes(t)
  BY <1>1, <1>3, <1>4, <1>5 DEF Owes, Acts
<1>7. Prompt => \A i \in 1 .. n - 1 : ~Acts(i, s)'
  BY <1>1, <1>3, <1>5 DEF OneJobEach
<1>8. OneJobEach'
  <2> SUFFICES ASSUME Prompt, NEW t \in Selections, NEW i \in 1 .. n, NEW j \in 1 .. n, Acts(i, t)', Acts(j, t)'
               PROVE  i = j
    BY <1>3 DEF OneJobEach, Prompt
  <2>1. CASE i # n /\ j # n
    <3>1. i + 1 = j + 1
      BY <1>3, <1>5, <2>1 DEF OneJobEach
    <3> QED BY <3>1
  <2>2. CASE i = n \/ j = n
    <3>1. t = s
      BY <1>4, <2>2 DEF Acts
    <3> QED BY <1>7, <2>2, <3>1
  <2> QED BY <2>1, <2>2
<1>9. \A i \in DOMAIN queue' : queue'[i].of <= selection
  BY <1>1, <1>3, <1>4 DEF NotYet
<1>10. MenuTyped' /\ ObservedFired' /\ NotYet'
  BY <1>1, <1>2, <1>3, <1>9, Zenon DEF MenuTyped, MenuPhases, ObservedFired, NotYet
<1>11. FiresOnce'
  BY <1>1, <1>6 DEF FiresOnce, Prompt
<1>12. Fresh'
  <2> SUFFICES ASSUME Prompt, phase' \in Opening PROVE Fresh'
    BY DEF Fresh, Prompt
  <2>1. phase' = phase /\ s # selection
    BY <1>0, <1>1, <1>2 DEF Fresh, Opening
  <2>2. \A i \in DOMAIN queue' : queue'[i].of = selection =>
          \/ phase = "asked" /\ queue'[i].do \in {"select", "schedule"}
          \/ phase = "finishing" /\ queue'[i].do = "press"
    BY <1>3, <1>4, <2>1 DEF Fresh
  <2> QED BY <1>1, <2>1, <2>2 DEF Fresh
<1> QED BY <1>8, <1>10, <1>11, <1>12

LEMMA FireKept ==
  ASSUME MenuInv, queue # <<>>, queue[1].do = "fire", Menu!Fire(queue[1].of),
         queue' = <<Menu!Job("fired", queue[1].of)>> \o Tail(queue),
         UNCHANGED <<faults, selection, seen>>
  PROVE  MenuInv'
<1> USE DEF MenuInv
<1>0. PICK s \in Selections : s = queue[1].of
  BY TakenJob
<1>1. /\ UNCHANGED <<phase, outcome, observing>> /\ Acts(1, s)
      /\ 1 \in DOMAIN queue /\ s <= selection /\ Owes(s)
  BY <1>0, TakenJob DEF Menu!Fire, Acts, Acting, Owes
<1>2. \/ UNCHANGED <<fired, observed>>
      \/ /\ fired' = [fired EXCEPT ![s] = @ + 1]
         /\ observed' = IF s \in observing THEN observed \cup {s} ELSE observed
  BY <1>0 DEF Menu!Fire, Menu!ActionEvent
<1>3. PICK n \in Nat \ {0} :
        /\ n = Len(queue) /\ DOMAIN queue = 1 .. n /\ DOMAIN queue' = 1 .. n
        /\ queue' \in Seq(Jobs)
        /\ \A i \in 2 .. n : queue'[i] = queue[i]
        /\ queue'[1] = Menu!Job("fired", s)
  <2>1. Menu!Job("fired", s) \in Jobs
    BY DEF Menu!Job, Jobs, JobNames
  <2>2. <<Menu!Job("fired", s)>> \in Seq(Jobs) /\ Len(<<Menu!Job("fired", s)>>) = 1
    BY <2>1
  <2>3. /\ Tail(queue) \in Seq(Jobs) /\ Len(queue) \in Nat \ {0} /\ Len(Tail(queue)) = Len(queue) - 1
        /\ \A i \in 2 .. Len(queue) : Tail(queue)[i - 1] = queue[i]
    BY TakenJob DEF MenuTyped
  <2>4. queue' \in Seq(Jobs) /\ Len(queue') = Len(queue)
    BY <1>0, <2>2, <2>3
  <2>5. queue'[1] = Menu!Job("fired", s)
    BY <1>0, <2>2, <2>3
  <2>6. \A i \in 2 .. Len(queue) : queue'[i] = Tail(queue)[i - 1]
    BY <1>0, <2>2, <2>3
  <2>7. DOMAIN queue = 1 .. Len(queue) /\ DOMAIN queue' = 1 .. Len(queue)
    BY <2>4, TakenJob
  <2> QED BY <2>3, <2>4, <2>5, <2>6, <2>7, Zenon
<1>4. queue'[1].do = "fired" /\ queue'[1].of = s
  BY <1>3 DEF Menu!Job
<1>5. \A i \in 1 .. n, t \in Selections : Acts(i, t)' => i # 1 /\ Acts(i, t)
  BY <1>3, <1>4 DEF Acts, Acting
<1>6. \A t \in Selections : Owes(t)' => Owes(t)
  BY <1>3, <1>5 DEF Owes
<1>7. Prompt => ~Owes(s)'
  BY <1>1, <1>3, <1>5 DEF OneJobEach, Owes
<1>8. OneJobEach'
  BY <1>3, <1>5 DEF OneJobEach, Prompt
<1>9. \A i \in DOMAIN queue' : queue'[i].of <= selection
  BY <1>1, <1>3, <1>4 DEF NotYet
<1>counted.
      /\ fired' \in [Selections -> Nat] /\ observed' \subseteq Selections /\ ObservedFired'
      /\ fired[s] \in Nat /\ fired'[s] \in {fired[s], fired[s] + 1}
      /\ \A t \in Selections : t # s => fired'[t] = fired[t]
      /\ observed \subseteq observed'
  BY <1>1, <1>2, EventCounted
<1>10. MenuTyped' /\ NotYet'
  <2>1. \A t \in Selections : t > selection => fired'[t] = 0
    BY <1>1, <1>counted DEF MenuTyped, NotYet, Selections
  <2> QED BY <1>1, <1>3, <1>9, <1>counted, <2>1 DEF MenuTyped, NotYet
<1>12. FiresOnce'
  <2>1. Prompt => fired[s] = 0
    BY <1>1, <1>counted DEF FiresOnce
  <2> QED BY <1>6, <1>7, <1>counted, <2>1 DEF FiresOnce, Prompt
<1>13. Fresh'
  <2> SUFFICES ASSUME Prompt, phase \in Opening PROVE Fresh'
    BY <1>1 DEF Fresh, Prompt
  <2>1. s # selection
    BY <1>0, <1>1 DEF Fresh
  <2>2. \A i \in DOMAIN queue' : queue'[i].of = selection =>
          \/ phase = "asked" /\ queue'[i].do \in {"select", "schedule"}
          \/ phase = "finishing" /\ queue'[i].do = "press"
    BY <1>3, <1>4, <2>1 DEF Fresh
  <2>3. fired'[selection] = fired[selection] /\ (selection \in observed => selection \in observed')
    BY <1>counted, <2>1 DEF MenuTyped, Opening
  <2> QED BY <1>1, <2>2, <2>3 DEF Fresh
<1> QED BY <1>8, <1>10, <1>12, <1>13, <1>counted

LEMMA MenuKept ==
  ASSUME MenuInv, [Menu!Next]_Menu!vars
  PROVE  MenuInv'
<1>1. CASE UNCHANGED Menu!vars
  BY <1>1
  DEF Menu!vars, MenuInv, MenuTyped, ObservedFired, OneJobEach, FiresOnce, Owes, Acts, NotYet, Fresh, Prompt
<1>2. CASE Menu!JavaFxThread
  <2>1. queue # <<>> /\ Head(queue) = queue[1] /\ UNCHANGED <<faults, selection, seen>>
    BY <1>2, TakenJob DEF Menu!JavaFxThread
  <2> QED
    BY <1>2, <2>1, SelectKept, PressKept, CleanupKept, ScheduleKept, FireKept
    DEF Menu!JavaFxThread, Menu!FireDone
<1> QED
  BY <1>1, <1>2, AskKept, AskAgainKept, EndingKept, FinishKept DEF Menu!Next, Menu!Driver, Menu!Status

(* A selection that is reported to have succeeded made its menu item act,  *)
(* and with a prompt JavaFX thread once: the fallback of finishMenuClick   *)
(* never doubles a click, whatever requests are lost and repeated, for any *)
(* number of selections.                                                   *)
THEOREM MenuSelection == Spec => []SelectedOnce
<1> DEFINE Kept == part = "menu" => MenuInv
<1>1. Init => Kept
  BY MenuStarts DEF Init
<1>2. Kept /\ [Next]_vars => Kept'
  <2> SUFFICES ASSUME Kept, [Next]_vars, part' = "menu" PROVE MenuInv'
    OBVIOUS
  <2>1. part = "menu" /\ [Menu!Next]_Menu!vars
    BY Zenon DEF Next, vars, onlyMenu, Menu!vars, Menu!agentVars
  <2> QED BY <2>1, MenuKept
<1>3. Kept => SelectedOnce
  BY DEF SelectedOnce, Menu!SelectedOnce, MenuInv, ObservedFired, FiresOnce, Prompt, Selections, Menu!Selections
<1> QED BY <1>1, <1>2, <1>3, PTL DEF Spec

-----------------------------------------------------------------------------
(* Locators: a locator finds the one object it means.                      *)

Nodes == 1 .. MaxNodes

LocatorTyped ==
  /\ \A n \in Nodes : node[n].jvm \in Locator!Jvms
  /\ live \subseteq Nodes /\ pinged \subseteq Locator!Jvms
  /\ backend \in {"javafx", "atspi"}
  /\ step \in {"find", "act", "changed", "done", "done late"}
  /\ step = "find" => found = Locator!Nobody
  /\ step \in {"find", "act", "changed"} => acted = Locator!Nobody
  /\ step \in {"act", "changed"} => found # Locator!Nobody

(* What was found is still what Find looks for while nothing changed.      *)
FoundIsUnique == step = "act" => found \in Locator!Finds /\ Cardinality(Locator!Finds) = 1

LocatorInv == LocatorTyped /\ FoundIsUnique /\ Locator!FoundIsMeant /\ Locator!ActsOnFound

USE DEF Locator!Nobody, Locator!Any

(* Locators has its own Cardinality: the one of FiniteSets.                *)
LEMMA SameCardinality == \A S : Locator!Cardinality(S) = Cardinality(S)
  BY DEF Locator!Cardinality, Cardinality

(* A set of nodes with one element, whichever way it is narrowed.          *)
LEMMA OneNode ==
  ASSUME NEW S \in SUBSET Nodes, Cardinality(S) = 1
  PROVE  \A m, n \in S : m = n
<1>1. IsFiniteSet(S)
  <2>1. IsFiniteSet(Nodes)
    BY BoundsAssumption, FS_Interval DEF Nodes
  <2> QED BY <2>1, FS_Subset
<1>2. PICK x : S = {x}
  BY <1>1, FS_Singleton
<1> QED BY <1>2

LEMMA NobodyIsNoNode == Locator!Nobody \notin Nodes
  BY DEF Nodes

(* Each way of narrowing keeps what the locator means and drops what has   *)
(* another id; the agent's also drops what is in another window.           *)
LEMMA LeavesBetween ==
  ASSUME NEW ns
  PROVE  /\ Locator!Means(ns) \subseteq Locator!AgentLeaves(ns)
         /\ Locator!AgentLeaves(ns) \subseteq Locator!InWindow(Locator!Named(ns))
         /\ Locator!Means(ns) \subseteq Locator!RegexLeaves(ns) /\ Locator!RegexLeaves(ns) \subseteq Locator!Named(ns)
         /\ Locator!Means(ns) \subseteq Locator!AtspiLeaves(ns) /\ Locator!AtspiLeaves(ns) \subseteq Locator!Named(ns)
<1>1. \A S : Locator!InWindow(S) \subseteq S /\ Locator!WithText(S) \subseteq S
  BY DEF Locator!InWindow, Locator!WithText
<1>2. \A S, T : T \subseteq S => T \subseteq Locator!Unless1(S, T) /\ Locator!Unless1(S, T) \subseteq S
  BY DEF Locator!Unless1
<1>3. \A S, T : S \subseteq T => Locator!WithText(S) \subseteq Locator!WithText(T)
  BY DEF Locator!WithText
<1>4. /\ Locator!Means(ns) \subseteq Locator!AgentLeaves(ns)
      /\ Locator!AgentLeaves(ns) \subseteq Locator!InWindow(Locator!Named(ns))
  BY <1>1, <1>2 DEF Locator!Means, Locator!AgentLeaves
<1>5. Locator!Means(ns) \subseteq Locator!RegexLeaves(ns) /\ Locator!RegexLeaves(ns) \subseteq Locator!Named(ns)
  <2> DEFINE w == Locator!Unless1(Locator!Named(ns), Locator!InWindow(Locator!Named(ns)))
  <2>1. Locator!InWindow(Locator!Named(ns)) \subseteq w /\ w \subseteq Locator!Named(ns)
    BY <1>1, <1>2
  <2>2. Locator!RegexLeaves(ns) = Locator!Unless1(w, Locator!WithText(w))
    BY DEF Locator!RegexLeaves
  <2>3. Locator!Means(ns) \subseteq Locator!WithText(w)
    BY <1>3, <2>1 DEF Locator!Means
  <2> QED BY <1>1, <1>2, <2>1, <2>2, <2>3
<1>6. Locator!AtspiLeaves(ns) = Locator!RegexLeaves(ns)
  BY DEF Locator!AtspiLeaves, Locator!RegexLeaves
<1> QED BY <1>4, <1>5, <1>6

LEMMA PickedWithin ==
  ASSUME NEW S
  PROVE  Locator!Picked(S) \subseteq S /\ (locator.ordinal = Locator!NoOrdinal => Locator!Picked(S) = S)
  BY DEF Locator!Picked, Locator!Nth

(* The nodes that the agents of the JVMs that answered the ping could have *)
(* found: none in another window than the one the locator names, and none  *)
(* left out.                                                               *)
AgentsLeave == UNION {Locator!OfScope(Locator!AgentLeaves(Locator!Of(j))) : j \in Locator!Asked}

LEMMA AgentsLeaveMeant ==
  ASSUME LocatorTyped
  PROVE  /\ Locator!Means(Locator!Inspected) \subseteq AgentsLeave
         /\ \A n \in AgentsLeave :
              /\ n \in live /\ node[n].id = "x" /\ locator.window \in {Locator!Any, node[n].window}
              /\ n \in Locator!AgentLeaves(Locator!Of(node[n].jvm)) /\ node[n].jvm \in Locator!Asked
<1>1. ASSUME NEW n \in Locator!Means(Locator!Inspected) PROVE n \in AgentsLeave
  <2>1. /\ n \in live /\ node[n].id = "x" /\ locator.window \in {Locator!Any, node[n].window}
        /\ locator.text \in {Locator!Any, node[n].text} /\ node[n].jvm \in pinged
    BY <1>1 DEF Locator!Means, Locator!WithText, Locator!InWindow, Locator!Named, Locator!Inspected
  <2>2. PICK j \in pinged : j = node[n].jvm
    BY <2>1, Zenon
  <2>3. n \in Locator!Of(j)
    BY <2>1, <2>2 DEF Locator!Of
  <2>4. n \in Locator!Means(Locator!Of(j))
    BY <2>1, <2>3 DEF Locator!Means, Locator!WithText, Locator!InWindow, Locator!Named
  <2>5. n \in Locator!AgentLeaves(Locator!Of(j))
    BY <2>4, LeavesBetween
  <2>6. j \in Locator!Asked
    BY <2>1, <2>2, <2>3 DEF Locator!Asked, Locator!Scoped, Locator!Owners
  <2>7. n \in Locator!OfScope(Locator!AgentLeaves(Locator!Of(j)))
    BY <2>1, <2>5 DEF Locator!OfScope, Locator!InWindow
  <2> QED BY <2>6, <2>7 DEF AgentsLeave
<1>2. ASSUME NEW n \in AgentsLeave
      PROVE  /\ n \in live /\ node[n].id = "x" /\ locator.window \in {Locator!Any, node[n].window}
             /\ n \in Locator!AgentLeaves(Locator!Of(node[n].jvm)) /\ node[n].jvm \in Locator!Asked
  <2>1. PICK j \in Locator!Asked : n \in Locator!OfScope(Locator!AgentLeaves(Locator!Of(j)))
    BY DEF AgentsLeave
  <2>2. n \in Locator!AgentLeaves(Locator!Of(j))
    BY <2>1 DEF Locator!OfScope, Locator!InWindow
  <2>3. n \in Locator!InWindow(Locator!Named(Locator!Of(j)))
    BY <2>2, LeavesBetween
  <2>4. /\ n \in Locator!Of(j) /\ node[n].id = "x" /\ locator.window \in {Locator!Any, node[n].window}
    BY <2>3 DEF Locator!InWindow, Locator!Named
  <2>5. n \in live /\ node[n].jvm = j
    BY <2>4 DEF Locator!Of
  <2> QED BY <2>1, <2>2, <2>4, <2>5
<1> QED BY <1>1, <1>2

LEMMA JavafxFindsThem ==
  ASSUME Locator!JavafxFinds # {}
  PROVE  /\ Locator!JavafxFinds = Locator!Picked(IF locator.regex THEN Locator!RegexLeaves(Locator!Inspected) ELSE AgentsLeave)
         /\ Locator!Scoped => Cardinality(Locator!Owners) = 1
<1>1. ~(silent # {} \/ (Locator!Scoped /\ Cardinality(Locator!Owners) # 1))
  BY SameCardinality DEF Locator!JavafxFinds
<1>2. Locator!Scoped => Cardinality(Locator!Owners) = 1
  BY <1>1
<1>3. CASE locator.regex
  BY <1>2, <1>3 DEF Locator!JavafxFinds
<1>4. CASE ~locator.regex
  BY <1>2, <1>4 DEF Locator!JavafxFinds, AgentsLeave
<1> QED BY <1>3, <1>4

(* The nodes a locator can mean when it is resolved.                       *)
Lookable == IF backend = "javafx" THEN Locator!Inspected ELSE live

(* What Find accepts is the only object that is left.                      *)
LEMMA FindsMeant ==
  ASSUME LocatorTyped, NEW n \in Locator!Finds, Cardinality(Locator!Finds) = 1
  PROVE  /\ n \in live /\ node[n].id = "x"
         /\ locator.ordinal = Locator!NoOrdinal => Locator!Means(Lookable) \subseteq {n}
         /\ Locator!Scoped /\ backend = "javafx" => node[n].window = locator.window
         /\ backend = "javafx" /\ ~locator.regex => Locator!Finds = Locator!Picked(AgentsLeave) /\ n \in AgentsLeave
<1>1. CASE backend = "javafx"
  <2>a. Lookable = Locator!Inspected /\ Locator!Inspected \subseteq live
    BY <1>1 DEF Lookable, Locator!Inspected
  <2>1. /\ Locator!Finds = Locator!Picked(IF locator.regex THEN Locator!RegexLeaves(Locator!Inspected) ELSE AgentsLeave)
        /\ Locator!Scoped => Cardinality(Locator!Owners) = 1
    BY <1>1, JavafxFindsThem DEF Locator!Finds
  <2>2. CASE locator.regex
    <3>1. n \in Locator!RegexLeaves(Locator!Inspected) /\ Locator!Finds \subseteq Locator!RegexLeaves(Locator!Inspected)
      BY <2>1, <2>2, PickedWithin
    <3>2. Locator!Means(Locator!Inspected) \subseteq Locator!RegexLeaves(Locator!Inspected) /\ Locator!RegexLeaves(Locator!Inspected) \subseteq Locator!Named(Locator!Inspected)
      BY LeavesBetween
    <3>3. n \in live /\ node[n].id = "x" /\ Locator!Finds \in SUBSET Nodes
      BY <2>a, <3>1, <3>2, Zenon DEF Locator!Named, LocatorTyped
    <3>4. locator.ordinal = Locator!NoOrdinal => Locator!Means(Locator!Inspected) \subseteq {n}
      BY <2>1, <2>2, <3>2, <3>3, PickedWithin, OneNode
    <3> QED BY <2>2, <2>a, <3>3, <3>4 DEF Locator!Scoped
  <2>3. CASE ~locator.regex
    <3>1. Locator!Finds = Locator!Picked(AgentsLeave) /\ n \in AgentsLeave /\ Locator!Finds \subseteq AgentsLeave
      BY <2>1, <2>3, PickedWithin
    <3>2. n \in live /\ node[n].id = "x" /\ locator.window \in {Locator!Any, node[n].window}
      BY <3>1, AgentsLeaveMeant
    <3>3. Locator!Finds \in SUBSET Nodes
      BY <3>1, AgentsLeaveMeant, Zenon DEF LocatorTyped
    <3>4. locator.ordinal = Locator!NoOrdinal => Locator!Means(Locator!Inspected) \subseteq {n}
      BY <3>1, <3>3, AgentsLeaveMeant, PickedWithin, OneNode
    <3> QED BY <2>a, <3>1, <3>2, <3>4 DEF Locator!Scoped
  <2> QED BY <2>2, <2>3
<1>2. CASE backend = "atspi"
  <2>1. Locator!Finds = Locator!Picked(Locator!AtspiLeaves(live))
    BY <1>2 DEF Locator!Finds
  <2>2. n \in Locator!AtspiLeaves(live) /\ Locator!Finds \subseteq Locator!AtspiLeaves(live)
    BY <2>1, PickedWithin
  <2>3. Locator!Means(live) \subseteq Locator!AtspiLeaves(live) /\ Locator!AtspiLeaves(live) \subseteq Locator!Named(live)
    BY LeavesBetween
  <2>4. n \in live /\ node[n].id = "x" /\ Locator!Finds \in SUBSET Nodes
    BY <2>2, <2>3, Zenon DEF Locator!Named, LocatorTyped
  <2>5. locator.ordinal = Locator!NoOrdinal => Locator!Means(live) \subseteq {n}
    BY <2>1, <2>3, <2>4, PickedWithin, OneNode
  <2>6. Lookable = live
    BY <1>2 DEF Lookable
  <2> QED BY <1>2, <2>4, <2>5, <2>6
<1> QED BY <1>1, <1>2, Zenon DEF LocatorTyped

(* Narrowing depends on the tree and the locator alone.                    *)
LEMMA NarrowingSame ==
  ASSUME UNCHANGED <<backend, node, live, pinged, silent, locator>>
  PROVE  UNCHANGED Locator!Finds
<1>1. \A S : Locator!Named(S)' = Locator!Named(S)
  BY DEF Locator!Named
<1>2. \A S : Locator!InWindow(S)' = Locator!InWindow(S)
  BY DEF Locator!InWindow
<1>3. \A S : Locator!WithText(S)' = Locator!WithText(S)
  BY DEF Locator!WithText
<1>4. \A j : Locator!Of(j)' = Locator!Of(j)
  BY DEF Locator!Of
<1>5. \A S : Locator!AgentLeaves(S)' = Locator!AgentLeaves(S)
  BY <1>1, <1>2, <1>3 DEF Locator!AgentLeaves
<1>6. \A S : Locator!RegexLeaves(S)' = Locator!RegexLeaves(S) /\ Locator!AtspiLeaves(S)' = Locator!AtspiLeaves(S)
  BY <1>1, <1>2, <1>3 DEF Locator!RegexLeaves, Locator!AtspiLeaves
<1>7. \A S : Locator!Picked(S)' = Locator!Picked(S)
  BY DEF Locator!Picked, Locator!Nth
<1>8. Locator!Scoped' = Locator!Scoped /\ Locator!Owners' = Locator!Owners /\ Locator!Asked' = Locator!Asked
  BY <1>4 DEF Locator!Scoped, Locator!Owners, Locator!Asked
<1>11. Locator!Inspected' = Locator!Inspected
  BY DEF Locator!Inspected
<1>9. \A S : Locator!OfScope(S)' = Locator!OfScope(S)
  BY <1>2, <1>8 DEF Locator!OfScope
<1>10. Locator!JavafxFinds' = Locator!JavafxFinds
  BY <1>4, <1>5, <1>6, <1>7, <1>8, <1>9, <1>11 DEF Locator!JavafxFinds
<1> QED BY <1>6, <1>7, <1>10 DEF Locator!Finds

LEMMA FindKept ==
  ASSUME LocatorInv, Locator!Find
  PROVE  LocatorInv'
<1> USE DEF LocatorInv
<1>1. /\ step = "find" /\ target' = Locator!Means(Lookable)
      /\ UNCHANGED <<backend, node, live, pinged, silent, locator, acted>>
  BY DEF Locator!Find, Lookable
<1>2. acted' = Locator!Nobody
  BY <1>1 DEF LocatorTyped
<1>3. CASE Cardinality(Locator!Finds) = 1
  <2>1. found' \in Locator!Finds /\ step' = "act"
    BY <1>3, SameCardinality DEF Locator!Find
  <2>2. PICK n \in Locator!Finds : n = found'
    BY <2>1
  <2>3. /\ n \in live /\ node[n].id = "x"
        /\ locator.ordinal = Locator!NoOrdinal => Locator!Means(Lookable) \subseteq {n}
        /\ Locator!Scoped /\ backend = "javafx" => node[n].window = locator.window
    BY <1>3, FindsMeant
  <2>4. LocatorTyped'
    BY <1>1, <1>2, <2>1, <2>2, <2>3, NobodyIsNoNode DEF LocatorTyped
  <2>5. Locator!Finds' = Locator!Finds
    BY <1>1, NarrowingSame
  <2>6. FoundIsUnique'
    BY <1>3, <2>1, <2>5 DEF FoundIsUnique
  <2>7. Locator!FoundIsMeant'
    BY <1>1, <2>2, <2>3 DEF Locator!FoundIsMeant, Locator!Scoped
  <2>8. Locator!ActsOnFound'
    BY <1>2 DEF Locator!ActsOnFound
  <2> QED BY <2>4, <2>6, <2>7, <2>8
<1>4. CASE Cardinality(Locator!Finds) # 1
  <2>1. found' = Locator!Nobody /\ step' = "done"
    BY <1>4, SameCardinality DEF Locator!Find
  <2> QED
    BY <1>1, <1>2, <2>1 DEF LocatorTyped, FoundIsUnique, Locator!FoundIsMeant, Locator!ActsOnFound
<1> QED BY <1>3, <1>4

LEMMA ChangesKept ==
  ASSUME LocatorInv, Locator!Changes
  PROVE  LocatorInv'
<1> USE DEF LocatorInv
<1>1. /\ step = "act" /\ step' = "changed" /\ live' \subseteq live
      /\ UNCHANGED <<backend, node, pinged, silent, locator, found, target, acted>>
  BY DEF Locator!Changes
<1> QED
  BY <1>1 DEF LocatorTyped, FoundIsUnique, Locator!FoundIsMeant, Locator!ActsOnFound, Locator!Scoped

(* The JVM of the object narrows again; what it leaves is in the window    *)
(* the locator names, and if nothing changed it is the object found.       *)
LEMMA TwoAreFinite == IsFiniteSet({1, 2})
<1>1. IsFiniteSet({1}) /\ {1} \cup {2} = {1, 2}
  BY FS_Singleton
<1> QED BY <1>1, FS_AddElement

LEMMA ActKept ==
  ASSUME LocatorInv, Locator!Act
  PROVE  LocatorInv'
<1> USE DEF LocatorInv
<1> DEFINE inJvm == Locator!AgentLeaves(Locator!Of(node[found].jvm))
           again == Locator!FoundAgain
<1>1. /\ step \in {"act", "changed"} /\ step' = IF step = "act" THEN "done" ELSE "done late"
      /\ acted' \in IF Cardinality(again) = 1 THEN again ELSE {Locator!Nobody}
      /\ UNCHANGED <<backend, node, live, pinged, silent, locator, found, target>>
  BY SameCardinality, Zenon DEF Locator!Act
<1>2. LocatorTyped' /\ FoundIsUnique' /\ Locator!FoundIsMeant'
  BY <1>1, Zenon DEF LocatorTyped, FoundIsUnique, Locator!FoundIsMeant, Locator!Scoped
<1>3. SUFFICES ASSUME acted' # Locator!Nobody
      PROVE  /\ Locator!Scoped /\ backend = "javafx" => node[acted'].window = locator.window
             /\ step = "act" /\ (locator.ordinal = Locator!NoOrdinal \/ Locator!Scoped \/ locator.regex \/ backend = "atspi")
                  => acted' = found
  BY <1>1, <1>2, Zenon DEF Locator!ActsOnFound, Locator!Scoped
<1>4. acted' \in again /\ Cardinality(again) = 1
  BY <1>1, <1>3, Zenon
<1>5. CASE ~(backend = "javafx" /\ ~locator.regex)
  BY <1>4, <1>5, Zenon DEF Locator!FoundAgain, Locator!Scoped, LocatorTyped
<1>6. CASE backend = "javafx" /\ ~locator.regex
  <2>1. inJvm \subseteq Locator!InWindow(Locator!Named(Locator!Of(node[found].jvm)))
    BY LeavesBetween
  <2>2. again = Locator!Picked(inJvm) /\ again \subseteq inJvm
    BY <1>6, PickedWithin DEF Locator!FoundAgain
  <2>3. inJvm \subseteq live /\ \A n \in inJvm : locator.window \in {Locator!Any, node[n].window}
    BY <2>1 DEF Locator!InWindow, Locator!Named, Locator!Of
  <2>4. again \in SUBSET Nodes
    BY <2>2, <2>3, Zenon DEF LocatorTyped
  <2>5. Locator!Scoped => node[acted'].window = locator.window
    BY <1>4, <2>2, <2>3 DEF Locator!Scoped
  <2>6. ASSUME step = "act", locator.ordinal = Locator!NoOrdinal \/ Locator!Scoped PROVE acted' = found
    <3>1. found \in Locator!Finds /\ Cardinality(Locator!Finds) = 1
      BY <2>6 DEF FoundIsUnique
    <3>2. Locator!Finds = Locator!Picked(AgentsLeave) /\ found \in AgentsLeave
      BY <1>6, <3>1, FindsMeant
    <3>3. found \in inJvm /\ node[found].jvm \in Locator!Asked
      BY <3>2, AgentsLeaveMeant
    <3>4. CASE locator.ordinal = Locator!NoOrdinal
      BY <1>4, <2>2, <2>4, <3>3, <3>4, PickedWithin, OneNode
    <3>5. CASE Locator!Scoped
      <4>1. Locator!Asked = Locator!Owners /\ Cardinality(Locator!Owners) = 1
        BY <1>6, <3>1, <3>5, JavafxFindsThem DEF Locator!Finds, Locator!Asked
      <4>2. IsFiniteSet(Locator!Owners)
        <5>1. Locator!Owners \in SUBSET {1, 2}
          <6>1. pinged \subseteq Locator!Jvms
            BY Zenon DEF LocatorTyped
          <6> QED BY <6>1 DEF Locator!Owners, Locator!Jvms
        <5> QED BY <5>1, TwoAreFinite, FS_Subset
      <4>3. Locator!Asked = {node[found].jvm}
        BY <3>3, <4>1, <4>2, FS_Singleton
      <4>4. AgentsLeave = Locator!OfScope(inJvm)
        BY <4>3 DEF AgentsLeave
      <4>5. Locator!OfScope(inJvm) = inJvm
        BY <2>3 DEF Locator!OfScope, Locator!InWindow
      <4>6. again = Locator!Finds
        BY <2>2, <3>2, <4>4, <4>5
      <4> QED BY <1>4, <2>4, <3>1, <4>6, OneNode
    <3> QED BY <2>6, <3>4, <3>5
  <2> QED BY <1>6, <2>5, <2>6
<1> QED BY <1>5, <1>6

LEMMA LocatorKept ==
  ASSUME LocatorInv, [Locator!Next]_Locator!vars
  PROVE  LocatorInv'
<1>1. CASE UNCHANGED Locator!vars
  <2>1. LocatorTyped' /\ Locator!FoundIsMeant' /\ Locator!ActsOnFound'
    BY <1>1, Zenon DEF Locator!vars, LocatorInv, LocatorTyped, Locator!FoundIsMeant, Locator!ActsOnFound,
       Locator!Scoped
  <2>2. Locator!Finds' = Locator!Finds
    BY <1>1, NarrowingSame DEF Locator!vars
  <2>3. FoundIsUnique'
    BY <1>1, <2>2 DEF Locator!vars, LocatorInv, FoundIsUnique
  <2> QED BY <2>1, <2>3 DEF LocatorInv
<1> QED BY <1>1, FindKept, ChangesKept, ActKept DEF Locator!Next

(* A locator resolves only to an object with its id and in its window, and *)
(* without an ordinal only if no other in the JVMs that answered the ping  *)
(* has all it asks for (one that misses it is left out: UniqueInEveryJvm   *)
(* does not hold); the action reaches the object that was found, or        *)
(* another of that window only after the tree changed (_find_matches,      *)
(* _progressive_candidates), for any number of objects.                    *)
THEOREM LocatorsFindMeant == Spec => []FoundIsMeant
<1> DEFINE Kept == part = "locator" => LocatorInv
<1>1. Init => Kept
  BY DEF Init, Locator!Init, LocatorInv, LocatorTyped, FoundIsUnique, Locator!FoundIsMeant, Locator!ActsOnFound,
         Locator!Worlds, Locator!Nodes, Locator!Jvms, Nodes
<1>2. Kept /\ [Next]_vars => Kept'
  <2> SUFFICES ASSUME Kept, [Next]_vars, part' = "locator" PROVE LocatorInv'
    OBVIOUS
  <2>1. part = "locator" /\ [Locator!Next]_Locator!vars
    BY Zenon DEF Next, vars, onlyLocator, Locator!vars
  <2> QED BY <2>1, LocatorKept
<1>3. Kept => FoundIsMeant
  BY DEF FoundIsMeant, LocatorInv
<1> QED BY <1>1, <1>2, <1>3, PTL DEF Spec

-----------------------------------------------------------------------------
(* NextClick: whose click a capture returns.                               *)

ClicksTyped ==
  /\ driver \in [Clicks!Captures -> {"new", "waiting", "captured", "failed", "refused"}]
  /\ results \in [Clicks!Captures -> Seq(Nat)] /\ outcome \in [Clicks!Captures -> Nat]
  /\ request \in [Clicks!Requests -> {"none", "sent", "armed", "answered"}]
  /\ caught \in [Clicks!Requests -> Nat] /\ claimed \in [Endpoints -> BOOLEAN]
  /\ clicks \in Seq(Clicks!Captures)

(* A request holds the claim of its JVM, and nobody else's.                *)
OneArmed ==
  \A q, r \in Clicks!Requests : request[q] = "armed" /\ request[r] = "armed" /\ q[2] = r[2] => q = r
ArmedClaims == \A r \in Clicks!Requests : request[r] = "armed" => claimed[r[2]]
ClaimsArmed ==
  faults = {} =>
    \A e \in Endpoints : claimed[e] => \E r \in Clicks!Requests : r[2] = e /\ request[r] = "armed"

(* A capture that has not begun has no requests, and one waits at a time.  *)
NewIsFresh == \A r \in Clicks!Requests : driver[r[1]] = "new" => request[r] = "none"
OneWaits ==
  \A b, c \in Clicks!Captures : driver[b] = "waiting" /\ driver[c] = "waiting" => b = c

(* The click was made for the capture.                                     *)
Own(click, c) == click = Clicks!NoClick \/ (click \in DOMAIN clicks /\ clicks[click] = c)
CaughtOwn ==
  \A r \in Clicks!Requests : driver[r[1]] \in {"new", "waiting"} => Own(caught[r], r[1])
ResultsOwn == \A c \in Clicks!Captures : \A i \in DOMAIN results[c] : Own(results[c][i], c)
OutcomeOwn ==
  \A c \in Clicks!Captures :
    Own(outcome[c], c) /\ (driver[c] = "captured" => outcome[c] # Clicks!NoClick)

ClaimInv == OneArmed /\ ArmedClaims /\ ClaimsArmed /\ NewIsFresh
ClickInv == OneWaits /\ CaughtOwn /\ ResultsOwn /\ OutcomeOwn
CapturesInv == ClicksTyped /\ ClaimInv /\ ClickInv

LEMMA CapturesStart ==
  ASSUME Clicks!Init
  PROVE  CapturesInv
<1> USE DEF Clicks!Init, Clicks!NoClick
<1>1. ClicksTyped
  BY DEF ClicksTyped
<1>2. ClaimInv
  BY DEF ClaimInv, OneArmed, ArmedClaims, ClaimsArmed, NewIsFresh, Clicks!Requests
<1>3. ClickInv
  BY DEF ClickInv, OneWaits, CaughtOwn, ResultsOwn, OutcomeOwn, Own
<1> QED BY <1>1, <1>2, <1>3 DEF CapturesInv

(* What is brought to a queue is its own capture's.                        *)
LEMMA AnswerKept ==
  ASSUME CapturesInv, NEW r \in Clicks!Requests, NEW click \in Nat,
         driver[r[1]] = "waiting" => Own(click, r[1]),
         Clicks!Answer(r, click), UNCHANGED <<driver, outcome, caught, clicks>>
  PROVE  /\ results' \in [Clicks!Captures -> Seq(Nat)] /\ ResultsOwn'
         /\ OneWaits' /\ CaughtOwn' /\ OutcomeOwn'
<1> USE DEF CapturesInv
<1>1. r[1] \in Clicks!Captures /\ results[r[1]] \in Seq(Nat)
  BY DEF Clicks!Requests, ClicksTyped
<1>2. Append(results[r[1]], click) \in Seq(Nat)
  BY <1>1
<1>3. results' \in [Clicks!Captures -> Seq(Nat)]
  BY <1>2 DEF ClicksTyped, Clicks!Answer
<1>4. \A k, c : Own(k, c)' <=> Own(k, c)
  BY DEF Own
<1>5. ASSUME NEW c \in Clicks!Captures, NEW i \in DOMAIN results'[c] PROVE Own(results'[c][i], c)
  <2>1. CASE c = r[1] /\ driver[c] = "waiting"
    <3>1. results'[c] = Append(results[c], click)
      BY <2>1 DEF Clicks!Answer, ClicksTyped
    <3>2. results'[c][i] = click \/ (i \in DOMAIN results[c] /\ results'[c][i] = results[c][i])
      BY <1>1, <2>1, <3>1
    <3> QED BY <2>1, <3>2 DEF ClickInv, ResultsOwn
  <2>2. CASE ~(c = r[1] /\ driver[c] = "waiting")
    BY <2>2 DEF Clicks!Answer, ClicksTyped, ClickInv, ResultsOwn
  <2> QED BY <2>1, <2>2
<1>6. ResultsOwn'
  BY <1>4, <1>5 DEF ResultsOwn
<1>7. OneWaits' /\ CaughtOwn' /\ OutcomeOwn'
  BY <1>4 DEF ClickInv, OneWaits, CaughtOwn, OutcomeOwn
<1> QED BY <1>3, <1>6, <1>7

LEMMA AgentKept ==
  ASSUME CapturesInv, NEW r \in Clicks!Requests, Clicks!Agent(r)
  PROVE  CapturesInv'
<1> USE DEF CapturesInv
<1>0. r[1] \in Clicks!Captures /\ r[2] \in Endpoints
  BY DEF Clicks!Requests
<1>1. CASE Clicks!Claim(r)
  <2> USE <1>1 DEF Clicks!Claim
  <2>1. CASE claimed[r[2]]
    <3>1. Clicks!Answer(r, 0) /\ UNCHANGED <<driver, outcome, caught, clicks, claimed, faults>>
      BY <2>1 DEF Clicks!NoClick
    <3>2. results' \in [Clicks!Captures -> Seq(Nat)] /\ ClickInv'
      BY <3>1, AnswerKept DEF ClickInv, Own, Clicks!NoClick
    <3>3. request' = [request EXCEPT ![r] = "answered"] /\ request[r] = "sent"
      BY <3>1 DEF Clicks!Answer
    <3>4. ClicksTyped'
      BY <3>1, <3>2, <3>3 DEF ClicksTyped
    <3>5. ClaimInv'
      BY <3>1, <3>3 DEF ClicksTyped, ClaimInv, OneArmed, ArmedClaims, ClaimsArmed, NewIsFresh
    <3> QED BY <3>2, <3>4, <3>5
  <2>2. CASE ~claimed[r[2]]
    <3>1. /\ request' = [request EXCEPT ![r] = "armed"] /\ claimed' = [claimed EXCEPT ![r[2]] = TRUE]
          /\ UNCHANGED <<faults, driver, outcome, caught, clicks, results>> /\ request[r] = "sent"
      BY <2>2
    <3>2. ClicksTyped'
      BY <3>1 DEF ClicksTyped
    <3>3. OneArmed' /\ ArmedClaims'
      BY <1>0, <2>2, <3>1 DEF ClicksTyped, ClaimInv, OneArmed, ArmedClaims
    <3>4. ClaimsArmed' /\ NewIsFresh'
      <4>1. \A q \in Clicks!Requests : q # r => request'[q] = request[q]
        BY <3>1 DEF ClicksTyped
      <4>2. request'[r] = "armed"
        BY <3>1 DEF ClicksTyped
      <4>3. \A e \in Endpoints : e # r[2] => claimed'[e] = claimed[e]
        BY <3>1 DEF ClicksTyped
      <4>4. driver[r[1]] # "new"
        BY <3>1 DEF ClaimInv, NewIsFresh
      <4> QED BY <3>1, <4>1, <4>2, <4>3, <4>4 DEF ClaimInv, ClaimsArmed, NewIsFresh
    <3>5. ClickInv'
      BY <3>1 DEF ClickInv, OneWaits, CaughtOwn, ResultsOwn, OutcomeOwn, Own
    <3> QED BY <3>2, <3>3, <3>4, <3>5 DEF ClaimInv
  <2> QED BY <2>1, <2>2
<1>2. CASE Clicks!InstallFails(r)
  <2> USE <1>2 DEF Clicks!InstallFails
  <2>1. results' \in [Clicks!Captures -> Seq(Nat)] /\ ClickInv'
    BY AnswerKept DEF ClickInv, Own, Clicks!NoClick
  <2>2. request' = [request EXCEPT ![r] = "answered"] /\ request[r] = "armed" /\ faults # {}
    BY DEF Clicks!Answer
  <2>3. ClicksTyped'
    BY <2>1, <2>2 DEF ClicksTyped
  <2>4. ClaimInv'
    BY <2>2 DEF ClicksTyped, ClaimInv, OneArmed, ArmedClaims, ClaimsArmed, NewIsFresh
  <2> QED BY <2>1, <2>3, <2>4
<1>3. CASE Clicks!Finish(r)
  <2> USE <1>3 DEF Clicks!Finish
  <2>0. caught[r] \in Nat /\ (driver[r[1]] = "waiting" => Own(caught[r], r[1]))
    BY DEF ClicksTyped, ClickInv, CaughtOwn
  <2>1. results' \in [Clicks!Captures -> Seq(Nat)] /\ ClickInv'
    BY <2>0, AnswerKept DEF ClickInv
  <2>2. request' = [request EXCEPT ![r] = "answered"] /\ request[r] = "armed"
    BY DEF Clicks!Answer
  <2>3. ClicksTyped'
    BY <2>1, <2>2 DEF ClicksTyped
  <2>4. /\ \A q \in Clicks!Requests : q # r => request'[q] = request[q]
        /\ request'[r] = "answered" /\ ~claimed'[r[2]]
        /\ \A e \in Endpoints : e # r[2] => claimed'[e] = claimed[e]
    BY <1>0, <2>2 DEF ClicksTyped
  <2>5. \A q \in Clicks!Requests : q[2] \in Endpoints
    BY DEF Clicks!Requests
  <2>6. OneArmed' /\ ArmedClaims' /\ NewIsFresh'
    BY <2>2, <2>4, <2>5 DEF ClaimInv, OneArmed, ArmedClaims, NewIsFresh
  <2>7. ClaimsArmed'
    BY <2>2, <2>4 DEF ClaimInv, ClaimsArmed
  <2> QED BY <2>1, <2>3, <2>6, <2>7 DEF ClaimInv
<1> QED BY <1>1, <1>2, <1>3 DEF Clicks!Agent

LEMMA CaptureKept ==
  ASSUME CapturesInv, NEW c \in Clicks!Captures,
         Clicks!StartCapture(c) \/ Clicks!TakeResult(c) \/ Clicks!GiveUp(c)
  PROVE  CapturesInv'
<1> USE DEF CapturesInv
<1>1. CASE Clicks!StartCapture(c)
  <2> USE <1>1 DEF Clicks!StartCapture
  <2>1. CASE Clicks!Waiting = {}
    <3>1. /\ driver' = [driver EXCEPT ![c] = "waiting"] /\ driver[c] = "new"
          /\ request' = [r \in Clicks!Requests |-> IF r[1] = c THEN "sent" ELSE request[r]]
          /\ UNCHANGED <<faults, results, outcome, caught, claimed, clicks>>
      BY <2>1
    <3>2. \A b \in Clicks!Captures : driver[b] # "waiting"
      BY <2>1 DEF Clicks!Waiting
    <3>3. ClicksTyped'
      BY <3>1 DEF ClicksTyped
    <3>4. \A r \in Clicks!Requests : r[1] \in Clicks!Captures
      BY DEF Clicks!Requests
    <3>5. \A r \in Clicks!Requests : request'[r] = "armed" <=> request[r] = "armed"
      BY <3>1 DEF ClaimInv, NewIsFresh
    <3>6. OneArmed' /\ ArmedClaims' /\ ClaimsArmed'
      BY <3>1, <3>5 DEF ClaimInv, OneArmed, ArmedClaims, ClaimsArmed
    <3>7. NewIsFresh'
      BY <3>1, <3>4 DEF ClicksTyped, ClaimInv, NewIsFresh
    <3>8. \A k, b : Own(k, b)' <=> Own(k, b)
      BY <3>1 DEF Own
    <3>9. ClickInv'
      BY <3>1, <3>2, <3>4, <3>8 DEF ClicksTyped, ClickInv, OneWaits, CaughtOwn, ResultsOwn, OutcomeOwn
    <3> QED BY <3>3, <3>6, <3>7, <3>9 DEF ClaimInv
  <2>2. CASE Clicks!Waiting # {}
    <3>1. /\ driver' = [driver EXCEPT ![c] = "refused"]
          /\ UNCHANGED <<faults, results, outcome, request, caught, claimed, clicks>>
      BY <2>2
    <3>2. ClicksTyped'
      BY <3>1 DEF ClicksTyped
    <3>4. \A r \in Clicks!Requests : r[1] \in Clicks!Captures
      BY DEF Clicks!Requests
    <3>5. ClaimInv'
      BY <3>1, <3>4 DEF ClicksTyped, ClaimInv, OneArmed, ArmedClaims, ClaimsArmed, NewIsFresh
    <3>6. ClickInv'
      BY <3>1, <3>4 DEF ClicksTyped, ClickInv, OneWaits, CaughtOwn, ResultsOwn, OutcomeOwn, Own
    <3> QED BY <3>2, <3>5, <3>6
  <2> QED BY <2>1, <2>2
<1>2. CASE Clicks!TakeResult(c)
  <2> USE <1>2 DEF Clicks!TakeResult
  <2>0. \A r \in Clicks!Requests : r[1] \in Clicks!Captures
    BY DEF Clicks!Requests
  <2>1. results[c] \in Seq(Nat) /\ results[c] # <<>>
    BY DEF ClicksTyped
  <2>2. Head(results[c]) \in Nat /\ Tail(results[c]) \in Seq(Nat) /\ Own(Head(results[c]), c)
    BY <2>1 DEF ClickInv, ResultsOwn
  <2>3. /\ driver[c] = "waiting" /\ UNCHANGED <<faults, request, caught, claimed, clicks>>
        /\ outcome' = [outcome EXCEPT ![c] = Head(results[c])]
        /\ results' = [results EXCEPT ![c] = Tail(results[c])]
    BY DEF Clicks!agentVars
  <2>4. PICK d \in {"captured", "failed", "waiting"} :
          driver' = [driver EXCEPT ![c] = d] /\ (d = "captured" => Head(results[c]) # Clicks!NoClick)
    OBVIOUS
  <2>5. ClicksTyped'
    BY <2>2, <2>3, <2>4 DEF ClicksTyped
  <2>6. ClaimInv'
    BY <2>0, <2>3, <2>4 DEF ClicksTyped, ClaimInv, OneArmed, ArmedClaims, ClaimsArmed, NewIsFresh
  <2>7. \A k, b : Own(k, b)' <=> Own(k, b)
    BY <2>3 DEF Own
  <2>8. OneWaits' /\ CaughtOwn'
    BY <2>0, <2>3, <2>4, <2>7 DEF ClicksTyped, ClickInv, OneWaits, CaughtOwn
  <2>9. OutcomeOwn'
    BY <2>2, <2>3, <2>4, <2>7 DEF ClicksTyped, ClickInv, OutcomeOwn
  <2>10. \A i \in DOMAIN Tail(results[c]) : Own(Tail(results[c])[i], c)
    BY <2>1 DEF ClickInv, ResultsOwn
  <2>11. ResultsOwn'
    BY <2>3, <2>7, <2>10 DEF ClicksTyped, ClickInv, ResultsOwn
  <2> QED BY <2>5, <2>6, <2>8, <2>9, <2>11 DEF ClickInv
<1>3. CASE Clicks!GiveUp(c)
  <2>0. \A r \in Clicks!Requests : r[1] \in Clicks!Captures
    BY DEF Clicks!Requests
  <2>1. /\ driver' = [driver EXCEPT ![c] = "failed"] /\ driver[c] = "waiting"
        /\ UNCHANGED <<faults, results, outcome, request, caught, claimed, clicks>>
    BY <1>3 DEF Clicks!GiveUp, Clicks!agentVars
  <2>2. ClicksTyped'
    BY <2>1 DEF ClicksTyped
  <2>3. ClaimInv'
    BY <2>0, <2>1 DEF ClicksTyped, ClaimInv, OneArmed, ArmedClaims, ClaimsArmed, NewIsFresh
  <2>4. ClickInv'
    BY <2>0, <2>1 DEF ClicksTyped, ClickInv, OneWaits, CaughtOwn, ResultsOwn, OutcomeOwn, Own
  <2> QED BY <2>2, <2>3, <2>4
<1> QED BY <1>1, <1>2, <1>3

LEMMA UserKept ==
  ASSUME CapturesInv, NEW e \in Endpoints, Clicks!Click(e)
  PROVE  CapturesInv'
<1> USE DEF CapturesInv
<1>1. PICK c \in Clicks!Waiting :
        /\ clicks' = Append(clicks, c)
        /\ caught' = [r \in Clicks!Requests |->
             IF r[2] = e /\ request[r] = "armed" /\ caught[r] = Clicks!NoClick
             THEN Len(clicks) + 1 ELSE caught[r]]
  BY DEF Clicks!Click
<1>2. UNCHANGED <<faults, driver, results, remaining, outcome, request, claimed>>
  BY DEF Clicks!Click, Clicks!driverVars
<1>3. c \in Clicks!Captures /\ driver[c] = "waiting" /\ clicks \in Seq(Clicks!Captures)
  BY DEF Clicks!Waiting, ClicksTyped
<1>4. ClicksTyped'
  BY <1>1, <1>2, <1>3 DEF ClicksTyped
<1>5. ClaimInv'
  BY <1>2 DEF ClaimInv, OneArmed, ArmedClaims, ClaimsArmed, NewIsFresh
<1>6. \A k \in Nat, b \in Clicks!Captures : Own(k, b) => Own(k, b)'
  BY <1>1, <1>3 DEF Own
<1>7. ASSUME NEW k, k = Len(clicks) + 1 PROVE Own(k, c)'
  BY <1>1, <1>3, <1>7 DEF Own
<1>8. OneWaits' /\ OutcomeOwn'
  BY <1>2, <1>6 DEF ClicksTyped, ClickInv, OneWaits, OutcomeOwn
<1>9. ResultsOwn'
  <2> SUFFICES ASSUME NEW b \in Clicks!Captures, NEW i \in DOMAIN results[b] PROVE Own(results[b][i], b)'
    BY <1>2 DEF ResultsOwn
  <2>1. results[b][i] \in Nat
    BY DEF ClicksTyped
  <2> QED BY <1>2, <1>6, <2>1 DEF ClickInv, ResultsOwn
<1>10. CaughtOwn'
  <2> SUFFICES ASSUME NEW r \in Clicks!Requests, driver[r[1]] \in {"new", "waiting"}
               PROVE  Own(caught[r], r[1])'
    BY <1>2 DEF CaughtOwn
  <2>1. r[1] \in Clicks!Captures /\ caught[r] \in Nat
    BY DEF Clicks!Requests, ClicksTyped
  <2>2. CASE caught'[r] = caught[r]
    BY <1>2, <1>6, <2>1, <2>2 DEF ClickInv, CaughtOwn, Own
  <2>3. CASE caught'[r] # caught[r]
    <3>1. request[r] = "armed" /\ caught'[r] = Len(clicks) + 1
      BY <1>1, <2>3
    <3>2. driver[r[1]] = "waiting"
      BY <3>1 DEF ClaimInv, NewIsFresh
    <3>3. r[1] = c
      BY <1>3, <2>1, <3>2 DEF ClickInv, OneWaits
    <3> QED BY <1>7, <3>1, <3>3
  <2> QED BY <2>2, <2>3
<1> QED BY <1>4, <1>5, <1>8, <1>9, <1>10 DEF ClickInv

LEMMA CapturesKept ==
  ASSUME CapturesInv, [Clicks!Next]_Clicks!vars
  PROVE  CapturesInv'
<1>1. CASE UNCHANGED Clicks!vars
  BY <1>1 DEF Clicks!vars, CapturesInv, ClicksTyped, ClaimInv, OneArmed, ArmedClaims, ClaimsArmed, NewIsFresh,
       ClickInv, OneWaits, CaughtOwn, ResultsOwn, OutcomeOwn, Own
<1> QED BY <1>1, AgentKept, CaptureKept, UserKept DEF Clicks!Next

LEMMA SameCount == \A S : Clicks!Cardinality(S) = Cardinality(S)
  BY DEF Clicks!Cardinality, Cardinality

LEMMA ClaimsHeld == CapturesInv => Clicks!ClaimIsHeld /\ Clicks!CapturedWhileWaiting
<1> SUFFICES ASSUME CapturesInv PROVE Clicks!ClaimIsHeld /\ Clicks!CapturedWhileWaiting
  OBVIOUS
<1> USE DEF CapturesInv
<1>1. ASSUME NEW e \in Endpoints
      PROVE  LET armed == {r \in Clicks!Requests : r[2] = e /\ request[r] = "armed"}
             IN /\ Clicks!Cardinality(armed) <= 1
                /\ armed # {} => claimed[e]
                /\ claimed[e] /\ faults = {} => armed # {}
  <2> DEFINE armed == {r \in Clicks!Requests : r[2] = e /\ request[r] = "armed"}
  <2>1. armed = {} \/ \E r \in armed : armed = {r}
    BY DEF ClaimInv, OneArmed
  <2>2. Cardinality(armed) <= 1
    <3> HIDE DEF armed
    <3>1. CASE armed = {}
      BY <3>1, FS_EmptySet
    <3>2. ASSUME NEW r \in armed, armed = {r} PROVE Cardinality(armed) <= 1
      <4>1. Cardinality({r}) = 1
        BY FS_Singleton
      <4> QED BY <3>2, <4>1
    <3> QED BY <2>1, <3>1, <3>2
  <2>3. armed # {} => claimed[e]
    BY DEF ClaimInv, ArmedClaims
  <2>4. claimed[e] /\ faults = {} => armed # {}
    BY DEF ClaimInv, ClaimsArmed
  <2> QED BY <2>2, <2>3, <2>4, SameCount
<1>2. Clicks!ClaimIsHeld
  BY <1>1, Zenon DEF Clicks!ClaimIsHeld
<1>3. Clicks!CapturedWhileWaiting
  BY DEF ClickInv, OutcomeOwn, Own, Clicks!CapturedWhileWaiting
<1> QED BY <1>2, <1>3

-----------------------------------------------------------------------------
(* CaptureRouting: whose object a click captures.                          *)

RoutingTyped == top \in Routing!Pids /\ owner \in Routing!Pids

(* From the press on, the owner is an application, and where the callback  *)
(* is says whether it had a bridge.                                        *)
Identified == {"bridges?", "agents?", "javafx", "java-agent", "atspi", "verify"}
OwnerInv ==
  /\ step \in Identified => owner \in Apps
  /\ step = "javafx" => ownedByFx
  /\ step \in {"agents?", "java-agent", "atspi"} => ~ownedByFx
  /\ step = "verify" => (ownedByFx <=> found.backend = "javafx")

Verified == found.pid = owner /\ owner \in Apps /\ (ownedByFx <=> found.backend = "javafx")
ResultInv ==
  /\ result = "ok" => step = "done" /\ Verified
  /\ outcome = "captured" => Verified
  /\ outcome # "none" => step = "idle" /\ result = "none"

RoutingInv == RoutingTyped /\ OwnerInv /\ ResultInv

USE DEF Routing!Self, Routing!Unknown, Routing!Pids, Routing!Nothing

LEMMA RoutingStarts ==
  ASSUME Routing!Init
  PROVE  RoutingInv
BY DEF Routing!Init, RoutingInv, RoutingTyped, OwnerInv, ResultInv, Identified, Verified

LEMMA CaptureStepKept ==
  ASSUME RoutingInv, Routing!Capture \/ Routing!Desktop
  PROVE  RoutingInv'
<1> USE DEF RoutingInv, RoutingTyped, OwnerInv, ResultInv, Identified, Verified
<1>1. CASE Routing!StartCapture
  BY <1>1 DEF Routing!StartCapture, Routing!desktop
<1>2. CASE Routing!TakeObject
  BY <1>2 DEF Routing!TakeObject, Routing!Over, Routing!desktop
<1>3. CASE Routing!TakeError
  BY <1>3 DEF Routing!TakeError, Routing!Over, Routing!desktop
<1>4. CASE Routing!TimesOut
  BY <1>4 DEF Routing!TimesOut, Routing!Over, Routing!desktop
<1>5. CASE Routing!Desktop
  BY <1>5 DEF Routing!Desktop, Routing!callbackVars
<1> QED BY <1>1, <1>2, <1>3, <1>4, <1>5 DEF Routing!Capture

LEMMA CallbackKept ==
  ASSUME RoutingInv, Routing!Callback
  PROVE  RoutingInv'
<1> USE DEF RoutingInv, RoutingTyped, OwnerInv, ResultInv, Identified, Verified
<1>1. CASE Routing!Press
  <2>1. top # Routing!Self /\ owner' = top /\ step = "listening" /\ UNCHANGED <<top, ownedByFx, outcome, found>>
    BY <1>1 DEF Routing!Press, Routing!Fails, Routing!desktop
  <2>2. \/ step' = "done" /\ result' = "error"
        \/ top # Routing!Unknown /\ step' = "bridges?" /\ result' = result
    BY <1>1 DEF Routing!Press, Routing!Fails
  <2> QED BY <2>1, <2>2
<1>2. CASE Routing!FindBridge
  <2>1. step = "bridges?" /\ UNCHANGED <<top, owner, found, result, outcome>>
    BY <1>2 DEF Routing!FindBridge, Routing!desktop
  <2>2. CASE owner \in fx
    <3>1. ownedByFx' = TRUE /\ step' = "javafx"
      BY <1>2, <2>2, Zenon DEF Routing!FindBridge
    <3> QED BY <2>1, <3>1
  <2>3. CASE owner \notin fx
    <3>1. ownedByFx' = (owner \in fx) /\ step' = "agents?"
      BY <1>2, <2>3 DEF Routing!FindBridge
    <3>2. ~ownedByFx'
      BY <2>3, <3>1
    <3> QED BY <2>1, <3>1, <3>2
  <2> QED BY <2>2, <2>3
<1>3. CASE Routing!FindAgent
  BY <1>3 DEF Routing!FindAgent, Routing!desktop
<1>4. CASE Routing!HitTest
  <2>1. CASE Routing!Fails
    BY <1>4, <2>1 DEF Routing!HitTest, Routing!Fails, Routing!desktop
  <2>2. CASE step' = "verify" /\ found'.backend = step /\ UNCHANGED result
    BY <1>4, <2>2 DEF Routing!HitTest, Routing!desktop
  <2> QED BY <1>4, <2>1, <2>2 DEF Routing!HitTest
<1>5. CASE Routing!Verify
  BY <1>5 DEF Routing!Verify, Routing!Fails, Routing!desktop
<1> QED BY <1>1, <1>2, <1>3, <1>4, <1>5 DEF Routing!Callback

LEMMA RoutingKept ==
  ASSUME RoutingInv, [Routing!Next]_Routing!vars
  PROVE  RoutingInv'
<1>1. CASE UNCHANGED Routing!vars
  BY <1>1 DEF Routing!vars, RoutingInv, RoutingTyped, OwnerInv, ResultInv, Identified, Verified
<1> QED BY <1>1, CaptureStepKept, CallbackKept DEF Routing!Next

(* What TechnologyRouter and RoutedCaptureService return, for all targets. *)
LEMMA RoutesToOwner == Routing!RoutedToOwner
<1> SUFFICES ASSUME NEW t \in Routing!Targets, NEW available \in SUBSET Routing!Kinds,
                    NEW own \in Apps \cup {Routing!Unknown, Routing!Failing},
                    NEW other \in Apps \cup {Routing!Unknown, Routing!Failing},
                    Routing!Routed(t, available, own, other) # Routing!Refused
             PROVE  LET reply == Routing!Routed(t, available, own, other)
                        rendered == t.rendered \/ t.hint = "rendered"
                    IN /\ reply.backend \in available
                       /\ t.pid \in t.fx /\ ~rendered => reply.backend = "javafx"
                       /\ rendered => reply.backend = "rendered"
                       /\ t.hint = "javafx" => reply.backend # "atspi"
                       /\ t.pid \in t.agents /\ reply.backend = "atspi" =>
                            ~reply.authoritative /\ own = Routing!Failing
                       /\ reply.authoritative /\ t.pid # Routing!Unknown =>
                            reply.pid \in {t.pid, Routing!Unknown}
  BY DEF Routing!RoutedToOwner
<1>0. LET rendered == t.rendered \/ t.hint = "rendered" IN
      /\ t.pid \in t.fx /\ ~rendered => Routing!Owner(t) = "javafx"
      /\ rendered => Routing!Owner(t) = "rendered"
      /\ t.pid \in t.agents => Routing!Owner(t) # "atspi"
      /\ t.hint = "javafx" => Routing!Owner(t) # "atspi"
  <2>1. CASE t.rendered \/ t.hint = "rendered"
    <3>1. Routing!Owner(t) = "rendered"
      BY <2>1, Zenon DEF Routing!Owner
    <3> QED BY <2>1, <3>1
  <2>2. CASE ~(t.rendered \/ t.hint = "rendered") /\ t.pid \in t.fx
    <3>1. Routing!Owner(t) = "javafx"
      BY <2>2, Zenon DEF Routing!Owner
    <3> QED BY <2>2, <3>1
  <2>3. CASE ~(t.rendered \/ t.hint = "rendered") /\ t.pid \notin t.fx
    BY <2>3 DEF Routing!Owner
  <2> QED BY <2>1, <2>2, <2>3
<1>1. CASE own # Routing!Failing
  <2>1. /\ Routing!Owner(t) \in available
        /\ Routing!Routed(t, available, own, other) =
              [backend |-> Routing!Owner(t), pid |-> own, authoritative |-> TRUE]
        /\ t.pid # Routing!Unknown => own \in {t.pid, Routing!Unknown}
    BY <1>1 DEF Routing!Routed
  <2> QED BY <1>0, <1>1, <2>1
<1>2. CASE own = Routing!Failing
  <2>1. /\ Routing!Owner(t) = "java_agent" /\ t.hint \in {"swing", "awt"} /\ "atspi" \in available
        /\ Routing!Routed(t, available, own, other) =
              [backend |-> "atspi", pid |-> other, authoritative |-> FALSE]
    BY <1>2 DEF Routing!Routed, Routing!Fallback
  <2> QED BY <1>0, <1>2, <2>1
<1> QED BY <1>1, <1>2

-----------------------------------------------------------------------------
(* AtspiClick: the first event that counts decides.                        *)

BusTyped ==
  /\ queue \in Seq(BusClick!Events) /\ handling \in Components \cup {BusClick!Nothing, "error"}
  /\ outcome \in Components \cup {"none", "timeout", "error"}

(* The result of the first event that counts is on its way to the outcome. *)
FirstDecides ==
  /\ outcome = "none" => (IF handling = BusClick!Nothing THEN first = BusClick!Nothing ELSE first = handling)
  /\ outcome \notin {"none", "timeout"} => outcome = first

(* Events are about what was clicked, and if they name it they name that.  *)
EventsOfClicks ==
  strayed \/ \A i \in DOMAIN queue :
    /\ queue[i].of \in clicked
    /\ queue[i].source \in Components => queue[i].source = queue[i].of

FirstClicked == first \in Components /\ ~strayed /\ ~changed => first \in clicked

BusClickInv == BusTyped /\ FirstDecides /\ EventsOfClicks /\ FirstClicked

USE DEF BusClick!Nothing, BusClick!Frame, BusClick!Harness, BusClick!Dialog

LEMMA BusClickStarts ==
  ASSUME BusClick!Init
  PROVE  BusClickInv
BY ComponentsAssumption DEF BusClick!Init, BusClickInv, BusTyped, FirstDecides, EventsOfClicks, FirstClicked

LEMMA BusCallerKept ==
  ASSUME BusClickInv, BusClick!Caller \/ BusClick!ChangeScreen
  PROVE  BusClickInv'
BY DEF BusClickInv, BusTyped, FirstDecides, EventsOfClicks, FirstClicked, BusClick!Caller,
   BusClick!ChangeScreen,
       BusClick!Arm, BusClick!Listen, BusClick!Done, BusClick!TimeOut, BusClick!Finish, BusClick!StopListening,
       BusClick!Return, BusClick!Counted, BusClick!screen, BusClick!callerVars

LEMMA BusDispatchKept ==
  ASSUME BusClickInv, BusClick!Dispatch
  PROVE  BusClickInv'
<1> USE DEF BusClickInv
<1>1. CASE BusClick!Handled
  BY <1>1, ComponentsAssumption DEF BusClick!Handled, BusClick!Finish, BusClick!screen,
     BusClick!callerVars, BusTyped, FirstDecides,
       EventsOfClicks, FirstClicked
<1>2. CASE BusClick!Handle
  <2> DEFINE e == Head(queue)
  <2>1. /\ queue # <<>> /\ handling = BusClick!Nothing /\ queue' = Tail(queue)
        /\ UNCHANGED <<changed, clicked, outcome>>
    BY <1>2 DEF BusClick!Handle, BusClick!callerVars
  <2>2. e = queue[1] /\ 1 \in DOMAIN queue /\ e \in BusClick!Events
    BY <2>1 DEF BusTyped
  <2>3. queue' \in Seq(BusClick!Events) /\ \A i \in DOMAIN Tail(queue) : i + 1 \in DOMAIN queue /\ Tail(queue)[i] = queue[i + 1]
    BY <2>1 DEF BusTyped
  <2>4. strayed => strayed'
    BY <1>2 DEF BusClick!Handle
  <2>5. EventsOfClicks'
    BY <2>1, <2>3, <2>4 DEF EventsOfClicks
  <2>6. CASE UNCHANGED <<handling, first, strayed>>
    BY <2>1, <2>3, <2>5, <2>6 DEF BusTyped, FirstDecides, FirstClicked
  <2>7. CASE ~UNCHANGED <<handling, first, strayed>>
    <3>1. /\ handling' \in BusClick!Snapshot(e)
          /\ first' = IF first = BusClick!Nothing THEN handling' ELSE first
          /\ strayed' = (strayed \/ (e.source \notin Components /\ (e.kind = "focus" \/ e.of \in BusClick!Own)))
      BY <1>2, <2>7 DEF BusClick!Handle
    <3>0. handling' \in Components \cup {"error"}
      BY <2>2, <3>1 DEF BusClick!Snapshot, BusClick!AtPoint
    <3>2. FirstDecides' /\ BusTyped'
      BY <2>1, <2>3, <3>0, <3>1, ComponentsAssumption DEF BusTyped, FirstDecides
    <3>3. ASSUME first' = handling', handling' \in Components, ~strayed', ~changed PROVE handling' \in clicked
      <4>1. e.of \in clicked /\ (e.source \in Components => e.source = e.of)
        BY <2>2, <3>1, <3>3 DEF EventsOfClicks
      <4>2. handling' # "error"
        BY <3>3, ComponentsAssumption
      <4>3. handling' = e.of
        BY <3>1, <3>3, <4>1, <4>2 DEF BusClick!Snapshot, BusClick!AtPoint
      <4> QED BY <4>1, <4>3
    <3>4. FirstClicked'
      BY <2>1, <2>4, <3>1, <3>3 DEF FirstClicked
    <3> QED BY <2>5, <3>2, <3>4
  <2> QED BY <2>6, <2>7
<1> QED BY <1>1, <1>2 DEF BusClick!Dispatch

LEMMA BusWorldKept ==
  ASSUME BusClickInv, NEW t \in BusClick!Things, BusClick!Click(t) \/ BusClick!MoveFocus(t)
  PROVE  BusClickInv'
<1> USE DEF BusClickInv
<1>1. CASE BusClick!MoveFocus(t)
  <2>1. [kind |-> "focus", source |-> t, of |-> t] \in BusClick!Events
    BY DEF BusClick!Events, BusClick!Sources
  <2> QED BY <1>1, <2>1 DEF BusClick!MoveFocus, BusClick!callerVars, BusTyped, FirstDecides,
            EventsOfClicks, FirstClicked
<1>2. CASE BusClick!Click(t)
  <2>1. PICK source \in {t, BusClick!Nothing, "defunct", BusClick!Frame}, takes \in BOOLEAN :
          queue' = Append(queue, [kind |-> "press", source |-> source, of |-> t])
                     \o (IF takes /\ focused # t THEN <<[kind |-> "focus", source |-> t, of |-> t]>> ELSE <<>>)
    BY <1>2 DEF BusClick!Click
  <2>2. clicked' = clicked \cup {t} /\ UNCHANGED <<changed, strayed, handling, outcome, first>>
    BY <1>2 DEF BusClick!Click
  <2> DEFINE press == [kind |-> "press", source |-> source, of |-> t]
             focus == [kind |-> "focus", source |-> t, of |-> t]
             rest == IF takes /\ focused # t THEN <<focus>> ELSE <<>>
  <2>3. press \in BusClick!Events /\ focus \in BusClick!Events
    BY DEF BusClick!Events, BusClick!Sources, BusClick!Things
  <2>4. press.of = t /\ focus.of = t /\ focus.source = t /\ (press.source \in Components => press.source = t)
    BY ComponentsAssumption
  <2> HIDE DEF press, focus
  <2>5. Append(queue, press) \in Seq(BusClick!Events) /\ rest \in Seq(BusClick!Events)
    BY <2>3 DEF BusTyped
  <2>6. queue' = Append(queue, press) \o rest
    BY <2>1 DEF press, focus
  <2>7. BusTyped'
    BY <2>2, <2>5, <2>6 DEF BusTyped
  <2>8. \A i \in DOMAIN queue' :
          queue'[i] \in {press, focus} \/ (i \in DOMAIN queue /\ queue'[i] = queue[i])
    <3>1. CASE rest = <<>>
      BY <2>3, <2>5, <2>6, <3>1 DEF BusTyped
    <3>2. CASE rest = <<focus>>
      BY <2>3, <2>5, <2>6, <3>2 DEF BusTyped
    <3> QED BY <3>1, <3>2
  <2>9. EventsOfClicks'
    BY <2>2, <2>4, <2>8 DEF EventsOfClicks
  <2>10. FirstDecides' /\ FirstClicked'
    BY <2>2 DEF FirstDecides, FirstClicked
  <2> QED BY <2>7, <2>9, <2>10
<1> QED BY <1>1, <1>2

LEMMA BusClickKept ==
  ASSUME BusClickInv, [BusClick!Next]_BusClick!vars
  PROVE  BusClickInv'
<1>1. CASE UNCHANGED BusClick!vars
  BY <1>1 DEF BusClick!vars, BusClick!screen, BusClick!callerVars, BusClickInv, BusTyped, FirstDecides,
     EventsOfClicks,
       FirstClicked
<1> QED BY <1>1, BusCallerKept, BusDispatchKept, BusWorldKept DEF BusClick!Next, BusClick!World

-----------------------------------------------------------------------------
(* Whichever way a click is captured, the capture gets a click that was    *)
(* made for it, the object of the process that was clicked, and the result *)
(* of the first event that counts. Only what lies at a point, which is     *)
(* defined by recursion over the tree of objects, is left to TLC.          *)
THEOREM ClicksAreOwn == Spec => [](part # "hit" => CapturesOwnClick)
<1> DEFINE Kept ==
      /\ part = "next click" => CapturesInv
      /\ part = "capture" => RoutingInv
      /\ part = "bus click" => BusClickInv
<1>1. Init => Kept
  BY CapturesStart, RoutingStarts, BusClickStarts, Zenon DEF Init
<1>2. Kept /\ [Next]_vars => Kept'
  <2> SUFFICES ASSUME Kept, [Next]_vars PROVE Kept'
    BY Zenon
  <2>1. /\ UNCHANGED part
        /\ part = "next click" => [Clicks!Next]_Clicks!vars
        /\ part = "capture" => [Routing!Next]_Routing!vars
        /\ part = "bus click" => [BusClick!Next]_BusClick!vars
    BY Zenon DEF Next, vars, onlyClicks, onlyRouting, onlyBusClick, Clicks!vars, Routing!vars, BusClick!vars,
       BusClick!screen,
         BusClick!callerVars
  <2> QED BY <2>1, CapturesKept, RoutingKept, BusClickKept, Zenon
<1>3. Kept => (part # "hit" => CapturesOwnClick)
  <2>1. RoutingInv => Routing!OwnerIsCaptured
    BY DEF RoutingInv, ResultInv, Verified, Routing!OwnerIsCaptured
  <2>2. BusClickInv => BusClick!CapturesClicked
    BY ComponentsAssumption DEF BusClickInv, FirstDecides, FirstClicked, BusClick!CapturesClicked
  <2> QED BY <2>1, <2>2, ClaimsHeld, RoutesToOwner, Zenon DEF CapturesOwnClick
<1> QED BY <1>1, <1>2, <1>3, PTL DEF Spec

LEMMA SameSwingCount == \A S : Swing!Cardinality(S) = Cardinality(S)
  BY DEF Swing!Cardinality, Cardinality

-----------------------------------------------------------------------------
(* SwingActions: what a call reports happened.                             *)

Places == {"none", "sent", "find", "found", "act", "acted", "dialog", "reread", "answered"}
Queued == {"find", "act", "reread"}

SwingTyped ==
  /\ kind \in Seq(Swing!Kinds) /\ Len(kind) <= MaxRequests
  /\ asked \in Swing!Jvms \cup {Swing!Nobody}
  /\ outcome \in [Swing!Calls -> {"none", "ok", "failed"}]
  /\ request \in [Swing!Requests -> Places] /\ answer \in [Swing!Requests -> {"none", "ok", "error"}]
  /\ effects \in [Swing!Requests -> Nat]

(* A request has one job at most, in its own JVM, queued or in a dialog.   *)
JobsOf(list, at, place) ==
  \A j \in Swing!Jvms :
    /\ list[j] \in Seq(Swing!Requests)
    /\ \A i \in DOMAIN list[j] : list[j][i][2] = j /\ place[list[j][i]] \in at
    /\ \A h, i \in DOMAIN list[j] : list[j][h] = list[j][i] => h = i
JobsInv ==
  /\ DOMAIN edt = Swing!Jvms /\ DOMAIN dialogs = Swing!Jvms
  /\ JobsOf(edt, Queued, request) /\ JobsOf(dialogs, {"dialog"}, request)

(* Where a request is says whether it took effect, and so does its answer. *)
Effect(k, at, said, n) ==
  /\ at \in {"none", "sent", "find", "found", "act"} => n = 0
  /\ at \in {"acted", "dialog", "reread"} => k = "read" \/ n = 1
  /\ at = "answered" /\ said = "ok" => k = "read" \/ n = 1
  /\ at = "answered" /\ said = "error" /\ k = "act" => n = 0
  /\ at = "answered" => said # "none"
  /\ at = "reread" => k = "value"
EffectsInv ==
  \A r \in Swing!Requests :
    IF r[1] <= Len(kind) THEN Effect(kind[r[1]], request[r], answer[r], effects[r])
    ELSE request[r] = "none" /\ effects[r] = 0

(* The JVMs still to ask.                                                  *)
TodoInv ==
  /\ todo \in {<<>>, <<1>>, <<2>>, <<1, 2>>}
  /\ asked # Swing!Nobody => todo \in {<<>>, <<2>>} /\ (todo # <<>> => asked = 1)
  /\ ~ Swing!Idle => Len(kind) > 0 /\ outcome[Len(kind)] = "none"
  /\ Len(kind) > 0 => \A i \in DOMAIN todo : request[<<Len(kind), todo[i]>>] = "none"

(* A JVM that was asked answered with an error, or was given up, or is the *)
(* one whose answer ended the call.                                        *)
Passed(r) ==
  \/ r \in late \/ request[r] = "none" \/ (request[r] = "answered" /\ answer[r] = "error")
Accepted(r) == request[r] = "answered" /\ answer[r] = "ok"
CallsInv ==
  \A r \in Swing!Requests :
    \/ Passed(r)
    \/ r[1] = Len(kind) /\ asked = r[2]
    \/ /\ Accepted(r) /\ outcome[r[1]] = "ok"
       /\ \A q \in Swing!Requests : q[1] = r[1] /\ q # r => Passed(q)
Successes ==
  \A c \in Swing!Calls :
    /\ outcome[c] = "ok" => c <= Len(kind) /\ \E j \in Swing!Jvms : Accepted(<<c, j>>)
    /\ c > Len(kind) => outcome[c] = "none"

SwingInv == SwingTyped /\ JobsInv /\ EffectsInv /\ TodoInv /\ CallsInv /\ Successes

USE DEF Swing!Nobody, Swing!Jvms, Swing!Kinds

LEMMA Requested ==
  /\ \A r \in Swing!Requests : r[1] \in Swing!Calls /\ r[2] \in Swing!Jvms /\ r = <<r[1], r[2]>>
  /\ \A c \in Swing!Calls, j \in Swing!Jvms :
       <<c, j>> \in Swing!Requests /\ <<c, j>>[1] = c /\ <<c, j>>[2] = j
  /\ Swing!Calls \subseteq Nat
BY BoundsAssumption DEF Swing!Requests, Swing!Calls

LEMMA SwingStarts ==
  ASSUME Swing!Init
  PROVE  SwingInv
<1> USE DEF Swing!Init
<1>1. SwingTyped
  BY BoundsAssumption DEF SwingTyped, Places
<1>2. JobsInv
  BY DEF JobsInv, JobsOf
<1>3. EffectsInv /\ CallsInv
  BY Requested DEF EffectsInv, CallsInv, Passed, Swing!Calls
<1>4. TodoInv /\ Successes
  BY DEF TodoInv, Successes, Swing!Idle
<1> QED BY <1>1, <1>2, <1>3, <1>4 DEF SwingInv

-----------------------------------------------------------------------------
(* One request moves in its JVM, and the driver does not.                  *)
RequestMoves(r, at, said, n) ==
  /\ request' = [request EXCEPT ![r] = at] /\ answer' = [answer EXCEPT ![r] = said]
  /\ effects' = [effects EXCEPT ![r] = n]
  /\ UNCHANGED <<kind, asked, todo, outcome, late>>

LEMMA MoveKept ==
  ASSUME SwingInv, NEW r \in Swing!Requests, NEW at \in Places, NEW said \in {"none", "ok", "error"}, NEW n \in Nat,
         RequestMoves(r, at, said, n),
         request[r] \notin {"none", "answered"}, at # "none",
         r[1] <= Len(kind) => Effect(kind[r[1]], at, said, n)
  PROVE  SwingTyped' /\ EffectsInv' /\ TodoInv' /\ CallsInv' /\ Successes'
<1> USE DEF SwingInv, RequestMoves
<1>1. SwingTyped'
  BY DEF SwingTyped
<1>2. r[1] <= Len(kind) /\ r[1] \in Swing!Calls
  BY Requested DEF EffectsInv
<1>3. EffectsInv'
  BY <1>2, Requested DEF SwingTyped, EffectsInv
<1>4. request'[r] = at /\ \A q \in Swing!Requests : q # r =>
        request'[q] = request[q] /\ answer'[q] = answer[q] /\ effects'[q] = effects[q]
  BY DEF SwingTyped
<1>5. /\ ~Accepted(r)
      /\ \A q \in Swing!Requests : q # r => (Accepted(q)' <=> Accepted(q)) /\ (Passed(q)' <=> Passed(q))
  BY <1>4 DEF Accepted, Passed
<1>6. r \in late \/ (r[1] = Len(kind) /\ asked = r[2])
  BY <1>5 DEF CallsInv, Passed
<1>7. r \in late => Passed(r)'
  BY DEF Passed
<1>8. TodoInv'
  <2>1. ASSUME Len(kind) > 0, NEW i \in DOMAIN todo PROVE request'[<<Len(kind), todo[i]>>] = "none"
    <3>1. Len(kind) \in Swing!Calls /\ todo[i] \in Swing!Jvms
      BY <2>1 DEF SwingTyped, TodoInv, Swing!Calls
    <3>2. <<Len(kind), todo[i]>> \in Swing!Requests /\ request[<<Len(kind), todo[i]>>] = "none"
      BY <2>1, <3>1, Requested DEF TodoInv
    <3> QED BY <1>4, <3>2
  <2> QED BY <2>1 DEF TodoInv, Swing!Idle
<1>9. CallsInv'
  <2> SUFFICES ASSUME NEW q \in Swing!Requests
               PROVE  \/ Passed(q)'
                      \/ q[1] = Len(kind) /\ asked = q[2]
                      \/ /\ Accepted(q)' /\ outcome[q[1]] = "ok"
                         /\ \A p \in Swing!Requests : p[1] = q[1] /\ p # q => Passed(p)'
    BY DEF CallsInv
  <2>1. CASE q = r
    BY <1>6, <1>7, <2>1
  <2>2. CASE q # r /\ ~Passed(q) /\ ~(q[1] = Len(kind) /\ asked = q[2])
    <3>1. /\ Accepted(q) /\ outcome[q[1]] = "ok"
          /\ \A p \in Swing!Requests : p[1] = q[1] /\ p # q => Passed(p)
      BY <2>2 DEF CallsInv
    <3>2. q[1] = r[1] => Passed(r)
      BY <2>2, <3>1
    <3>3. Passed(r) => Passed(r)'
      BY DEF Passed
    <3> QED BY <1>4, <1>5, <2>2, <3>1, <3>2, <3>3
  <2>3. CASE q # r /\ (Passed(q) \/ (q[1] = Len(kind) /\ asked = q[2]))
    BY <1>5, <2>3
  <2> QED BY <2>1, <2>2, <2>3
<1>10. Successes'
  <2>1. \A c \in Swing!Calls, j \in Swing!Jvms : Accepted(<<c, j>>) => Accepted(<<c, j>>)'
    BY <1>5, Requested
  <2> QED BY <2>1, Zenon DEF Successes
<1> QED BY <1>1, <1>3, <1>8, <1>9, <1>10

(* What the queues become. *)
Same(list, new) == new = list
Posted(list, new, r) == new = [list EXCEPT ![r[2]] = Append(@, r)]
Begun(list, new, r) == list[r[2]] # <<>> /\ Head(list[r[2]]) = r /\ new = [list EXCEPT ![r[2]] = Tail(@)]
Closed(list, new, r) ==
  list[r[2]] # <<>> /\ list[r[2]][Len(list[r[2]])] = r /\ new = [list EXCEPT ![r[2]] = SubSeq(@, 1, Len(@) - 1)]

QueueMoves(list, new, at, r, place) ==
  \/ Same(list, new) /\ (request[r] \notin at \/ place \in at)
  \/ Posted(list, new, r) /\ request[r] \notin at /\ place \in at
  \/ Begun(list, new, r)
  \/ Closed(list, new, r)

LEMMA JobsKept ==
  ASSUME NEW list, NEW new, NEW at, NEW r \in Swing!Requests, NEW place \in Places,
         DOMAIN list = Swing!Jvms, JobsOf(list, at, request), request \in [Swing!Requests -> Places],
         request' = [request EXCEPT ![r] = place],
         QueueMoves(list, new, at, r, place)
  PROVE  DOMAIN new = Swing!Jvms /\ JobsOf(new, at, request')
<1>0. r[2] \in Swing!Jvms /\ request'[r] = place /\ \A q \in Swing!Requests : q # r => request'[q] = request[q]
  BY Requested
<1>1. CASE Same(list, new) /\ (request[r] \notin at \/ place \in at)
  BY <1>0, <1>1 DEF Same, JobsOf
<1>2. CASE Posted(list, new, r) /\ request[r] \notin at /\ place \in at
  <2> DEFINE s == list[r[2]]
  <2>1. /\ DOMAIN new = Swing!Jvms /\ new[r[2]] = Append(s, r)
        /\ \A j \in Swing!Jvms : j # r[2] => new[j] = list[j]
    BY <1>0, <1>2 DEF Posted
  <2>2. s \in Seq(Swing!Requests) /\ \A i \in DOMAIN s : s[i] # r /\ s[i] \in Swing!Requests
    BY <1>0, <1>2 DEF JobsOf
  <2>3. /\ Append(s, r) \in Seq(Swing!Requests) /\ DOMAIN Append(s, r) = 1 .. Len(s) + 1
        /\ DOMAIN s = 1 .. Len(s) /\ Append(s, r)[Len(s) + 1] = r
        /\ \A i \in DOMAIN s : Append(s, r)[i] = s[i]
    BY <2>2
  <2>4. ASSUME NEW j \in Swing!Jvms
        PROVE  /\ new[j] \in Seq(Swing!Requests)
               /\ \A i \in DOMAIN new[j] : new[j][i][2] = j /\ request'[new[j][i]] \in at
               /\ \A h, i \in DOMAIN new[j] : new[j][h] = new[j][i] => h = i
    <3>1. CASE j # r[2]
      <4>1. new[j] = list[j] /\ \A i \in DOMAIN list[j] : list[j][i] \in Swing!Requests /\ list[j][i] # r
        BY <2>1, <3>1 DEF JobsOf
      <4> QED BY <1>0, <4>1 DEF JobsOf
    <3>2. CASE j = r[2]
      <4>1. \A i \in DOMAIN s : s[i][2] = j /\ request'[s[i]] \in at
        BY <1>0, <2>2, <3>2 DEF JobsOf
      <4>2. \A h, i \in DOMAIN s : s[h] = s[i] => h = i
        BY <3>2 DEF JobsOf
      <4>3. \A i \in 1 .. Len(s) + 1 : i \in DOMAIN s \/ i = Len(s) + 1
        BY <2>2
      <4>5. new[j] = Append(s, r) /\ r[2] = j /\ request'[r] \in at
        BY <1>0, <1>2, <2>1, <3>2
      <4> HIDE DEF s
      <4>6. \A i \in DOMAIN Append(s, r) : Append(s, r)[i][2] = j /\ request'[Append(s, r)[i]] \in at
        BY <2>3, <4>1, <4>3, <4>5
      <4>7. \A h, i \in DOMAIN Append(s, r) : Append(s, r)[h] = Append(s, r)[i] => h = i
        <5> SUFFICES ASSUME NEW h \in DOMAIN Append(s, r), NEW i \in DOMAIN Append(s, r),
                            Append(s, r)[h] = Append(s, r)[i]
                     PROVE  h = i
          OBVIOUS
        <5>1. (h \in DOMAIN s \/ h = Len(s) + 1) /\ (i \in DOMAIN s \/ i = Len(s) + 1)
          BY <2>3, <4>3
        <5> QED BY <2>2, <2>3, <4>2, <5>1
      <4> QED BY <2>3, <4>5, <4>6, <4>7
    <3> QED BY <3>1, <3>2
  <2> QED BY <2>1, <2>4 DEF JobsOf
<1>3. CASE Begun(list, new, r)
  <2> DEFINE s == list[r[2]]
  <2>1. /\ DOMAIN new = Swing!Jvms /\ new[r[2]] = Tail(s) /\ s # <<>> /\ r = s[1]
        /\ \A j \in Swing!Jvms : j # r[2] => new[j] = list[j]
    BY <1>0, <1>3 DEF Begun, JobsOf
  <2>2. /\ s \in Seq(Swing!Requests) /\ \A h, i \in DOMAIN s : s[h] = s[i] => h = i
        /\ \A i \in DOMAIN s : s[i] \in Swing!Requests /\ s[i][2] = r[2] /\ request[s[i]] \in at
    BY <1>0 DEF JobsOf
  <2>3. /\ Tail(s) \in Seq(Swing!Requests) /\ 1 \in DOMAIN s
        /\ \A i \in DOMAIN Tail(s) : i \in Nat /\ i + 1 \in DOMAIN s /\ i + 1 # 1 /\ Tail(s)[i] = s[i + 1]
    BY <2>1, <2>2
  <2>4. ASSUME NEW j \in Swing!Jvms
        PROVE  /\ new[j] \in Seq(Swing!Requests)
               /\ \A i \in DOMAIN new[j] : new[j][i][2] = j /\ request'[new[j][i]] \in at
               /\ \A h, i \in DOMAIN new[j] : new[j][h] = new[j][i] => h = i
    <3>1. CASE j # r[2]
      <4>1. new[j] = list[j] /\ \A i \in DOMAIN list[j] : list[j][i] \in Swing!Requests /\ list[j][i] # r
        BY <2>1, <3>1 DEF JobsOf
      <4> QED BY <1>0, <4>1 DEF JobsOf
    <3>2. CASE j = r[2]
      <4>1. \A i \in DOMAIN Tail(s) : s[i + 1] # r /\ s[i + 1][2] = j /\ request'[s[i + 1]] \in at
        BY <1>0, <2>1, <2>2, <2>3, <3>2
      <4>5. new[j] = Tail(s)
        BY <2>1, <3>2
      <4> HIDE DEF s
      <4>6. \A i \in DOMAIN Tail(s) : Tail(s)[i][2] = j /\ request'[Tail(s)[i]] \in at
        BY <2>3, <4>1
      <4>7. \A h, i \in DOMAIN Tail(s) : Tail(s)[h] = Tail(s)[i] => h = i
        <5> SUFFICES ASSUME NEW h \in DOMAIN Tail(s), NEW i \in DOMAIN Tail(s), Tail(s)[h] = Tail(s)[i]
                     PROVE  h = i
          OBVIOUS
        <5>1. h + 1 = i + 1 /\ h \in Nat /\ i \in Nat
          BY <2>2, <2>3
        <5> QED BY <5>1
      <4> QED BY <2>3, <4>5, <4>6, <4>7
    <3> QED BY <3>1, <3>2
  <2> QED BY <2>1, <2>4 DEF JobsOf
<1>4. CASE Closed(list, new, r)
  <2> DEFINE s == list[r[2]]
             t == SubSeq(s, 1, Len(s) - 1)
  <2>1. /\ DOMAIN new = Swing!Jvms /\ new[r[2]] = t /\ s # <<>> /\ r = s[Len(s)]
        /\ \A j \in Swing!Jvms : j # r[2] => new[j] = list[j]
    BY <1>0, <1>4 DEF Closed
  <2>2. /\ s \in Seq(Swing!Requests) /\ \A h, i \in DOMAIN s : s[h] = s[i] => h = i
        /\ \A i \in DOMAIN s : s[i] \in Swing!Requests /\ s[i][2] = r[2] /\ request[s[i]] \in at
    BY <1>0 DEF JobsOf
  <2>3. /\ t \in Seq(Swing!Requests) /\ Len(s) \in DOMAIN s
        /\ \A i \in DOMAIN t : i \in DOMAIN s /\ i # Len(s) /\ t[i] = s[i]
    BY <2>1, <2>2
  <2> HIDE DEF t
  <2>4. ASSUME NEW j \in Swing!Jvms
        PROVE  /\ new[j] \in Seq(Swing!Requests)
               /\ \A i \in DOMAIN new[j] : new[j][i][2] = j /\ request'[new[j][i]] \in at
               /\ \A h, i \in DOMAIN new[j] : new[j][h] = new[j][i] => h = i
    <3>1. CASE j # r[2]
      <4>1. new[j] = list[j] /\ \A i \in DOMAIN list[j] : list[j][i] \in Swing!Requests /\ list[j][i] # r
        BY <2>1, <3>1 DEF JobsOf
      <4> QED BY <1>0, <4>1 DEF JobsOf
    <3>2. CASE j = r[2]
      <4>1. \A i \in DOMAIN t : t[i] # r /\ t[i][2] = j /\ request'[t[i]] \in at
        BY <1>0, <2>1, <2>2, <2>3, <3>2
      <4> HIDE DEF s
      <4> QED BY <2>1, <2>2, <2>3, <3>2, <4>1
    <3> QED BY <3>1, <3>2
  <2> QED BY <2>1, <2>4 DEF JobsOf
<1> QED BY <1>1, <1>2, <1>3, <1>4 DEF QueueMoves

(* What is known of the call the driver is at.                             *)
LEMMA CurrentCall ==
  ASSUME SwingInv
  PROVE  /\ Swing!Current = Len(kind) /\ Len(kind) \in 0 .. MaxRequests
         /\ ~ Swing!Idle => Len(kind) \in Swing!Calls /\ outcome[Len(kind)] = "none"
         /\ asked # Swing!Nobody => /\ Swing!Asked \in Swing!Requests /\ Swing!Asked[1] = Len(kind) /\ Swing!Asked[2] = asked
                                    /\ Swing!Asked = <<Len(kind), asked>> /\ ~ Swing!Idle
BY Requested, BoundsAssumption
   DEF SwingInv, SwingTyped, TodoInv, Swing!Idle, Swing!Current, Swing!Asked, Swing!Calls, Swing!Requests

LEMMA Concatenations ==
  /\ <<>> \o <<>> = <<>> /\ <<1>> \o <<>> = <<1>> /\ <<>> \o <<2>> = <<2>> /\ <<1>> \o <<2>> = <<1, 2>>
<1>1. ASSUME NEW s \in Seq(Nat), NEW t \in Seq(Nat), Len(s) = 1, Len(t) = 1
      PROVE  s \o t \in Seq(Nat) /\ Len(s \o t) = 2 /\ (s \o t)[1] = s[1] /\ (s \o t)[2] = t[1]
  <2>1. /\ s \o t \in Seq(Nat) /\ Len(s \o t) = Len(s) + Len(t)
        /\ \A i \in 1 .. Len(s) : (s \o t)[i] = s[i]
        /\ \A i \in 1 .. Len(t) : (s \o t)[Len(s) + i] = t[i]
    OBVIOUS
  <2> QED BY <1>1, <2>1
<1>2. ASSUME NEW s \in Seq(Nat), Len(s) = 2, s[1] = 1, s[2] = 2 PROVE s = <<1, 2>>
  BY <1>2
<1>3. <<1>> \o <<2>> = <<1, 2>>
  <2> DEFINE s == <<1>>
             t == <<2>>
  <2>1. s \in Seq(Nat) /\ t \in Seq(Nat) /\ Len(s) = 1 /\ Len(t) = 1 /\ s[1] = 1 /\ t[1] = 2
    OBVIOUS
  <2> HIDE DEF s, t
  <2>2. s \o t \in Seq(Nat) /\ Len(s \o t) = 2 /\ (s \o t)[1] = 1 /\ (s \o t)[2] = 2
    BY <1>1, <2>1
  <2>3. s \o t = <<1, 2>>
    BY <1>2, <2>2
  <2> QED BY <2>3 DEF s, t
<1>4. <<>> \o <<>> = <<>> /\ <<1>> \o <<>> = <<1>> /\ <<>> \o <<2>> = <<2>>
  OBVIOUS
<1> QED BY <1>3, <1>4

(* The JVMs to ask are JVMs, and the rest of them too. *)
LEMMA Listed ==
  \A s \in {<<>>, <<1>>, <<2>>, <<1, 2>>} :
    /\ \A i \in DOMAIN s : s[i] \in Swing!Jvms
    /\ s # <<>> => /\ 1 \in DOMAIN s /\ Head(s) = s[1] /\ Tail(s) \in {<<>>, <<2>>}
                   /\ (Tail(s) # <<>> => s = <<1, 2>>)
<1> TAKE s \in {<<>>, <<1>>, <<2>>, <<1, 2>>}
<1>1. CASE s = <<>>
  BY <1>1
<1>2. CASE s = <<1>>
  BY <1>2
<1>3. CASE s = <<2>>
  BY <1>3
<1>4. CASE s = <<1, 2>>
  BY <1>4
<1> QED BY <1>1, <1>2, <1>3, <1>4

LEMMA StartKept ==
  ASSUME SwingInv, NEW k \in Swing!Kinds, Swing!StartCall(k)
  PROVE  SwingInv'
<1> USE DEF SwingInv, Swing!StartCall, Swing!threadVars
<1> DEFINE c == Len(kind) + 1
<1>1. /\ kind \in Seq(Swing!Kinds) /\ c \in Swing!Calls /\ Swing!Current = Len(kind) /\ Len(kind) \in Nat
      /\ asked = Swing!Nobody /\ todo = <<>>
  BY CurrentCall, BoundsAssumption DEF SwingTyped, Swing!Idle, Swing!Calls
<1>2. /\ kind' \in Seq(Swing!Kinds) /\ Len(kind') = c /\ kind'[c] = k
      /\ \A b \in 1 .. Len(kind) : kind'[b] = kind[b]
  BY <1>1
<1>3. /\ outcome' \in [Swing!Calls -> {"none", "ok", "failed"}] /\ outcome'[c] # "ok" /\ (todo' # <<>> => outcome'[c] = "none")
      /\ \A b \in Swing!Calls : b # c => outcome'[b] = outcome[b]
  <2>1. outcome[c] = "none"
    <3>1. c > Len(kind)
      BY <1>1
    <3> HIDE DEF c, Swing!StartCall
    <3> QED BY <1>1, <3>1 DEF Successes
  <2>2. outcome' = IF todo' = <<>> THEN [outcome EXCEPT ![c] = "failed"] ELSE outcome
    BY <1>1
  <2>3. outcome \in [Swing!Calls -> {"none", "ok", "failed"}]
    BY DEF SwingTyped
  <2> HIDE DEF SwingInv, Swing!StartCall, c
  <2> QED BY <1>1, <2>1, <2>2, <2>3
<1>4. UNCHANGED <<asked, request, answer, edt, dialogs, effects, late>>
  OBVIOUS
<1>5. todo' \in {<<>>, <<1>>, <<2>>, <<1, 2>>}
  BY Concatenations DEF Swing!Discovered, Swing!Answering
<1>6. \A r \in Swing!Requests : r[1] = c => request[r] = "none" /\ effects[r] = 0
  BY <1>1 DEF EffectsInv
<1> HIDE DEF Swing!StartCall
<1>7. SwingTyped'
  BY <1>1, <1>2, <1>3, <1>4 DEF SwingTyped, Swing!Calls
<1>8. JobsInv'
  BY <1>4 DEF JobsInv, JobsOf
<1>9. EffectsInv'
  <2> SUFFICES ASSUME NEW r \in Swing!Requests
               PROVE  IF r[1] <= Len(kind') THEN Effect(kind'[r[1]], request[r], answer[r], effects[r])
                      ELSE request[r] = "none" /\ effects[r] = 0
    BY <1>4 DEF EffectsInv
  <2>1. r[1] \in Nat /\ r[1] >= 1
    BY Requested DEF Swing!Calls
  <2>2. CASE r[1] <= Len(kind)
    BY <1>1, <1>2, <2>1, <2>2 DEF EffectsInv
  <2>3. CASE r[1] = c
    BY <1>1, <1>2, <1>6, <2>3 DEF Effect
  <2>4. CASE r[1] > c
    BY <1>1, <1>2, <2>1, <2>4 DEF EffectsInv
  <2> QED BY <1>1, <2>1, <2>2, <2>3, <2>4
<1>10. TodoInv'
  <2>1. ASSUME NEW i \in DOMAIN todo' PROVE request'[<<c, todo'[i]>>] = "none"
    <3>1. <<c, todo'[i]>> \in Swing!Requests /\ <<c, todo'[i]>>[1] = c
      BY <1>1, <1>5, Listed, Requested
    <3> QED BY <1>4, <1>6, <3>1
  <2> QED BY <1>1, <1>2, <1>3, <1>4, <1>5, <2>1 DEF TodoInv, Swing!Idle
<1>11. CallsInv'
  <2> SUFFICES ASSUME NEW r \in Swing!Requests, ~Passed(r)
               PROVE  /\ Accepted(r) /\ outcome'[r[1]] = "ok"
                      /\ \A q \in Swing!Requests : q[1] = r[1] /\ q # r => Passed(q)
    BY <1>4 DEF CallsInv, Passed, Accepted
  <2>1. r[1] # c /\ r[1] \in Swing!Calls
    BY <1>6, Requested DEF Passed
  <2>2. ~(r[1] = Len(kind) /\ asked = r[2])
    BY <1>1, Requested
  <2> QED BY <1>3, <2>1, <2>2 DEF CallsInv
<1>12. Successes'
  <2>1. \A b \in Swing!Calls : b = c \/ b <= Len(kind) \/ b > c
    BY <1>1 DEF Swing!Calls
  <2>2. \A r \in Swing!Requests : Accepted(r)' <=> Accepted(r)
    BY <1>4 DEF Accepted
  <2> SUFFICES ASSUME NEW b \in Swing!Calls
               PROVE  /\ outcome'[b] = "ok" => b <= Len(kind') /\ \E j \in Swing!Jvms : Accepted(<<b, j>>)'
                      /\ b > Len(kind') => outcome'[b] = "none"
    BY Zenon DEF Successes
  <2>3. b # c => outcome'[b] = outcome[b]
    BY <1>3
  <2>4. b > Len(kind') => b # c /\ b > Len(kind)
    BY <1>1, <1>2 DEF Swing!Calls
  <2>5. outcome[b] = "ok" => b <= Len(kind) /\ \E j \in Swing!Jvms : Accepted(<<b, j>>)'
    BY <2>2, Requested DEF Successes
  <2>6. b <= Len(kind) => b <= Len(kind')
    BY <1>1, <1>2 DEF Swing!Calls
  <2> QED BY <1>3, <2>3, <2>4, <2>5, <2>6 DEF Successes
<1> QED BY <1>7, <1>8, <1>9, <1>10, <1>11, <1>12

LEMMA SwingAskKept ==
  ASSUME SwingInv, Swing!Ask
  PROVE  SwingInv'
<1> USE DEF SwingInv
<1> DEFINE r == <<Len(kind), asked'>>
<1>1. /\ asked = Swing!Nobody /\ todo # <<>> /\ asked' = Head(todo) /\ todo' = Tail(todo)
      /\ UNCHANGED <<kind, outcome, late, answer, edt, dialogs, effects>>
      /\ request' = [request EXCEPT ![r] = "sent"]
  BY CurrentCall DEF Swing!Ask
<1>2. Len(kind) \in Swing!Calls /\ outcome[Len(kind)] = "none" /\ Len(kind) \in Nat
  BY <1>1, CurrentCall DEF Swing!Idle
<1>3. asked' = todo[1] /\ 1 \in DOMAIN todo /\ asked' \in {1, 2} /\ todo' \in {<<>>, <<2>>} /\ (todo' # <<>> => asked' = 1)
  <2>1. todo \in {<<>>, <<1>>, <<2>>, <<1, 2>>}
    BY DEF TodoInv
  <2>2. todo = <<1, 2>> => Head(todo) = 1
    OBVIOUS
  <2> HIDE DEF SwingInv
  <2> QED BY <1>1, <2>1, <2>2, Listed
<1>4. r \in Swing!Requests /\ r[1] = Len(kind) /\ r[2] = asked' /\ request[r] = "none"
  <2>1. Len(kind) > 0
    BY <1>2 DEF Swing!Calls
  <2>2. request[<<Len(kind), todo[1]>>] = "none"
    BY <1>3, <2>1 DEF TodoInv
  <2> HIDE DEF SwingInv
  <2> QED BY <1>2, <1>3, <2>2, Requested
<1>5. /\ request' \in [Swing!Requests -> Places] /\ request'[r] = "sent"
      /\ \A q \in Swing!Requests : q # r => request'[q] = request[q]
  BY <1>1, <1>4 DEF SwingTyped, Places
<1> HIDE DEF r
<1>6. SwingTyped'
  BY <1>1, <1>3, <1>5 DEF SwingTyped
<1>7. JobsInv'
  <2>1. \A at : Same(edt, edt') /\ Same(dialogs, dialogs')
    BY <1>1 DEF Same
  <2> QED BY <1>1, <1>4, <1>5 DEF JobsInv, JobsOf, Queued
<1>8. EffectsInv'
  <2>1. \A q \in Swing!Requests : q # r => request'[q] = request[q] /\ answer'[q] = answer[q] /\ effects'[q] = effects[q]
    BY <1>1, <1>5
  <2>2. Effect(kind[r[1]], "sent", answer[r], effects[r])
    BY <1>2, <1>4 DEF EffectsInv, Effect
  <2> QED BY <1>1, <1>2, <1>4, <1>5, <2>1, <2>2 DEF EffectsInv
<1>9. TodoInv'
  <2>1. ASSUME NEW i \in DOMAIN todo' PROVE request'[<<Len(kind), todo'[i]>>] = "none"
    <3>1. todo = <<1, 2>> /\ todo'[i] = 2 /\ asked' = 1 /\ 2 \in DOMAIN todo /\ todo[2] = 2
      BY <1>1, <1>3, <2>1 DEF TodoInv
    <3>2. <<Len(kind), 2>> \in Swing!Requests /\ <<Len(kind), 2>> # r /\ request[<<Len(kind), 2>>] = "none"
      BY <1>2, <1>4, <3>1, Requested DEF TodoInv, Swing!Calls
    <3> QED BY <1>5, <3>1, <3>2
  <2> QED BY <1>1, <1>2, <1>3, <2>1 DEF TodoInv, Swing!Calls
<1>10. CallsInv'
  <2>1. \A q \in Swing!Requests : q # r => (Passed(q)' <=> Passed(q)) /\ (Accepted(q)' <=> Accepted(q))
    BY <1>1, <1>5 DEF Passed, Accepted
  <2> SUFFICES ASSUME NEW q \in Swing!Requests, q # r, ~Passed(q)
               PROVE  /\ Accepted(q) /\ outcome[q[1]] = "ok"
                      /\ \A p \in Swing!Requests : p[1] = q[1] /\ p # q => Passed(p)'
    BY <1>1, <1>4, <2>1 DEF CallsInv
  <2>2. /\ Accepted(q) /\ outcome[q[1]] = "ok"
        /\ \A p \in Swing!Requests : p[1] = q[1] /\ p # q => Passed(p)
    BY <1>1, Requested DEF CallsInv
  <2>3. q[1] # r[1]
    BY <1>2, <1>4, <2>2
  <2> QED BY <2>1, <2>2, <2>3
<1>11. Successes'
  <2>1. \A q \in Swing!Requests : Accepted(q) => Accepted(q)'
    BY <1>1, <1>4, <1>5 DEF Accepted
  <2> QED BY <1>1, <2>1, Requested, Zenon DEF Successes
<1> QED BY <1>6, <1>7, <1>8, <1>9, <1>10, <1>11

(* The driver goes on from a JVM it is done with. *)
LEMMA NextKept ==
  ASSUME SwingInv, asked # Swing!Nobody, Swing!NextTransport, NEW r, r = Swing!Asked, Passed(r)', late \subseteq late',
         UNCHANGED <<kind, request, answer, edt, dialogs, effects>>
  PROVE  SwingInv'
<1> USE DEF SwingInv
<1>1. /\ r \in Swing!Requests /\ r[1] = Len(kind) /\ r[2] = asked /\ ~Swing!Idle
      /\ Len(kind) \in Swing!Calls /\ outcome[Len(kind)] = "none" /\ r = <<Len(kind), asked>>
  BY CurrentCall
<1>2. /\ asked' = Swing!Nobody /\ todo' = todo /\ outcome' \in [Swing!Calls -> {"none", "ok", "failed"}]
      /\ \A c \in Swing!Calls : c # Len(kind) => outcome'[c] = outcome[c]
      /\ outcome'[Len(kind)] # "ok" /\ (todo # <<>> => outcome' = outcome)
  BY <1>1, CurrentCall DEF Swing!NextTransport, SwingTyped
<1>3. SwingTyped' /\ JobsInv' /\ EffectsInv'
  BY <1>2 DEF SwingTyped, JobsInv, JobsOf, EffectsInv
<1>4. TodoInv'
  BY <1>1, <1>2 DEF TodoInv, Swing!Idle
<1>5. CallsInv'
  <2>1. \A q \in Swing!Requests : (Passed(q) => Passed(q)') /\ (Accepted(q)' <=> Accepted(q))
    BY DEF Passed, Accepted
  <2> SUFFICES ASSUME NEW q \in Swing!Requests, ~Passed(q)'
               PROVE  /\ Accepted(q)' /\ outcome'[q[1]] = "ok"
                      /\ \A p \in Swing!Requests : p[1] = q[1] /\ p # q => Passed(p)'
    BY DEF CallsInv
  <2>2. ~(q[1] = Len(kind) /\ asked = q[2])
    BY <1>1, Requested
  <2>3. /\ Accepted(q) /\ outcome[q[1]] = "ok"
        /\ \A p \in Swing!Requests : p[1] = q[1] /\ p # q => Passed(p)
    BY <2>1, <2>2 DEF CallsInv
  <2>4. q[1] # Len(kind) /\ q[1] \in Swing!Calls
    BY <1>1, <2>3, Requested
  <2> QED BY <1>2, <2>1, <2>3, <2>4
<1>6. Successes'
  <2>1. \A q \in Swing!Requests : Accepted(q)' <=> Accepted(q)
    BY DEF Accepted
  <2> SUFFICES ASSUME NEW b \in Swing!Calls
               PROVE  /\ outcome'[b] = "ok" => b <= Len(kind) /\ \E j \in Swing!Jvms : Accepted(<<b, j>>)'
                      /\ b > Len(kind) => outcome'[b] = "none"
    BY Zenon DEF Successes
  <2>2. b > Len(kind) => b # Len(kind)
    BY DEF SwingTyped
  <2> QED BY <1>1, <1>2, <2>1, <2>2, Requested DEF Successes
<1> QED BY <1>3, <1>4, <1>5, <1>6

LEMMA ReceiveKept ==
  ASSUME SwingInv, Swing!ReceiveAnswer
  PROVE  SwingInv'
<1> USE DEF SwingInv
<1> DEFINE r == Swing!Asked
<1>1. /\ asked # Swing!Nobody /\ request[r] = "answered"
      /\ UNCHANGED <<kind, late, request, answer, component, edt, dialogs, effects>>
  BY DEF Swing!ReceiveAnswer, Swing!threadVars
<1>2. /\ r \in Swing!Requests /\ r[1] = Len(kind) /\ r[2] = asked /\ r = <<Len(kind), asked>>
      /\ Len(kind) \in Swing!Calls /\ outcome[Len(kind)] = "none"
  BY <1>1, CurrentCall
<1>3. CASE answer[r] = "error" /\ Swing!NextTransport
  <2>1. \A q : q = r => Passed(q)'
    BY <1>1, <1>3 DEF Passed
  <2> QED BY <1>1, <1>3, <2>1, NextKept
<1>4. CASE answer[r] = "ok" /\ asked' = Swing!Nobody /\ todo' = <<>> /\ outcome' = [outcome EXCEPT ![Len(kind)] = "ok"]
  <2>0. /\ outcome' \in [Swing!Calls -> {"none", "ok", "failed"}] /\ outcome'[Len(kind)] = "ok"
        /\ \A c \in Swing!Calls : c # Len(kind) => outcome'[c] = outcome[c]
    BY <1>2, <1>4 DEF SwingTyped
  <2>1. SwingTyped' /\ JobsInv' /\ EffectsInv'
    BY <1>1, <1>4, <2>0 DEF SwingTyped, JobsInv, JobsOf, EffectsInv
  <2>2. TodoInv'
    BY <1>4 DEF TodoInv, Swing!Idle
  <2>3. \A q \in Swing!Requests : (Passed(q)' <=> Passed(q)) /\ (Accepted(q)' <=> Accepted(q))
    BY <1>1 DEF Passed, Accepted
  <2>4. \A q \in Swing!Requests : q[1] = Len(kind) /\ q # r => Passed(q)
    BY <1>2, Requested DEF CallsInv
  <2>5. \A q : q = r => Accepted(q)
    BY <1>1, <1>4 DEF Accepted
  <2> HIDE DEF r
  <2>6. CallsInv'
    <3> SUFFICES ASSUME NEW q \in Swing!Requests, ~Passed(q)
                 PROVE  /\ Accepted(q) /\ outcome'[q[1]] = "ok"
                        /\ \A p \in Swing!Requests : p[1] = q[1] /\ p # q => Passed(p)
      BY <2>3 DEF CallsInv
    <3>1. CASE q = r
      BY <1>2, <2>0, <2>4, <2>5, <3>1
    <3>2. CASE q # r
      <4>1. q[1] # Len(kind) /\ q[1] \in Swing!Calls
        BY <2>4, <3>2, Requested
      <4> QED BY <2>0, <4>1 DEF CallsInv
    <3> QED BY <3>1, <3>2
  <2>7. Successes'
    <3> SUFFICES ASSUME NEW b \in Swing!Calls
                 PROVE  /\ outcome'[b] = "ok" => b <= Len(kind) /\ \E j \in Swing!Jvms : Accepted(<<b, j>>)
                        /\ b > Len(kind) => outcome'[b] = "none"
      BY <1>1, <2>3, Requested, Zenon DEF Successes
    <3>1. CASE b = Len(kind)
      BY <1>2, <2>5, <3>1, Requested, CurrentCall
    <3>2. CASE b # Len(kind)
      BY <2>0, <3>2 DEF Successes
    <3> QED BY <3>1, <3>2
  <2> QED BY <2>1, <2>2, <2>6, <2>7
<1> QED BY <1>1, <1>3, <1>4, CurrentCall DEF Swing!ReceiveAnswer

LEMMA TimeOutKept ==
  ASSUME SwingInv, Swing!TimeOut
  PROVE  SwingInv'
<1> DEFINE r == Swing!Asked
<1>1. /\ asked # Swing!Nobody /\ late' = late \cup {r} /\ Swing!NextTransport
      /\ UNCHANGED <<kind, request, answer, edt, dialogs, effects>>
  BY DEF Swing!TimeOut, Swing!threadVars
<1>2. \A q : q = r => Passed(q)'
  BY <1>1 DEF Passed
<1> QED BY <1>1, <1>2, NextKept

LEMMA RequestKept ==
  ASSUME SwingInv, NEW r \in Swing!Requests, NEW at \in Places, NEW said \in {"none", "ok", "error"}, NEW n \in Nat,
         RequestMoves(r, at, said, n),
         QueueMoves(edt, edt', Queued, r, at), QueueMoves(dialogs, dialogs', {"dialog"}, r, at),
         request[r] \notin {"none", "answered"}, at # "none",
         r[1] <= Len(kind) => Effect(kind[r[1]], at, said, n)
  PROVE  SwingInv'
<1>1. SwingTyped' /\ EffectsInv' /\ TodoInv' /\ CallsInv' /\ Successes'
  BY MoveKept
<1>2. JobsInv'
  <2>1. /\ DOMAIN edt = Swing!Jvms /\ JobsOf(edt, Queued, request)
        /\ DOMAIN dialogs = Swing!Jvms /\ JobsOf(dialogs, {"dialog"}, request)
        /\ request \in [Swing!Requests -> Places] /\ request' = [request EXCEPT ![r] = at]
    BY DEF SwingInv, JobsInv, SwingTyped, RequestMoves
  <2>2. DOMAIN edt' = Swing!Jvms /\ JobsOf(edt', Queued, request')
    BY <2>1, JobsKept
  <2>3. DOMAIN dialogs' = Swing!Jvms /\ JobsOf(dialogs', {"dialog"}, request')
    BY <2>1, JobsKept
  <2> QED BY <2>2, <2>3 DEF JobsInv
<1> QED BY <1>1, <1>2 DEF SwingInv

(* The request of the first job of a queue, or of the innermost dialog. *)
LEMMA FirstJob ==
  ASSUME SwingInv, NEW j \in Swing!Jvms, edt[j] # <<>>
  PROVE  LET r == Head(edt[j]) IN r \in Swing!Requests /\ r[2] = j /\ edt[r[2]] # <<>> /\ request[r] \in Queued
<1>1. edt[j] \in Seq(Swing!Requests) /\ \A i \in DOMAIN edt[j] : edt[j][i][2] = j /\ request[edt[j][i]] \in Queued
  BY DEF SwingInv, JobsInv, JobsOf
<1> QED BY <1>1

LEMMA InnermostDialog ==
  ASSUME SwingInv, NEW j \in Swing!Jvms, dialogs[j] # <<>>
  PROVE  LET r == dialogs[j][Len(dialogs[j])] IN r \in Swing!Requests /\ r[2] = j /\ request[r] = "dialog"
<1>1. dialogs[j] \in Seq(Swing!Requests)
      /\ \A i \in DOMAIN dialogs[j] : dialogs[j][i][2] = j /\ request[dialogs[j][i]] \in {"dialog"}
  BY DEF SwingInv, JobsInv, JobsOf
<1> QED BY <1>1

(* Of a request on its way, its call has begun. *)
LEMMA Begins ==
  ASSUME SwingInv, NEW r \in Swing!Requests, request[r] # "none"
  PROVE  r[1] <= Len(kind) /\ kind[r[1]] \in Swing!Kinds /\ Effect(kind[r[1]], request[r], answer[r], effects[r])
         /\ answer[r] \in {"none", "ok", "error"} /\ effects[r] \in Nat /\ r[1] \in 1 .. Len(kind)
<1>1. r[1] <= Len(kind) /\ r[1] \in Nat /\ r[1] >= 1
  BY Requested DEF SwingInv, EffectsInv, Swing!Calls
<1> QED BY <1>1 DEF SwingInv, EffectsInv, SwingTyped

LEMMA ThreadKept ==
  ASSUME SwingInv, NEW r \in Swing!Requests, Swing!Thread(r)
  PROVE  SwingInv'
<1>0. r[2] \in Swing!Jvms /\ r[1] \in Swing!Calls
  BY Requested
<1>a. /\ request \in [Swing!Requests -> Places] /\ answer \in [Swing!Requests -> {"none", "ok", "error"}]
      /\ effects \in [Swing!Requests -> Nat]
  BY DEF SwingInv, SwingTyped
<1>1. CASE Swing!Accept(r)
  <2>1. request[r] = "sent"
    BY <1>1 DEF Swing!Accept
  <2>2. RequestMoves(r, "find", answer[r], effects[r])
    BY <1>1, <1>a DEF Swing!Accept, RequestMoves, Swing!driverVars
  <2>3. QueueMoves(edt, edt', Queued, r, "find") /\ QueueMoves(dialogs, dialogs', {"dialog"}, r, "find")
    BY <1>1, <2>1 DEF Swing!Accept, Swing!Post, QueueMoves, Posted, Same, Queued
  <2>4. r[1] <= Len(kind) => Effect(kind[r[1]], "find", answer[r], effects[r])
    BY <2>1, Begins DEF Effect
  <2> QED BY <2>1, <2>2, <2>3, <2>4, Begins, RequestKept DEF Places
<1>2. CASE Swing!Proceed(r)
  <2>1. PICK at \in {"act", "reread"} :
          /\ \/ request[r] = "found" /\ at = "act"
             \/ request[r] = "acted" /\ kind[r[1]] = "value" /\ at = "reread"
          /\ request' = [request EXCEPT ![r] = at]
    BY <1>2 DEF Swing!Proceed
  <2>2. RequestMoves(r, at, answer[r], effects[r])
    BY <1>2, <1>a, <2>1 DEF Swing!Proceed, RequestMoves, Swing!driverVars
  <2>3. QueueMoves(edt, edt', Queued, r, at) /\ QueueMoves(dialogs, dialogs', {"dialog"}, r, at)
    BY <1>2, <2>1 DEF Swing!Proceed, Swing!Post, QueueMoves, Posted, Same, Queued
  <2>4. r[1] <= Len(kind) => Effect(kind[r[1]], at, answer[r], effects[r])
    BY <2>1, Begins DEF Effect
  <2> QED BY <2>1, <2>2, <2>3, <2>4, Begins, RequestKept DEF Places
<1>3. CASE Swing!Finish(r)
  <2> DEFINE said == IF kind[r[1]] = "close" /\ component[r] \in shown[r[2]] THEN "error" ELSE "ok"
  <2>1. \/ request[r] = "acted" /\ kind[r[1]] # "value"
        \/ request[r] = "found" /\ kind[r[1]] = "read"
    BY <1>3 DEF Swing!Finish
  <2>2. RequestMoves(r, "answered", said, effects[r])
    BY <1>3, <1>a DEF Swing!Finish, Swing!Answers, RequestMoves, Swing!driverVars
  <2>3. QueueMoves(edt, edt', Queued, r, "answered") /\ QueueMoves(dialogs, dialogs', {"dialog"}, r, "answered")
    BY <1>3, <2>1 DEF Swing!Finish, QueueMoves, Same, Queued
  <2>4. r[1] <= Len(kind) => Effect(kind[r[1]], "answered", said, effects[r])
    BY <2>1, Begins DEF Effect
  <2> QED BY <2>1, <2>2, <2>3, <2>4, Begins, RequestKept DEF Places
<1> QED BY <1>1, <1>2, <1>3 DEF Swing!Thread

LEMMA SwingDispatchKept ==
  ASSUME SwingInv, NEW j \in Swing!Jvms, Swing!DispatchThread(j)
  PROVE  SwingInv'
<1> DEFINE r == Head(edt[j])
<1>a. /\ request \in [Swing!Requests -> Places] /\ answer \in [Swing!Requests -> {"none", "ok", "error"}]
      /\ effects \in [Swing!Requests -> Nat]
  BY DEF SwingInv, SwingTyped
<1>b. ASSUME edt[j] # <<>>
      PROVE  r \in Swing!Requests /\ r[2] = j /\ edt[r[2]] # <<>> /\ Head(edt[r[2]]) = r
  BY <1>b, FirstJob
<1>c. ASSUME edt[j] # <<>>, Swing!Done(j), NEW at PROVE QueueMoves(edt, edt', Queued, r, at)
  BY <1>b, <1>c DEF Swing!Done, QueueMoves, Begun
<1>d. ASSUME UNCHANGED dialogs, NEW at, request[r] # "dialog" PROVE QueueMoves(dialogs, dialogs', {"dialog"}, r, at)
  BY <1>d DEF QueueMoves, Same
<1>e. ASSUME edt[j] # <<>>, request[r] # "none"
      PROVE  /\ r[1] <= Len(kind) /\ answer[r] \in {"none", "ok", "error"} /\ effects[r] \in Nat
             /\ Effect(kind[r[1]], request[r], answer[r], effects[r])
  BY <1>b, <1>e, Begins
<1>1. CASE Swing!RunFind(j)
  <2>1. /\ edt[j] # <<>> /\ request[r] = "find" /\ Swing!Done(j)
        /\ UNCHANGED <<dialogs, effects, kind, asked, todo, outcome, late>>
    BY <1>1 DEF Swing!RunFind, Swing!Job, Swing!driverVars
  <2>2. PICK at \in {"found", "answered"}, said \in {"none", "ok", "error"} :
          /\ request' = [request EXCEPT ![r] = at] /\ answer' = [answer EXCEPT ![r] = said]
          /\ at = "answered" => said = "error"
    <3>1. CASE request' = [request EXCEPT ![r] = "found"] /\ UNCHANGED answer
      <4>1. answer' = [answer EXCEPT ![r] = answer[r]] /\ answer[r] \in {"none", "ok", "error"}
        BY <1>a, <1>b, <2>1, <3>1
      <4> HIDE DEF r
      <4> QED BY <3>1, <4>1
    <3>2. CASE Swing!Answers(r, "error")
      BY <3>2 DEF Swing!Answers
    <3> QED BY <1>1, <3>1, <3>2 DEF Swing!RunFind
  <2>3. RequestMoves(r, at, said, effects[r])
    BY <1>a, <1>b, <2>1, <2>2 DEF RequestMoves
  <2>4. r[1] <= Len(kind) => Effect(kind[r[1]], at, said, effects[r])
    BY <1>e, <2>1, <2>2 DEF Effect
  <2>5. QueueMoves(edt, edt', Queued, r, at) /\ QueueMoves(dialogs, dialogs', {"dialog"}, r, at)
    BY <1>c, <1>d, <2>1
  <2>6. effects[r] \in Nat /\ at \in Places /\ at # "none" /\ said \in {"none", "ok", "error"}
    BY <1>e, <2>1, <2>2 DEF Places
  <2> HIDE DEF r
  <2> QED BY <1>b, <2>1, <2>3, <2>4, <2>5, <2>6, RequestKept
<1>2. CASE Swing!RunReread(j)
  <2>1. /\ edt[j] # <<>> /\ request[r] = "reread" /\ Swing!Done(j)
        /\ UNCHANGED <<dialogs, kind, asked, todo, outcome, late>>
    BY <1>2 DEF Swing!RunReread, Swing!Job, Swing!driverVars
  <2> DEFINE said == IF Swing!Cardinality(shown[j]) = 1 THEN "ok" ELSE "error"
  <2>2. RequestMoves(r, "answered", said, effects[r])
    BY <1>2, <1>a, <1>b, <2>1 DEF Swing!RunReread, Swing!Answers, RequestMoves
  <2>3. r[1] <= Len(kind) => Effect(kind[r[1]], "answered", said, effects[r])
    BY <1>e, <2>1 DEF Effect
  <2>4. QueueMoves(edt, edt', Queued, r, "answered")
    BY <1>c, <2>1
  <2>5. QueueMoves(dialogs, dialogs', {"dialog"}, r, "answered")
    BY <1>d, <2>1
  <2>6. said \in {"none", "ok", "error"} /\ effects[r] \in Nat /\ "answered" \in Places
    BY <1>e, <2>1 DEF Places
  <2> HIDE DEF said, r
  <2> QED BY <1>b, <2>1, <2>2, <2>3, <2>4, <2>5, <2>6, RequestKept
<1>3. CASE Swing!RunRead(j)
  <2>1. /\ edt[j] # <<>> /\ request[r] = "act" /\ Swing!Done(j) /\ kind[r[1]] = "read"
        /\ UNCHANGED <<dialogs, kind, asked, todo, outcome, late>>
    BY <1>3 DEF Swing!RunRead, Swing!Job, Swing!driverVars
  <2> DEFINE said == "ok"
  <2>2. RequestMoves(r, "answered", said, effects[r])
    BY <1>3, <1>a, <1>b, <2>1 DEF Swing!RunRead, Swing!Answers, RequestMoves
  <2>3. r[1] <= Len(kind) => Effect(kind[r[1]], "answered", said, effects[r])
    BY <1>e, <2>1 DEF Effect
  <2>4. QueueMoves(edt, edt', Queued, r, "answered")
    BY <1>c, <2>1
  <2>5. QueueMoves(dialogs, dialogs', {"dialog"}, r, "answered")
    BY <1>d, <2>1
  <2>6. said \in {"none", "ok", "error"} /\ effects[r] \in Nat /\ "answered" \in Places
    BY <1>e, <2>1 DEF Places
  <2> HIDE DEF said, r
  <2> QED BY <1>b, <2>1, <2>2, <2>3, <2>4, <2>5, <2>6, RequestKept
<1>4. CASE Swing!RunRefused(j)
  <2>1. /\ edt[j] # <<>> /\ request[r] = "act" /\ Swing!Done(j)
        /\ UNCHANGED <<dialogs, kind, asked, todo, outcome, late>>
    BY <1>4 DEF Swing!RunRefused, Swing!Job, Swing!driverVars
  <2> DEFINE said == "error"
  <2>2. RequestMoves(r, "answered", said, effects[r])
    BY <1>4, <1>a, <1>b, <2>1 DEF Swing!RunRefused, Swing!Answers, RequestMoves
  <2>3. r[1] <= Len(kind) => Effect(kind[r[1]], "answered", said, effects[r])
    BY <1>e, <2>1 DEF Effect
  <2>4. QueueMoves(edt, edt', Queued, r, "answered")
    BY <1>c, <2>1
  <2>5. QueueMoves(dialogs, dialogs', {"dialog"}, r, "answered")
    BY <1>d, <2>1
  <2>6. said \in {"none", "ok", "error"} /\ effects[r] \in Nat /\ "answered" \in Places
    BY <1>e, <2>1 DEF Places
  <2> HIDE DEF said, r
  <2> QED BY <1>b, <2>1, <2>2, <2>3, <2>4, <2>5, <2>6, RequestKept
<1>5. CASE Swing!RunAct(j)
  <2>1. /\ edt[j] # <<>> /\ request[r] = "act" /\ Swing!Done(j) /\ kind[r[1]] # "read"
        /\ UNCHANGED <<dialogs, kind, asked, todo, outcome, late>>
    BY <1>5 DEF Swing!RunAct, Swing!Job, Swing!driverVars, Swing!Effective
  <2> DEFINE said == answer[r]
  <2>2. RequestMoves(r, "acted", said, effects[r] + 1)
    BY <1>5, <1>a, <1>b, <2>1 DEF Swing!RunAct, Swing!Effective, RequestMoves
  <2>3. r[1] <= Len(kind) => Effect(kind[r[1]], "acted", said, effects[r] + 1)
    BY <1>e, <2>1 DEF Effect
  <2>4. QueueMoves(edt, edt', Queued, r, "acted")
    BY <1>c, <2>1
  <2>5. QueueMoves(dialogs, dialogs', {"dialog"}, r, "acted")
    BY <1>d, <2>1
  <2>6. said \in {"none", "ok", "error"} /\ effects[r] + 1 \in Nat /\ "acted" \in Places
    BY <1>e, <2>1 DEF Places
  <2> HIDE DEF said, r
  <2> QED BY <1>b, <2>1, <2>2, <2>3, <2>4, <2>5, <2>6, RequestKept
<1>6. CASE Swing!RunIntoDialog(j)
  <2>1. /\ edt[j] # <<>> /\ request[r] = "act" /\ Swing!Done(j) /\ kind[r[1]] # "read"
        /\ UNCHANGED <<kind, asked, todo, outcome, late>>
    BY <1>6 DEF Swing!RunIntoDialog, Swing!Job, Swing!driverVars, Swing!Effective
  <2> DEFINE said == answer[r]
  <2>2. RequestMoves(r, "dialog", said, effects[r] + 1)
    BY <1>6, <1>a, <1>b, <2>1 DEF Swing!RunIntoDialog, Swing!Effective, RequestMoves
  <2>3. r[1] <= Len(kind) => Effect(kind[r[1]], "dialog", said, effects[r] + 1)
    BY <1>e, <2>1 DEF Effect
  <2>4. QueueMoves(edt, edt', Queued, r, "dialog")
    BY <1>c, <2>1
  <2>5. QueueMoves(dialogs, dialogs', {"dialog"}, r, "dialog")
    BY <1>6, <1>b, <2>1 DEF Swing!RunIntoDialog, QueueMoves, Posted
  <2>6. said \in {"none", "ok", "error"} /\ effects[r] + 1 \in Nat /\ "dialog" \in Places
    BY <1>e, <2>1 DEF Places
  <2> HIDE DEF said, r
  <2> QED BY <1>b, <2>1, <2>2, <2>3, <2>4, <2>5, <2>6, RequestKept
<1>7. CASE Swing!CloseDialog(j)
  <2> DEFINE d == dialogs[j][Len(dialogs[j])]
  <2>1. /\ dialogs[j] # <<>> /\ request' = [request EXCEPT ![d] = "acted"]
        /\ dialogs' = [dialogs EXCEPT ![j] = SubSeq(@, 1, Len(@) - 1)]
        /\ UNCHANGED <<kind, asked, todo, outcome, late, answer, edt, effects>>
    BY <1>7 DEF Swing!CloseDialog, Swing!driverVars
  <2>2. d \in Swing!Requests /\ d[2] = j /\ request[d] = "dialog"
    BY <2>1, InnermostDialog
  <2>3. RequestMoves(d, "acted", answer[d], effects[d])
    BY <1>a, <2>1, <2>2 DEF RequestMoves
  <2>4. QueueMoves(edt, edt', Queued, d, "acted") /\ QueueMoves(dialogs, dialogs', {"dialog"}, d, "acted")
    BY <2>1, <2>2 DEF QueueMoves, Same, Closed, Queued
  <2>5. Effect(kind[d[1]], "acted", answer[d], effects[d]) /\ answer[d] \in {"none", "ok", "error"} /\ effects[d] \in Nat
    BY <2>2, Begins DEF Effect
  <2> HIDE DEF d
  <2> QED BY <2>2, <2>3, <2>4, <2>5, RequestKept DEF Places
<1>8. CASE Swing!ChangeWindows(j)
  BY <1>8 DEF Swing!ChangeWindows, Swing!driverVars, Swing!threadVars, SwingInv, SwingTyped, JobsInv, JobsOf, EffectsInv, TodoInv,
     Swing!Idle, CallsInv, Passed, Accepted, Successes
<1> QED BY <1>1, <1>2, <1>3, <1>4, <1>5, <1>6, <1>7, <1>8 DEF Swing!DispatchThread

LEMMA SwingKept ==
  ASSUME SwingInv, [Swing!Next]_Swing!vars
  PROVE  SwingInv'
<1>1. CASE UNCHANGED Swing!vars
  BY <1>1 DEF Swing!vars, SwingInv, SwingTyped, JobsInv, JobsOf, EffectsInv, TodoInv, Swing!Idle, CallsInv, Passed, Accepted, Successes
<1>2. CASE Swing!Driver
  BY <1>2, StartKept, SwingAskKept, ReceiveKept, TimeOutKept DEF Swing!Driver
<1> QED BY <1>1, <1>2, ThreadKept, SwingDispatchKept DEF Swing!Next

LEMMA CallsTold ==
  ASSUME SwingInv
  PROVE  Swing!CallsAreTrue
<1> SUFFICES ASSUME NEW c \in 1 .. Len(kind)
             PROVE  /\ outcome[c] = "ok" /\ kind[c] # "read" => Swing!ActedIn(c) # {}
                    /\ kind[c] = "act" /\ outcome[c] # "none" /\ (\A j \in Swing!Jvms : <<c, j>> \notin late) =>
                         Swing!Cardinality(Swing!ActedIn(c)) = IF outcome[c] = "ok" THEN 1 ELSE 0
  BY Zenon DEF Swing!CallsAreTrue, Swing!Current
<1>1. c \in Swing!Calls /\ c <= Len(kind) /\ \A j \in Swing!Jvms : <<c, j>> \in Swing!Requests
  BY CurrentCall, Requested, BoundsAssumption DEF Swing!Calls
<1>2. \A j \in Swing!Jvms : Effect(kind[c], request[<<c, j>>], answer[<<c, j>>], effects[<<c, j>>])
  BY <1>1, Requested DEF SwingInv, EffectsInv
<1>3. ASSUME NEW j \in Swing!Jvms, Accepted(<<c, j>>), kind[c] # "read" PROVE j \in Swing!ActedIn(c)
  BY <1>2, <1>3 DEF Effect, Accepted, Swing!ActedIn
<1>4. ASSUME NEW j \in Swing!Jvms, Passed(<<c, j>>), <<c, j>> \notin late, kind[c] = "act" PROVE j \notin Swing!ActedIn(c)
  BY <1>2, <1>4 DEF Effect, Passed, Swing!ActedIn
<1>5. outcome[c] = "ok" => \E j \in Swing!Jvms : Accepted(<<c, j>>)
  BY <1>1 DEF SwingInv, Successes
<1>6. ASSUME kind[c] = "act", outcome[c] # "none", \A j \in Swing!Jvms : <<c, j>> \notin late
      PROVE  Cardinality(Swing!ActedIn(c)) = IF outcome[c] = "ok" THEN 1 ELSE 0
  <2>1. \A j \in Swing!Jvms : ~(c = Len(kind) /\ asked = j)
    BY <1>6, CurrentCall DEF Swing!Idle
  <2>2. ASSUME NEW j \in Swing!Jvms, ~Passed(<<c, j>>)
        PROVE  outcome[c] = "ok" /\ \A i \in Swing!Jvms : i # j => Passed(<<c, i>>)
    <3>1. \A i \in Swing!Jvms : i # j => <<c, i>> # <<c, j>>
      OBVIOUS
    <3> QED BY <1>1, <2>1, <2>2, <3>1, Requested DEF SwingInv, CallsInv
  <2>3. CASE outcome[c] = "ok"
    <3>1. PICK j \in Swing!Jvms : Accepted(<<c, j>>)
      BY <1>5, <2>3
    <3>2. ~Passed(<<c, j>>)
      BY <1>6, <3>1 DEF Passed, Accepted
    <3>3. Swing!ActedIn(c) = {j}
      BY <1>3, <1>4, <1>6, <2>2, <3>1, <3>2 DEF Swing!ActedIn
    <3> QED BY <2>3, <3>3, FS_Singleton
  <2>4. CASE outcome[c] # "ok"
    <3>1. Swing!ActedIn(c) = {}
      BY <1>4, <1>6, <2>2, <2>4 DEF Swing!ActedIn
    <3> QED BY <2>4, <3>1, FS_EmptySet
  <2> QED BY <2>3, <2>4
<1> QED BY <1>1, <1>3, <1>5, <1>6, SameSwingCount

-----------------------------------------------------------------------------
(* JavaFxActions: what a call of the bridge driver did.                    *)

LEMMA SameFxCount == \A S : Fx!Cardinality(S) = Cardinality(S)
  BY DEF Fx!Cardinality, Cardinality

FxTyped ==
  /\ scene \in Fx!Scenes /\ heard \subseteq Fx!Jvms /\ call \in Fx!Kinds \cup {Fx!NoCall}
  /\ phase \in {"idle", "windows", "find", "ask", "wait", "ended"}
  /\ todo \in {<<>>, <<1>>, <<2>>, <<1, 2>>}
  /\ owners \in Seq(Fx!Jvms) /\ found \in Seq(Fx!Jvms)
  /\ effects \in Seq([jvm : Nat, meant : SUBSET (Fx!Jvms \X Nat)])
  /\ chosen \in Nat /\ jobs \in Nat /\ changes \in Nat
  /\ answer \in {"none", "ok", "unfocused", "error"} /\ outcome \in {"none", "ok", "failed"}

(* A list of the JVMs in which the m and n things found in them are.       *)
Counted(list, m, n) ==
  Len(list) = m + n /\ \A i \in 1 .. m + n : list[i] = IF i <= m THEN 1 ELSE 2

Count(S) == Fx!Cardinality(S)

(* While the driver looks in one JVM after the other that answered the     *)
(* ping, the windows stay as they are and all answer, it has found what    *)
(* there is in them.                                                       *)
Heard(h, j, S) == IF j \in h THEN S ELSE {}
Looked(h, left, list, S, T) ==
  \/ left = <<1, 2>> /\ 1 \in h /\ 2 \in h /\ Counted(list, 0, 0)
  \/ left = <<1>> /\ 1 \in h /\ 2 \notin h /\ Counted(list, 0, 0)
  \/ left = <<2>> /\ 2 \in h /\ Counted(list, Count(Heard(h, 1, S)), 0)
  \/ left = <<>> /\ Counted(list, Count(Heard(h, 1, S)), Count(Heard(h, 2, T)))
LookedIn(j) ==
  /\ owners = <<j>> /\ j \in heard /\ \A i \in heard \ {j} : Fx!Windows(i) = {}
  /\ \/ todo = <<j>> /\ found = <<>>
     \/ todo = <<>> /\ Len(found) = Count(Fx!NodesOf(j)) /\ \A i \in 1 .. Len(found) : found[i] = j
LookInv ==
  /\ phase = "windows" => call.scoped
  /\ phase = "find" => ~Fx!OnWindow
  /\ phase \in {"idle", "windows"} => found = <<>>
  /\ phase = "idle" => owners = <<>>
  /\ changes = 0 /\ ~failures =>
       /\ phase = "windows" => Looked(heard, todo, owners, Fx!Windows(1), Fx!Windows(2))
       /\ phase = "find" /\ ~call.scoped => Looked(heard, todo, found, Fx!NodesOf(1), Fx!NodesOf(2))
       /\ phase = "find" /\ call.scoped => \E j \in Fx!Jvms : LookedIn(j)

(* The only thing the locator can mean in them is in one JVM.              *)
Only(j) ==
  /\ j \in heard /\ Count(Fx!Meant(j)) = 1
  /\ \A i \in heard \ {j} : Fx!Meant(i) = {}

(* A request that is made, or repeated, or still to be done, is about it.  *)
AskInv ==
  /\ changes = 0 /\ (phase = "ask" \/ jobs > 0 \/ (phase = "wait" /\ call.op # "close")) => Only(chosen)
  /\ phase \in {"ask", "wait"} \/ jobs > 0 => chosen \in Fx!Jvms
  /\ phase \in {"idle", "windows", "find"} => jobs = 0 /\ effects = <<>>
  /\ phase = "ask" \/ (phase = "wait" /\ answer # "none") => jobs = 0
  /\ phase = "ended" /\ ~late => jobs = 0
  /\ jobs <= 1
  /\ outcome # "none" => phase = "ended"

(* What was done, as the answer says.                                      *)
DoneInv ==
  /\ \A k \in DOMAIN effects : effects[k].jvm = chosen
  /\ changes = 0 => \A k \in DOMAIN effects : Count(effects[k].meant) = 1
  /\ phase = "wait" /\ answer \in {"ok", "unfocused"} /\ call.op # "text" => effects # <<>>
  /\ outcome = "ok" /\ call.op \notin {"read", "text"} => effects # <<>>
  /\ (phase = "ask" \/ jobs > 0) /\ call.op # "raise" => effects = <<>>
  /\ phase = "wait" /\ answer = "error" /\ ~refused /\ call.op # "raise" => effects = <<>>
  /\ phase = "wait" /\ answer = "unfocused" => call.op \in {"raise", "request"}
  /\ outcome = "failed" /\ ~late /\ ~refused /\ call.op # "raise" => effects = <<>>
Gone == \A j \in heard : Fx!Windows(j) = {}
CloseInv ==
  changes = 0 /\ call.op = "close" =>
    /\ phase = "wait" /\ answer = "ok" => Gone
    /\ outcome = "ok" => Gone

FxInv == FxTyped /\ LookInv /\ AskInv /\ DoneInv /\ CloseInv

USE DEF Fx!Jvms, Fx!None

LEMMA SceneLists ==
  ASSUME FxTyped, NEW j \in Fx!Jvms
  PROVE  /\ \E n \in 0 .. MaxStages : scene[j] \in [1 .. n -> Fx!Stages] /\ Len(scene[j]) = n
         /\ Fx!Windows(j) \subseteq 1 .. MaxStages /\ Fx!NodesOf(j) \subseteq 1 .. MaxStages
         /\ IsFiniteSet(Fx!Windows(j)) /\ IsFiniteSet(Fx!NodesOf(j))
         /\ Count(Fx!Windows(j)) \in Nat /\ Count(Fx!NodesOf(j)) \in Nat
<1>1. PICK n \in 0 .. MaxStages : scene[j] \in [1 .. n -> Fx!Stages]
  BY DEF FxTyped, Fx!Scenes
<1>2. Len(scene[j]) = n /\ n \in Nat
  BY <1>1, BoundsAssumption
<1>3. Fx!Windows(j) \subseteq 1 .. MaxStages /\ Fx!NodesOf(j) \subseteq 1 .. MaxStages
  BY <1>1, <1>2, BoundsAssumption DEF Fx!Windows, Fx!NodesOf
<1>4. IsFiniteSet(1 .. MaxStages)
  BY FS_Interval, BoundsAssumption
<1>5. IsFiniteSet(Fx!Windows(j)) /\ IsFiniteSet(Fx!NodesOf(j))
  BY <1>3, <1>4, FS_Subset
<1> QED BY <1>1, <1>2, <1>3, <1>5, FS_CardinalityType, SameFxCount DEF Count

LEMMA FxStarts ==
  ASSUME Fx!Init
  PROVE  FxInv
<1> USE DEF Fx!Init
<1>1. FxTyped
  BY DEF FxTyped
<1>2. LookInv /\ AskInv /\ DoneInv /\ CloseInv
  BY DEF LookInv, AskInv, DoneInv, CloseInv, Fx!NoCall
<1> QED BY <1>1, <1>2 DEF FxInv

(* The driver's list grows by what one JVM has. *)
LEMMA ListGrows ==
  ASSUME NEW list \in Seq(Fx!Jvms), NEW j \in Fx!Jvms, NEW n \in Nat
  PROVE  LET longer == list \o Fx!Times(j, n)
         IN /\ longer \in Seq(Fx!Jvms) /\ Len(longer) = Len(list) + n
            /\ \A i \in 1 .. Len(list) + n : longer[i] = IF i <= Len(list) THEN list[i] ELSE j
<1>1. Fx!Times(j, n) \in Seq(Fx!Jvms) /\ Len(Fx!Times(j, n)) = n /\ \A i \in 1 .. n : Fx!Times(j, n)[i] = j
  BY DEF Fx!Times
<1> DEFINE t == Fx!Times(j, n)
<1> HIDE DEF t
<1>2. t \in Seq(Fx!Jvms) /\ Len(t) = n /\ \A i \in 1 .. n : t[i] = j
  BY <1>1 DEF t
<1>3. list \o t \in Seq(Fx!Jvms) /\ Len(list \o t) = Len(list) + n
  BY <1>2
<1>4. \A i \in 1 .. Len(list) + n : (list \o t)[i] = IF i <= Len(list) THEN list[i] ELSE t[i - Len(list)]
  BY <1>2
<1>5. \A i \in 1 .. Len(list) + n : ~(i <= Len(list)) => i - Len(list) \in 1 .. n
  OBVIOUS
<1> QED BY <1>2, <1>3, <1>4, <1>5 DEF t

LEMMA CountedGrows ==
  ASSUME NEW list \in Seq(Fx!Jvms), NEW m \in Nat, NEW n \in Nat
  PROVE  /\ Counted(list, 0, 0) => Counted(list \o Fx!Times(1, m), m, 0)
         /\ Counted(list, m, 0) => Counted(list \o Fx!Times(2, n), m, n)
<1>1. ASSUME Counted(list, 0, 0) PROVE Counted(list \o Fx!Times(1, m), m, 0)
  <2> DEFINE t == list \o Fx!Times(1, m)
  <2>1. Len(t) = Len(list) + m /\ \A i \in 1 .. Len(list) + m : t[i] = IF i <= Len(list) THEN list[i] ELSE 1
    BY ListGrows
  <2>2. Len(list) = 0
    BY <1>1 DEF Counted
  <2> HIDE DEF t
  <2>3. Counted(t, m, 0)
    BY <2>1, <2>2 DEF Counted
  <2> QED BY <2>3 DEF t
<1>2. ASSUME Counted(list, m, 0) PROVE Counted(list \o Fx!Times(2, n), m, n)
  <2> DEFINE t == list \o Fx!Times(2, n)
  <2>1. Len(t) = Len(list) + n /\ \A i \in 1 .. Len(list) + n : t[i] = IF i <= Len(list) THEN list[i] ELSE 2
    BY ListGrows
  <2>2. Len(list) = m /\ \A i \in 1 .. m : list[i] = 1
    BY <1>2 DEF Counted
  <2> HIDE DEF t
  <2>3. Counted(t, m, n)
    BY <2>1, <2>2 DEF Counted
  <2> QED BY <2>3 DEF t
<1> QED BY <1>1, <1>2

(* If one thing was counted, it is in the JVM that the list names. *)
LEMMA OneCounted ==
  ASSUME NEW list \in Seq(Fx!Jvms), NEW S, NEW T, IsFiniteSet(S), IsFiniteSet(T),
         Counted(list, Count(S), Count(T)), Len(list) = 1
  PROVE  \/ list[1] = 1 /\ Count(S) = 1 /\ T = {}
         \/ list[1] = 2 /\ Count(T) = 1 /\ S = {}
<1>1. Count(S) \in Nat /\ Count(T) \in Nat
  BY FS_CardinalityType, SameFxCount DEF Count
<1>2. (Count(S) = 0 => S = {}) /\ (Count(T) = 0 => T = {})
  BY FS_EmptySet, SameFxCount DEF Count
<1>3. \/ Count(S) = 1 /\ Count(T) = 0
      \/ Count(S) = 0 /\ Count(T) = 1
  <2>1. Count(S) + Count(T) = 1
    BY DEF Counted
  <2> QED BY <1>1, <2>1
<1> QED BY <1>1, <1>2, <1>3 DEF Counted

(* If one thing was counted in the JVMs that answered, it is the only one. *)
LEMMA OneHeard ==
  ASSUME NEW list \in Seq(Fx!Jvms), NEW h \in SUBSET Fx!Jvms, NEW S, NEW T, IsFiniteSet(S), IsFiniteSet(T),
         Looked(h, <<>>, list, S, T), Len(list) = 1
  PROVE  \/ list[1] = 1 /\ 1 \in h /\ Count(S) = 1 /\ (2 \in h => T = {})
         \/ list[1] = 2 /\ 2 \in h /\ Count(T) = 1 /\ (1 \in h => S = {})
<1>1. IsFiniteSet(Heard(h, 1, S)) /\ IsFiniteSet(Heard(h, 2, T)) /\ Count({}) = 0
  BY FS_EmptySet, SameFxCount DEF Heard, Count
<1>2. Counted(list, Count(Heard(h, 1, S)), Count(Heard(h, 2, T)))
  <2>1. <<>> # <<1, 2>> /\ <<>> # <<1>> /\ <<>> # <<2>>
    OBVIOUS
  <2> QED BY <2>1 DEF Looked
<1>3. \/ list[1] = 1 /\ Count(Heard(h, 1, S)) = 1 /\ Heard(h, 2, T) = {}
      \/ list[1] = 2 /\ Count(Heard(h, 2, T)) = 1 /\ Heard(h, 1, S) = {}
  BY <1>1, <1>2, OneCounted
<1> QED BY <1>1, <1>3 DEF Heard

(* What one JVM at a time adds up to. *)
LEMMA LookedGrows ==
  ASSUME NEW h, NEW left, NEW list \in Seq(Fx!Jvms), NEW S, NEW T, IsFiniteSet(S), IsFiniteSet(T), Looked(h, left, list, S, T),
         left # <<>>
  PROVE  /\ Head(left) \in Fx!Jvms /\ Tail(left) \in {<<>>, <<2>>}
         /\ Looked(h, Tail(left), list \o Fx!Times(Head(left), Count(IF Head(left) = 1 THEN S ELSE T)), S, T)
<1>1. Count(S) \in Nat /\ Count(T) \in Nat /\ Count({}) = 0
  BY FS_CardinalityType, FS_EmptySet, SameFxCount DEF Count
<1>2. CASE left = <<1, 2>> /\ 1 \in h /\ 2 \in h /\ Counted(list, 0, 0)
  <2>1. Head(left) = 1 /\ Tail(left) = <<2>>
    BY <1>2
  <2>2. Counted(list \o Fx!Times(1, Count(S)), Count(S), 0)
    BY <1>1, <1>2, CountedGrows
  <2> QED BY <1>2, <2>1, <2>2 DEF Looked, Heard
<1>3. CASE left = <<1>> /\ 1 \in h /\ 2 \notin h /\ Counted(list, 0, 0)
  <2>1. Head(left) = 1 /\ Tail(left) = <<>>
    BY <1>3
  <2>2. Counted(list \o Fx!Times(1, Count(S)), Count(S), Count({}))
    BY <1>1, <1>3, CountedGrows
  <2> QED BY <1>3, <2>1, <2>2 DEF Looked, Heard
<1>4. CASE left = <<2>> /\ 2 \in h /\ Counted(list, Count(Heard(h, 1, S)), 0)
  <2>1. Head(left) = 2 /\ Tail(left) = <<>>
    BY <1>4
  <2>2. Count(Heard(h, 1, S)) \in Nat
    BY <1>1 DEF Heard
  <2>3. Counted(list \o Fx!Times(2, Count(T)), Count(Heard(h, 1, S)), Count(T))
    BY <1>1, <1>4, <2>2, CountedGrows
  <2>4. Heard(h, 2, T) = T
    BY <1>4 DEF Heard
  <2> QED BY <2>1, <2>3, <2>4 DEF Looked
<1> QED BY <1>2, <1>3, <1>4 DEF Looked

-----------------------------------------------------------------------------
LEMMA FxStartKept ==
  ASSUME FxInv, NEW k \in Fx!Kinds, Fx!StartCall(k)
  PROVE  FxInv'
<1> USE DEF FxInv, Fx!StartCall, Fx!jvmVars
<1>1. \E list \in Fx!Discovered : todo' = list /\ heard' = {list[i] : i \in DOMAIN list}
  BY DEF Fx!StartCall
<1>2. /\ todo' \in {<<>>, <<1>>, <<2>>, <<1, 2>>} /\ heard' \subseteq Fx!Jvms
      /\ todo' = <<1, 2>> => heard' = {1, 2}
      /\ todo' = <<1>> => heard' = {1}
      /\ todo' = <<2>> => heard' = {2}
      /\ todo' = <<>> => heard' = {}
  <2>1. {<<1, 2>>[i] : i \in DOMAIN <<1, 2>>} = {1, 2} /\ <<1, 2>> # <<1>> /\ <<1, 2>> # <<2>> /\ <<1, 2>> # <<>>
    OBVIOUS
  <2>2. {<<1>>[i] : i \in DOMAIN <<1>>} = {1} /\ {<<2>>[i] : i \in DOMAIN <<2>>} = {2} /\ {<<>>[i] : i \in DOMAIN <<>>} = {}
    OBVIOUS
  <2>3. <<1>> # <<2>> /\ <<1>> # <<>> /\ <<2>> # <<>>
    OBVIOUS
  <2>4. CASE todo' = <<1, 2>> /\ heard' = {<<1, 2>>[i] : i \in DOMAIN <<1, 2>>}
    BY <2>1, <2>4
  <2>5. CASE todo' = <<1>> /\ heard' = {<<1>>[i] : i \in DOMAIN <<1>>}
    BY <2>1, <2>2, <2>3, <2>5
  <2>6. CASE todo' = <<2>> /\ heard' = {<<2>>[i] : i \in DOMAIN <<2>>}
    BY <2>1, <2>2, <2>3, <2>6
  <2>7. CASE todo' = <<>> /\ heard' = {<<>>[i] : i \in DOMAIN <<>>}
    BY <2>1, <2>2, <2>3, <2>7
  <2> QED BY <1>1, <2>4, <2>5, <2>6, <2>7, Zenon DEF Fx!Discovered
<1>3. FxTyped'
  BY <1>2 DEF FxTyped
<1>4. LookInv'
  <2>1. phase' = "windows" => call'.scoped
    OBVIOUS
  <2>2. phase' = "find" => ~Fx!OnWindow'
    BY DEF Fx!OnWindow, Fx!Kinds
  <2>3. owners' = <<>> /\ found' = <<>>
    BY DEF LookInv
  <2>4. ASSUME NEW S, NEW T PROVE Looked(heard', todo', <<>>, S, T)
    <3>1. Counted(<<>>, 0, 0)
      BY DEF Counted
    <3>2. Count({}) = 0
      BY FS_EmptySet, SameFxCount DEF Count
    <3>3. /\ todo' = <<1, 2>> => 1 \in heard' /\ 2 \in heard'
          /\ todo' = <<1>> => 1 \in heard' /\ 2 \notin heard'
          /\ todo' = <<2>> => 1 \notin heard' /\ 2 \in heard'
          /\ todo' = <<>> => 1 \notin heard' /\ 2 \notin heard'
      BY <1>2
    <3>4. todo' \in {<<>>, <<1>>, <<2>>, <<1, 2>>}
      BY <1>2
    <3> QED BY <3>1, <3>2, <3>3, <3>4 DEF Looked, Heard
  <2> QED BY <2>1, <2>2, <2>3, <2>4 DEF LookInv
<1>5. AskInv' /\ DoneInv' /\ CloseInv'
  BY DEF AskInv, DoneInv, CloseInv
<1> QED BY <1>3, <1>4, <1>5

(* Nothing is asked of a JVM while the driver looks for one. *)
LEMMA LookingKept ==
  ASSUME FxInv, phase \in {"windows", "find"}, phase' \in {"windows", "find"},
         UNCHANGED <<call, heard, chosen, attempts, outcome, late, Fx!jvmVars>>
  PROVE  AskInv' /\ DoneInv' /\ CloseInv'
<1>1. UNCHANGED <<jobs, effects, answer, changes, outcome, late>> /\ jobs = 0 /\ effects = <<>> /\ outcome = "none"
  BY DEF FxInv, AskInv, Fx!jvmVars
<1> QED BY <1>1 DEF FxInv, AskInv, DoneInv, CloseInv

LEMMA LookAtKept ==
  ASSUME FxInv, Fx!LookAt
  PROVE  FxInv'
<1> USE DEF FxInv
<1> DEFINE j == Head(todo)
<1>1. /\ phase \in {"windows", "find"} /\ todo # <<>> /\ todo' = Tail(todo) /\ j \in Fx!Jvms
      /\ todo' \in {<<>>, <<2>>} /\ UNCHANGED <<call, heard, phase, chosen, attempts, outcome, late, scene, answer, changes, effects, jobs>>
      /\ todo = <<>> \/ todo = <<1>> \/ todo = <<2>> \/ todo = <<1, 2>>
  <2>1. \A l \in {<<1>>, <<2>>, <<1, 2>>} : Head(l) \in Fx!Jvms /\ Tail(l) \in {<<>>, <<2>>}
    <3>1. Head(<<1>>) = 1 /\ Tail(<<1>>) = <<>> /\ Head(<<2>>) = 2 /\ Tail(<<2>>) = <<>>
      OBVIOUS
    <3>2. Head(<<1, 2>>) = 1 /\ Tail(<<1, 2>>) = <<2>>
      OBVIOUS
    <3> QED BY <3>1, <3>2
  <2>2. todo # <<>> /\ todo \in {<<>>, <<1>>, <<2>>, <<1, 2>>}
    BY DEF Fx!LookAt, FxTyped
  <2>3. todo \in {<<1>>, <<2>>, <<1, 2>>} /\ j \in Fx!Jvms /\ Tail(todo) \in {<<>>, <<2>>}
    BY <2>1, <2>2, Zenon
  <2>4. /\ phase \in {"windows", "find"} /\ todo' = Tail(todo)
        /\ UNCHANGED <<call, heard, phase, chosen, attempts, outcome, late, scene, answer, changes, effects, jobs>>
    BY DEF Fx!LookAt, Fx!jvmVars
  <2> HIDE DEF FxInv, j
  <2> QED BY <2>2, <2>3, <2>4
<1>2. \A i \in Fx!Jvms : /\ IsFiniteSet(Fx!Windows(i)) /\ IsFiniteSet(Fx!NodesOf(i))
                         /\ Count(Fx!Windows(i)) \in Nat /\ Count(Fx!NodesOf(i)) \in Nat
  BY SceneLists
<1>3. \A i : Fx!Windows(i)' = Fx!Windows(i) /\ Fx!NodesOf(i)' = Fx!NodesOf(i) /\ Fx!OnWindow' = Fx!OnWindow
  BY <1>1 DEF Fx!Windows, Fx!NodesOf, Fx!OnWindow
<1>4. \A n \in Nat : /\ owners \o Fx!Times(j, n) \in Seq(Fx!Jvms) /\ found \o Fx!Times(j, n) \in Seq(Fx!Jvms)
  BY <1>1, ListGrows DEF FxTyped
<1>5. CASE failures' = TRUE /\ UNCHANGED <<owners, found>>
  <2>1. FxTyped'
    BY <1>1, <1>5 DEF FxTyped
  <2>2. LookInv'
    BY <1>1, <1>3, <1>5 DEF LookInv
  <2> QED BY <1>1, <2>1, <2>2, LookingKept DEF Fx!LookAt
<1>6. CASE phase = "windows" /\ owners' = owners \o Fx!Times(j, Count(Fx!Windows(j))) /\ UNCHANGED <<found, failures>>
  <2>1. FxTyped'
    BY <1>1, <1>2, <1>4, <1>6 DEF FxTyped
  <2>2. ASSUME changes = 0, ~failures PROVE Looked(heard', todo', owners', Fx!Windows(1), Fx!Windows(2))
    <3>1. Looked(heard, todo, owners, Fx!Windows(1), Fx!Windows(2)) /\ owners \in Seq(Fx!Jvms)
      BY <1>6, <2>2 DEF LookInv, FxTyped
    <3>2. Fx!Windows(j) = IF j = 1 THEN Fx!Windows(1) ELSE Fx!Windows(2)
      BY <1>1
    <3> QED BY <1>1, <1>2, <1>6, <3>1, <3>2, LookedGrows
  <2>3. LookInv'
    BY <1>1, <1>3, <1>6, <2>2 DEF LookInv
  <2> QED BY <1>1, <2>1, <2>3, LookingKept DEF Fx!LookAt
<1>7. CASE phase = "find" /\ found' = found \o Fx!Times(j, Count(Fx!NodesOf(j))) /\ UNCHANGED <<owners, failures>>
  <2>1. FxTyped'
    BY <1>1, <1>2, <1>4, <1>7 DEF FxTyped
  <2>2. ASSUME changes = 0, ~failures, ~call.scoped PROVE Looked(heard', todo', found', Fx!NodesOf(1), Fx!NodesOf(2))
    <3>1. Looked(heard, todo, found, Fx!NodesOf(1), Fx!NodesOf(2)) /\ found \in Seq(Fx!Jvms)
      BY <1>7, <2>2 DEF LookInv, FxTyped
    <3>2. Fx!NodesOf(j) = IF j = 1 THEN Fx!NodesOf(1) ELSE Fx!NodesOf(2)
      BY <1>1
    <3> QED BY <1>1, <1>2, <1>7, <3>1, <3>2, LookedGrows
  <2>3. ASSUME changes = 0, ~failures, call.scoped PROVE \E i \in Fx!Jvms : LookedIn(i)'
    <3>1. PICK i \in Fx!Jvms : LookedIn(i)
      BY <1>7, <2>3 DEF LookInv
    <3>2. todo = <<i>> /\ found = <<>> /\ owners = <<i>> /\ i \in heard /\ \A h \in heard \ {i} : Fx!Windows(h) = {}
      BY <1>1, <3>1 DEF LookedIn
    <3>3. j = i /\ todo' = <<>>
      BY <1>1, <3>2
    <3>4. Len(found') = Count(Fx!NodesOf(i)) /\ \A h \in 1 .. Len(found') : found'[h] = i
      <4> DEFINE n == Count(Fx!NodesOf(i))
      <4>1. n \in Nat /\ found' = <<>> \o Fx!Times(i, n)
        BY <1>2, <1>7, <3>2, <3>3
      <4> HIDE DEF n
      <4>2. Len(<<>> \o Fx!Times(i, n)) = n /\ \A h \in 1 .. n : (<<>> \o Fx!Times(i, n))[h] = i
        <5>1. <<>> \in Seq(Fx!Jvms) /\ Len(<<>>) = 0
          OBVIOUS
        <5>2. \A h \in 1 .. n : h \in 1 .. 0 + n /\ ~(h <= 0)
          BY <4>1
        <5>3. 0 + n = n
          BY <4>1
        <5>4. /\ Len(<<>> \o Fx!Times(i, n)) = Len(<<>>) + n
              /\ \A h \in 1 .. Len(<<>>) + n :
                   (<<>> \o Fx!Times(i, n))[h] = IF h <= Len(<<>>) THEN <<>>[h] ELSE i
          BY <4>1, <5>1, ListGrows, Zenon
        <5> QED BY <5>1, <5>2, <5>3, <5>4
      <4>3. Len(found') = n /\ \A h \in 1 .. n : found'[h] = i
        BY <4>1, <4>2
      <4> QED BY <4>3 DEF n
    <3>5. Count(Fx!NodesOf(i))' = Count(Fx!NodesOf(i))
      BY <1>3 DEF Count
    <3> QED BY <1>1, <1>3, <1>7, <3>2, <3>3, <3>4, <3>5 DEF LookedIn
  <2>4. LookInv'
    BY <1>1, <1>3, <1>7, <2>2, <2>3 DEF LookInv
  <2> QED BY <1>1, <2>1, <2>4, LookingKept DEF Fx!LookAt
<1> QED BY <1>5, <1>6, <1>7 DEF Fx!LookAt, Count

LEMMA CallEnded ==
  ASSUME FxInv, phase \in {"windows", "find"}, phase' = "ended", outcome' = "failed" \/ (outcome' = "ok" /\ call.op = "read"),
         UNCHANGED <<call, heard, owners, found, failures, attempts, late, Fx!jvmVars>>, chosen' \in Nat,
         todo' = todo
  PROVE  FxInv'
<1> USE DEF FxInv
<1>1. UNCHANGED <<scene, answer, jobs, effects, changes, refused>>
  BY DEF Fx!jvmVars
<1>2. jobs = 0 /\ effects = <<>>
  BY DEF AskInv
<1>3. FxTyped'
  BY <1>1 DEF FxTyped
<1>4. LookInv' /\ AskInv' /\ DoneInv' /\ CloseInv'
  BY <1>1, <1>2 DEF LookInv, AskInv, DoneInv, CloseInv
<1> QED BY <1>3, <1>4

LEMMA CallChose ==
  ASSUME FxInv, phase \in {"windows", "find"}, phase' = "ask", changes = 0 => Only(chosen'), chosen' \in Fx!Jvms,
         UNCHANGED <<call, heard, todo, owners, found, failures, attempts, outcome, late, Fx!jvmVars>>
  PROVE  FxInv'
<1> USE DEF FxInv
<1>1. UNCHANGED <<scene, answer, jobs, effects, changes, refused>>
  BY DEF Fx!jvmVars
<1>2. jobs = 0 /\ effects = <<>> /\ outcome = "none"
  BY DEF AskInv
<1>3. FxTyped'
  BY <1>1 DEF FxTyped
<1>4. changes' = 0 => Only(chosen)'
  BY <1>1 DEF Only, Fx!Meant, Fx!OnWindow, Fx!Windows, Fx!NodesOf
<1>5. LookInv' /\ AskInv' /\ DoneInv' /\ CloseInv'
  BY <1>1, <1>2, <1>4 DEF LookInv, AskInv, DoneInv, CloseInv
<1> QED BY <1>3, <1>5

LEMMA SingleEntry ==
  ASSUME NEW list \in Seq(Fx!Jvms), Len(list) = 1
  PROVE  list[1] \in Fx!Jvms /\ list = <<list[1]>>
OBVIOUS

LEMMA OwnerKept ==
  ASSUME FxInv, Fx!OwnerFound
  PROVE  FxInv'
<1> USE DEF FxInv
<1>1. /\ phase = "windows" /\ todo = <<>> /\ call.scoped /\ owners \in Seq(Fx!Jvms)
      /\ UNCHANGED <<call, heard, owners, found, failures, attempts, late, Fx!jvmVars>>
  BY DEF Fx!OwnerFound, LookInv, FxTyped
<1>2. ASSUME Fx!Chooses(owners)
      PROVE  /\ owners[1] \in Fx!Jvms /\ owners = <<owners[1]>>
             /\ changes = 0 => /\ owners[1] \in heard /\ Count(Fx!Windows(owners[1])) = 1
                               /\ \A i \in heard \ {owners[1]} : Fx!Windows(i) = {}
  <2>1. Len(owners) = 1 /\ ~failures
    BY <1>2 DEF Fx!Chooses
  <2>2. owners[1] \in Fx!Jvms /\ owners = <<owners[1]>>
    BY <1>1, <2>1, SingleEntry, Zenon
  <2>3. ASSUME changes = 0
        PROVE  \/ owners[1] = 1 /\ 1 \in heard /\ Count(Fx!Windows(1)) = 1 /\ (2 \in heard => Fx!Windows(2) = {})
               \/ owners[1] = 2 /\ 2 \in heard /\ Count(Fx!Windows(2)) = 1 /\ (1 \in heard => Fx!Windows(1) = {})
    <3>1. Looked(heard, <<>>, owners, Fx!Windows(1), Fx!Windows(2))
      <4>1. Looked(heard, todo, owners, Fx!Windows(1), Fx!Windows(2))
        BY <1>1, <2>1, <2>3, Zenon DEF LookInv
      <4> QED BY <1>1, <4>1, Zenon
    <3>2. IsFiniteSet(Fx!Windows(1)) /\ IsFiniteSet(Fx!Windows(2)) /\ heard \in SUBSET Fx!Jvms
      BY SceneLists DEF FxTyped
    <3> QED BY <1>1, <2>1, <3>1, <3>2, OneHeard
  <2>4. heard \subseteq {1, 2}
    BY DEF FxTyped
  <2> QED BY <2>2, <2>3, <2>4
<1>3. CASE Fx!Chooses(owners) /\ Fx!OnWindow /\ chosen' = owners[1] /\ phase' = "ask" /\ UNCHANGED <<todo, outcome>>
  <2>1. changes = 0 => Only(owners[1])
    BY <1>2, <1>3 DEF Only, Fx!Meant
  <2> QED BY <1>1, <1>2, <1>3, <2>1, CallChose
<1>4. CASE Fx!Chooses(owners) /\ ~Fx!OnWindow /\ todo' = owners /\ phase' = "find" /\ UNCHANGED <<chosen, outcome>>
  <2>1. UNCHANGED <<scene, answer, jobs, effects, changes, refused>>
    BY <1>1 DEF Fx!jvmVars
  <2>2. FxTyped'
    BY <1>1, <1>2, <1>4, <2>1 DEF FxTyped
  <2>3. changes = 0 => LookedIn(owners[1])'
    BY <1>1, <1>2, <1>4, <2>1 DEF LookedIn, LookInv, Fx!Windows
  <2>4. LookInv'
    BY <1>1, <1>2, <1>4, <2>1, <2>3 DEF LookInv, Fx!OnWindow
  <2>5. AskInv' /\ DoneInv' /\ CloseInv'
    BY <1>1, <1>4, <2>1 DEF AskInv, DoneInv, CloseInv
  <2> QED BY <2>2, <2>4, <2>5
<1>5. CASE ~Fx!Chooses(owners) /\ phase' = "ended" /\ outcome' = "failed" /\ UNCHANGED <<todo, chosen>>
  BY <1>1, <1>5, CallEnded DEF FxTyped
<1> QED BY <1>3, <1>4, <1>5 DEF Fx!OwnerFound, Fx!End

LEMMA ComponentKept ==
  ASSUME FxInv, Fx!ComponentFound
  PROVE  FxInv'
<1> USE DEF FxInv
<1>1. /\ phase = "find" /\ todo = <<>> /\ ~Fx!OnWindow /\ found \in Seq(Fx!Jvms)
      /\ UNCHANGED <<call, heard, todo, owners, found, failures, attempts, late, Fx!jvmVars>>
  BY DEF Fx!ComponentFound, LookInv, FxTyped
<1>2. ASSUME Fx!Chooses(found)
      PROVE  found[1] \in Fx!Jvms /\ (changes = 0 => Only(found[1]))
  <2>1. Len(found) = 1 /\ ~failures
    BY <1>2 DEF Fx!Chooses
  <2>2. found[1] \in Fx!Jvms
    BY <1>1, <2>1, SingleEntry, Zenon
  <2>3. ASSUME changes = 0, ~call.scoped
        PROVE  \/ found[1] = 1 /\ 1 \in heard /\ Count(Fx!NodesOf(1)) = 1 /\ (2 \in heard => Fx!NodesOf(2) = {})
               \/ found[1] = 2 /\ 2 \in heard /\ Count(Fx!NodesOf(2)) = 1 /\ (1 \in heard => Fx!NodesOf(1) = {})
    <3>1. Looked(heard, <<>>, found, Fx!NodesOf(1), Fx!NodesOf(2))
      <4>1. Looked(heard, todo, found, Fx!NodesOf(1), Fx!NodesOf(2))
        BY <1>1, <2>1, <2>3, Zenon DEF LookInv
      <4> QED BY <1>1, <4>1, Zenon
    <3>2. IsFiniteSet(Fx!NodesOf(1)) /\ IsFiniteSet(Fx!NodesOf(2)) /\ heard \in SUBSET Fx!Jvms
      BY SceneLists DEF FxTyped
    <3> QED BY <1>1, <2>1, <3>1, <3>2, OneHeard
  <2>4. ASSUME changes = 0, call.scoped
        PROVE  /\ found[1] \in heard /\ Count(Fx!NodesOf(found[1])) = 1
               /\ \A i \in heard \ {found[1]} : Fx!NodesOf(i) = {}
    <3>1. PICK j \in Fx!Jvms : LookedIn(j)
      BY <1>1, <2>1, <2>4 DEF LookInv
    <3>2. /\ Len(found) = Count(Fx!NodesOf(j)) /\ \A i \in 1 .. Len(found) : found[i] = j
          /\ j \in heard /\ \A i \in heard \ {j} : Fx!Windows(i) = {}
      BY <1>1, <3>1 DEF LookedIn
    <3>3. \A i : Fx!NodesOf(i) \subseteq Fx!Windows(i)
      BY <2>4 DEF Fx!NodesOf, Fx!Windows, Fx!Titled
    <3> QED BY <2>1, <3>2, <3>3
  <2>5. ASSUME changes = 0 PROVE Only(found[1])
    <3>1. heard \subseteq {1, 2}
      BY DEF FxTyped
    <3>2. Count(Fx!NodesOf(found[1])) = 1 /\ found[1] \in heard /\ \A i \in heard \ {found[1]} : Fx!NodesOf(i) = {}
      BY <2>3, <2>4, <2>5, <3>1
    <3>3. \A i : Fx!Meant(i) = Fx!NodesOf(i)
      BY <1>1 DEF Fx!Meant
    <3> QED BY <3>2, <3>3 DEF Only
  <2> QED BY <2>2, <2>5
<1>3. CASE Fx!Chooses(found) /\ call.op # "read" /\ chosen' = found[1] /\ phase' = "ask" /\ UNCHANGED outcome
  BY <1>1, <1>2, <1>3, CallChose
<1>4. CASE Fx!Chooses(found) /\ call.op = "read" /\ Fx!End("ok") /\ chosen' = found[1]
  BY <1>1, <1>2, <1>4, CallEnded DEF Fx!End
<1>5. CASE ~Fx!Chooses(found) /\ Fx!End("failed") /\ UNCHANGED chosen
  BY <1>1, <1>5, CallEnded DEF Fx!End, FxTyped
<1> QED BY <1>3, <1>4, <1>5 DEF Fx!ComponentFound

-----------------------------------------------------------------------------
LEMMA FxAskKept ==
  ASSUME FxInv, Fx!Ask
  PROVE  FxInv'
<1> USE DEF FxInv, Fx!Ask
<1>1. FxTyped'
  BY DEF FxTyped
<1>2. changes' = 0 => Only(chosen)'
  BY DEF AskInv, Only, Fx!Meant, Fx!OnWindow, Fx!Windows, Fx!NodesOf
<1>3. jobs = 0 /\ jobs' = 1
  BY DEF AskInv
<1>4. LookInv' /\ AskInv' /\ DoneInv' /\ CloseInv'
  BY <1>2, <1>3 DEF LookInv, AskInv, DoneInv, CloseInv
<1> QED BY <1>1, <1>4

(* The driver has heard enough, or nothing. *)
LEMMA HearingKept ==
  ASSUME FxInv, Fx!TimeOut \/ Fx!Receive
  PROVE  FxInv'
<1> USE DEF FxInv
<1>1. /\ UNCHANGED <<scene, answer, jobs, effects, changes, refused, call, heard, todo, owners, found, failures, chosen, attempts>>
      /\ phase = "wait" /\ phase' \in {"ended", "ask"} /\ outcome' \in {outcome, "ok", "failed"} /\ outcome = "none"
  BY DEF Fx!TimeOut, Fx!Receive, Fx!jvmVars, Fx!End, AskInv
<1>2. FxTyped' /\ LookInv'
  BY <1>1 DEF FxTyped, LookInv
<1>3. Only(chosen)' <=> Only(chosen)
  BY <1>1 DEF Only, Fx!Meant, Fx!OnWindow, Fx!Windows, Fx!NodesOf
<1>4. Gone' <=> Gone
  BY <1>1 DEF Gone, Fx!Windows
<1>5. CASE Fx!TimeOut
  BY <1>1, <1>3, <1>4, <1>5, <1>2 DEF Fx!TimeOut, Fx!End, AskInv, DoneInv, CloseInv
<1>6. CASE Fx!Receive
  <2>1. /\ late' = late /\ jobs = 0 /\ answer # "none"
        /\ \/ phase' = "ended" /\ outcome' = "ok" /\ (answer = "ok" \/ (answer = "unfocused" /\ call.op = "request"))
           \/ phase' = "ended" /\ outcome' = "failed" /\ (answer = "error" \/ call.op = "raise")
           \/ phase' = "ask" /\ outcome' = "none" /\ call.op = "raise"
    BY <1>1, <1>6 DEF Fx!Receive, Fx!End, AskInv
  <2>2. AskInv'
    BY <1>1, <1>3, <2>1 DEF AskInv
  <2>3. DoneInv'
    BY <1>1, <2>1 DEF DoneInv
  <2>4. CloseInv'
    BY <1>1, <1>4, <2>1 DEF CloseInv
  <2> QED BY <1>2, <2>2, <2>3, <2>4
<1> QED BY <1>5, <1>6

(* What is recorded as meant when the JVM acts. *)
LEMMA OneMeant ==
  ASSUME FxTyped, NEW j, Only(j)
  PROVE  Count(Fx!AllMeant) = 1
<1>1. PICK i \in 1 .. MaxStages : Fx!Meant(j) = {i}
  <2>1. Fx!Meant(j) \subseteq 1 .. MaxStages /\ IsFiniteSet(Fx!Meant(j))
    BY SceneLists DEF Only, Fx!Meant, FxTyped
  <2> QED BY <2>1, FS_Singleton, SameFxCount DEF Only, Count
<1>2. Fx!AllMeant = {<<j, i>>}
  <2>1. heard \subseteq Fx!Jvms /\ j \in heard /\ \A k \in heard : k # j => Fx!Meant(k) = {}
    BY DEF Only, FxTyped
  <2>2. ASSUME NEW x \in Fx!AllMeant PROVE x = <<j, i>>
    <3>1. PICK k \in heard : x \in {k} \X Fx!Meant(k)
      BY <2>2 DEF Fx!AllMeant
    <3>2. k = j
      BY <2>1, <3>1
    <3> QED BY <1>1, <3>1, <3>2
  <2>3. <<j, i>> \in Fx!AllMeant
    <3>1. <<j, i>> \in {j} \X Fx!Meant(j)
      BY <1>1
    <3>2. j \in Fx!Jvms
      BY <2>1
    <3> QED BY <2>1, <3>1, <3>2 DEF Fx!AllMeant
  <2> QED BY <2>2, <2>3
<1> QED BY <1>2, FS_Singleton, SameFxCount DEF Count

LEMMA ActsTyped ==
  ASSUME FxInv, Fx!Acts
  PROVE  /\ effects' \in Seq([jvm : Nat, meant : SUBSET (Fx!Jvms \X Nat)]) /\ effects' # <<>>
         /\ \A k \in DOMAIN effects' : effects'[k].jvm = chosen
         /\ changes = 0 /\ Only(chosen) => \A k \in DOMAIN effects' : Count(effects'[k].meant) = 1
<1> DEFINE e == [jvm |-> chosen, meant |-> Fx!AllMeant]
<1>1. /\ effects \in Seq([jvm : Nat, meant : SUBSET (Fx!Jvms \X Nat)])
      /\ effects' = Append(effects, e) /\ e \in [jvm : Nat, meant : SUBSET (Fx!Jvms \X Nat)]
      /\ e.jvm = chosen /\ e.meant = Fx!AllMeant
  BY BoundsAssumption DEF FxInv, FxTyped, Fx!Acts, Fx!AllMeant
<1>2. changes = 0 /\ Only(chosen) => Count(e.meant) = 1
  BY <1>1, OneMeant DEF FxInv
<1> HIDE DEF e
<1>3. \A k \in DOMAIN effects' : effects'[k] = e \/ (k \in DOMAIN effects /\ effects'[k] = effects[k])
  BY <1>1
<1>4. effects' \in Seq([jvm : Nat, meant : SUBSET (Fx!Jvms \X Nat)]) /\ effects' # <<>>
  BY <1>1
<1>5. \A k \in DOMAIN effects' : effects'[k].jvm = chosen
  BY <1>1, <1>3 DEF FxInv, DoneInv
<1>6. ASSUME changes = 0, Only(chosen) PROVE \A k \in DOMAIN effects' : Count(effects'[k].meant) = 1
  BY <1>2, <1>3, <1>6 DEF FxInv, DoneInv
<1> QED BY <1>4, <1>5, <1>6

(* A job that only answers, and one that acts.                             *)
OnlyAnswers ==
  UNCHANGED <<effects, refused>> /\ (Fx!Answers("error") \/ (Fx!Answers("ok") /\ call.op = "text"))
Works ==
  /\ Fx!Acts /\ refused' \in {refused, TRUE}
  /\ \/ UNCHANGED answer
     \/ Fx!Answers("ok")
     \/ Fx!Answers("unfocused") /\ call.op \in {"raise", "request"}
     \/ Fx!Answers("error") /\ refused' = TRUE

LEMMA JobRuns ==
  ASSUME FxInv, Fx!Job
  PROVE  /\ jobs = 1 /\ jobs' = 0 /\ phase \in {"wait", "ended"} /\ (phase = "wait" => answer = "none" /\ outcome = "none")
         /\ phase = "ended" => late
         /\ call.op # "raise" => effects = <<>>
         /\ chosen \in Fx!Jvms /\ (changes = 0 => Only(chosen))
BY DEF FxInv, Fx!Job, AskInv, DoneInv, FxTyped

LEMMA JobDone ==
  ASSUME FxInv, Fx!Job, OnlyAnswers \/ Works, UNCHANGED <<call, heard, phase, chosen, outcome, late, changes>>
  PROVE  DoneInv' /\ answer' \in {"none", "ok", "unfocused", "error"}
         /\ effects' \in Seq([jvm : Nat, meant : SUBSET (Fx!Jvms \X Nat)])
<1> USE JobRuns
<1>1. CASE OnlyAnswers
  <2>1. answer' \in {"none", "ok", "unfocused", "error"} /\ effects' = effects /\ refused' = refused
        /\ (phase = "wait" => answer' = "error" \/ (answer' = "ok" /\ call.op = "text"))
    BY <1>1 DEF OnlyAnswers, Fx!Answers, FxInv, FxTyped
  <2>2. DoneInv'
    BY <2>1 DEF DoneInv, FxInv
  <2> QED BY <2>1, <2>2 DEF FxInv, FxTyped
<1>2. CASE Works
  <2>1. answer' \in {"none", "ok", "unfocused", "error"}
        /\ (phase = "wait" => /\ answer' = "error" => refused'
                              /\ answer' = "unfocused" => call.op \in {"raise", "request"})
    BY <1>2 DEF Works, Fx!Answers, FxInv, FxTyped
  <2>2. /\ effects' \in Seq([jvm : Nat, meant : SUBSET (Fx!Jvms \X Nat)]) /\ effects' # <<>>
        /\ \A k \in DOMAIN effects' : effects'[k].jvm = chosen
        /\ changes = 0 => \A k \in DOMAIN effects' : Count(effects'[k].meant) = 1
    BY <1>2, ActsTyped DEF Works
  <2>3. DoneInv'
    BY <2>1, <2>2 DEF DoneInv, FxInv, Count
  <2> QED BY <2>1, <2>2, <2>3
<1> QED BY <1>1, <1>2

(* A job that leaves the windows alone. *)
LEMMA JobKept ==
  ASSUME FxInv, Fx!Job, OnlyAnswers \/ (Works /\ call.op # "close"),
         UNCHANGED <<scene, call, heard, phase, todo, owners, found, failures, chosen, outcome, late, changes>>
  PROVE  FxInv'
<1>1. DoneInv' /\ FxTyped'
  BY JobDone, JobRuns DEF FxInv, FxTyped
<1>2. LookInv'
  BY JobRuns DEF FxInv, LookInv
<1>3. Only(chosen)' <=> Only(chosen)
  BY DEF Only, Fx!Meant, Fx!OnWindow, Fx!Windows, Fx!NodesOf
<1>4. Gone' <=> Gone
  BY DEF Gone, Fx!Windows
<1>5. AskInv'
  BY <1>3, JobRuns DEF FxInv, AskInv
<1>6. CloseInv'
  <2>1. call.op = "close" /\ phase = "wait" => answer' # "ok"
    BY JobRuns DEF OnlyAnswers, Fx!Answers
  <2> QED BY <1>4, <2>1 DEF FxInv, CloseInv
<1> QED BY <1>1, <1>2, <1>5, <1>6 DEF FxInv

LEMMA WithoutOne ==
  ASSUME NEW n \in Nat, NEW s \in [1 .. n -> Fx!Stages], NEW i \in 1 .. n
  PROVE  /\ Fx!Removed(s, i) \in [1 .. n - 1 -> Fx!Stages] /\ n - 1 \in Nat /\ Len(Fx!Removed(s, i)) = n - 1 /\ Len(s) = n
         /\ {h \in DOMAIN s : s[h] \in Fx!Titled} = {i} =>
              {h \in DOMAIN Fx!Removed(s, i) : Fx!Removed(s, i)[h] \in Fx!Titled} = {}
<1>1. Len(s) = n /\ DOMAIN s = 1 .. n /\ n - 1 \in Nat
  OBVIOUS
<1>2. DOMAIN Fx!Removed(s, i) = 1 .. n - 1
      /\ \A h \in 1 .. n - 1 : /\ Fx!Removed(s, i)[h] = s[IF h < i THEN h ELSE h + 1]
                               /\ (IF h < i THEN h ELSE h + 1) \in (1 .. n) \ {i}
  BY <1>1 DEF Fx!Removed
<1>3. Fx!Removed(s, i) \in [1 .. n - 1 -> Fx!Stages]
  BY <1>1, <1>2 DEF Fx!Removed
<1>4. Len(Fx!Removed(s, i)) = n - 1
  BY <1>1, <1>3
<1> QED BY <1>1, <1>2, <1>3, <1>4

LEMMA CloseKept ==
  ASSUME FxInv, Fx!RunClose
  PROVE  FxInv'
<1> USE DEF FxInv
<1>1. /\ Fx!Job /\ call.op = "close" /\ Fx!Cardinality(Fx!Meant(chosen)) = 1 /\ Fx!Acts
      /\ UNCHANGED <<slow, call, heard, phase, todo, owners, found, failures, chosen, attempts, outcome, late, changes>>
  BY DEF Fx!RunClose, Fx!driverVars
<1>2. CASE refused' = TRUE /\ Fx!Answers("error") /\ UNCHANGED scene
  <2>1. Works
    BY <1>1, <1>2 DEF Works
  <2>2. DoneInv' /\ FxTyped'
    BY <1>1, <1>2, <2>1, JobDone, JobRuns DEF FxTyped
  <2>3. LookInv'
    BY <1>1, JobRuns DEF LookInv
  <2>4. AskInv'
    BY <1>1, JobRuns DEF AskInv
  <2>5. CloseInv'
    BY <1>1, <1>2, JobRuns DEF CloseInv, Fx!Answers, Gone, Fx!Windows
  <2> QED BY <2>2, <2>3, <2>4, <2>5
<1>3. ASSUME NEW i \in Fx!Meant(chosen), scene' = [scene EXCEPT ![chosen] = Fx!Removed(@, i)],
             Fx!Answers("ok"), UNCHANGED refused
      PROVE  FxInv'
  <2>1. Works
    BY <1>1, <1>3 DEF Works
  <2> DEFINE s == scene[chosen]
             h == IF chosen = 1 THEN 2 ELSE 1
  <2>a. chosen \in Fx!Jvms /\ h \in Fx!Jvms /\ h # chosen /\ \A j \in Fx!Jvms : j = h \/ j = chosen
    BY <1>1, JobRuns
  <2>b. PICK n \in 0 .. MaxStages : s \in [1 .. n -> Fx!Stages] /\ Len(s) = n
    BY <2>a, SceneLists
  <2>c. PICK m \in 0 .. MaxStages : scene[h] \in [1 .. m -> Fx!Stages] /\ Len(scene[h]) = m
    BY <2>a, SceneLists
  <2>d. i \in 1 .. n /\ n \in Nat /\ m \in Nat /\ n - 1 \in 0 .. MaxStages
    BY <1>3, <2>b, BoundsAssumption DEF Fx!Meant, Fx!Windows, Fx!NodesOf
  <2>e. /\ Fx!Removed(s, i) \in [1 .. n - 1 -> Fx!Stages] /\ Len(Fx!Removed(s, i)) = n - 1
        /\ {k \in DOMAIN s : s[k] \in Fx!Titled} = {i} =>
              {k \in DOMAIN Fx!Removed(s, i) : Fx!Removed(s, i)[k] \in Fx!Titled} = {}
    <3> HIDE DEF s
    <3>1. n \in Nat /\ s \in [1 .. n -> Fx!Stages] /\ i \in 1 .. n
      BY <2>b, <2>d
    <3> QED BY <3>1, WithoutOne
  <2>f. scene \in [Fx!Jvms -> UNION {[1 .. k -> Fx!Stages] : k \in 0 .. MaxStages}] /\ n + m <= MaxStages
    <3>1. /\ scene \in [Fx!Jvms -> UNION {[1 .. k -> Fx!Stages] : k \in 0 .. MaxStages}]
          /\ Len(scene[1]) + Len(scene[2]) <= MaxStages
      BY DEF FxTyped, Fx!Scenes
    <3>2. \/ Len(scene[1]) = n /\ Len(scene[2]) = m
          \/ Len(scene[1]) = m /\ Len(scene[2]) = n
      BY <2>a, <2>b, <2>c
    <3>3. n + m = m + n
      BY <2>d
    <3> QED BY <3>1, <3>2, <3>3
  <2>g. scene'[chosen] = Fx!Removed(s, i) /\ scene'[h] = scene[h]
        /\ scene' \in [Fx!Jvms -> UNION {[1 .. k -> Fx!Stages] : k \in 0 .. MaxStages}]
    <3>1. Fx!Removed(s, i) \in UNION {[1 .. k -> Fx!Stages] : k \in 0 .. MaxStages}
      BY <2>d, <2>e
    <3> HIDE DEF h
    <3> QED BY <1>3, <2>a, <2>f, <3>1
  <2>2. scene' \in Fx!Scenes
    <3>1. Len(scene'[chosen]) = n - 1 /\ Len(scene'[h]) = m
      BY <2>c, <2>e, <2>g
    <3>2. \/ Len(scene'[1]) = n - 1 /\ Len(scene'[2]) = m
          \/ Len(scene'[1]) = m /\ Len(scene'[2]) = n - 1
      BY <2>a, <3>1
    <3>3. n - 1 + m <= MaxStages /\ m + (n - 1) <= MaxStages
      BY <2>d, <2>f, BoundsAssumption
    <3>4. Len(scene'[1]) + Len(scene'[2]) <= MaxStages
      BY <3>2, <3>3
    <3> QED BY <2>g, <3>4 DEF Fx!Scenes
  <2>3. DoneInv' /\ FxTyped'
    BY <1>1, <2>1, <2>2, JobDone, JobRuns DEF FxTyped
  <2>4. LookInv'
    BY <1>1, JobRuns DEF LookInv
  <2>5. AskInv'
    BY <1>1, JobRuns DEF AskInv
  <2>6. ASSUME changes = 0 PROVE Gone'
    <3>1. Fx!Meant(chosen) = Fx!Windows(chosen) /\ Fx!Meant(h) = Fx!Windows(h)
      BY <1>1 DEF Fx!Meant, Fx!OnWindow
    <3>2. (h \in heard => Fx!Windows(h) = {}) /\ Count(Fx!Windows(chosen)) = 1
      BY <1>1, <2>6, <2>a, <3>1, JobRuns DEF Only
    <3>3. Fx!Windows(chosen) = {i}
      <4>1. IsFiniteSet(Fx!Windows(chosen))
        BY <2>a, SceneLists
      <4>2. \E k : Fx!Windows(chosen) = {k}
        BY <3>2, <4>1, FS_Singleton, SameFxCount DEF Count
      <4> QED BY <1>3, <3>1, <4>2
    <3>4. Fx!Windows(chosen)' = {}
      BY <1>1, <2>e, <2>g, <3>3 DEF Fx!Windows
    <3>5. h \in heard => Fx!Windows(h)' = {}
      BY <1>1, <2>g, <3>2 DEF Fx!Windows
    <3>6. ASSUME NEW j \in heard PROVE {k \in DOMAIN scene'[j] : scene'[j][k] \in Fx!Titled} = {}
      BY <1>1, <2>a, <3>4, <3>5 DEF Fx!Windows, FxTyped
    <3> QED BY <1>1, <3>6 DEF Gone, Fx!Windows
  <2>7. CloseInv'
    BY <1>1, <2>6, JobRuns DEF CloseInv
  <2> QED BY <2>3, <2>4, <2>5, <2>7
<1> QED BY <1>1, <1>2, <1>3 DEF Fx!RunClose

LEMMA JobsKeptFx ==
  ASSUME FxInv, Fx!JavaFxThread
  PROVE  FxInv'
<1>1. CASE Fx!RunRefused
  BY <1>1, JobKept DEF Fx!RunRefused, Fx!driverVars, OnlyAnswers
<1>2. CASE Fx!RunGetText
  BY <1>2, JobKept DEF Fx!RunGetText, Fx!driverVars, OnlyAnswers
<1>3. CASE Fx!RunRaise
  BY <1>3, JobKept DEF Fx!RunRaise, Fx!driverVars, Works
<1>4. CASE Fx!RunAct
  BY <1>4, JobKept DEF Fx!RunAct, Fx!driverVars, Works
<1> QED BY <1>1, <1>2, <1>3, <1>4, CloseKept DEF Fx!JavaFxThread

LEMMA WindowsKept ==
  ASSUME FxInv, NEW j \in Fx!Jvms, Fx!ChangeWindows(j)
  PROVE  FxInv'
<1>1. changes' = changes + 1 /\ changes \in Nat /\ scene' \in Fx!Scenes
      /\ UNCHANGED <<slow, call, heard, phase, todo, owners, found, failures, chosen, attempts, outcome, late, answer, jobs, effects, refused>>
  BY DEF Fx!ChangeWindows, Fx!driverVars, FxInv, FxTyped
<1>2. changes' # 0
  BY <1>1
<1> QED BY <1>1, <1>2 DEF FxInv, FxTyped, LookInv, AskInv, DoneInv, CloseInv, Fx!OnWindow, Count

LEMMA FxKept ==
  ASSUME FxInv, [Fx!Next]_Fx!vars
  PROVE  FxInv'
<1>1. CASE UNCHANGED Fx!vars
  <2>1. UNCHANGED <<scene, call, heard, phase, todo, owners, found, failures, chosen, answer, jobs, effects, outcome,
                    late, refused, changes>>
    BY <1>1 DEF Fx!vars, Fx!driverVars
  <2>2. (\A j : Fx!Windows(j)' = Fx!Windows(j)) /\ (\A j : Fx!NodesOf(j)' = Fx!NodesOf(j)) /\ Fx!OnWindow' = Fx!OnWindow
    BY <2>1, Zenon DEF Fx!Windows, Fx!NodesOf, Fx!OnWindow
  <2>3. \A j : Fx!Meant(j)' = Fx!Meant(j)
    BY <2>2, Zenon DEF Fx!Meant
  <2>4. \A j : Only(j)' <=> Only(j)
    BY <2>1, <2>3, Zenon DEF Only, Count
  <2>5. \A j : LookedIn(j)' <=> LookedIn(j)
    BY <2>1, <2>2, Zenon DEF LookedIn, Count
  <2>6. FxTyped'
    BY <2>1, Zenon DEF FxInv, FxTyped
  <2>7. LookInv'
    BY <2>1, <2>2, <2>5, Zenon DEF FxInv, LookInv
  <2>8. AskInv' /\ DoneInv'
    BY <2>1, <2>4, Zenon DEF FxInv, AskInv, DoneInv, Count
  <2>9. CloseInv'
    BY <2>1, <2>2, Zenon DEF FxInv, CloseInv, Gone
  <2> QED BY <2>6, <2>7, <2>8, <2>9, Zenon DEF FxInv
<1>2. CASE Fx!Driver
  BY <1>2, FxStartKept, LookAtKept, OwnerKept, ComponentKept, FxAskKept, HearingKept DEF Fx!Driver
<1> QED BY <1>1, <1>2, JobsKeptFx, WindowsKept DEF Fx!Next

LEMMA ItemsSelected == Fx!SelectedIsRecorded
<1> SUFFICES ASSUME NEW list \in Fx!ItemLists, NEW new \in Fx!ItemLists, NEW i \in DOMAIN list
             PROVE  LET popup == [id |-> Fx!NoName, text |-> list[i].text, index |-> i - 1]
                        tab == [id |-> list[i].id, text |-> list[i].text, index |-> i - 1]
                    IN /\ new = list => Fx!PopupItem(new, popup) = {i} /\ (~list[i].disabled => Fx!TabItem(new, tab) = {i})
                       /\ \A k \in Fx!PopupItem(new, popup) : list[i].text \in {new[k].id, new[k].text}
                       /\ \A k \in Fx!TabItem(new, tab) :
                            new[k].id = list[i].id /\ new[k].text = list[i].text /\ ~new[k].disabled
  BY Zenon DEF Fx!SelectedIsRecorded
<1> DEFINE popup == [id |-> Fx!NoName, text |-> list[i].text, index |-> i - 1]
           tab == [id |-> list[i].id, text |-> list[i].text, index |-> i - 1]
<1>1. PICK n \in 0 .. 2 : list \in [1 .. n -> Fx!Items]
  BY DEF Fx!ItemLists
<1>2. i \in 1 .. n /\ list[i].id \in Fx!Names /\ list[i].text \in Fx!Names /\ i - 1 # Fx!NoIndex /\ i - 1 + 1 = i
  BY <1>1 DEF Fx!Items, Fx!NoIndex
<1>3. /\ popup.id = Fx!NoName /\ popup.text = list[i].text /\ popup.index = i - 1
      /\ tab.id = list[i].id /\ tab.text = list[i].text /\ tab.index = i - 1
  OBVIOUS
<1>4. list[i].id # Fx!NoName /\ list[i].text # Fx!NoName
  BY <1>2 DEF Fx!Names, Fx!NoName
<1> HIDE DEF popup, tab
<1>5. Fx!PopupItem(new, popup) = {i} \cap Fx!PopupMatches(new, popup)
  BY <1>2, <1>3, <1>4 DEF Fx!PopupItem, Fx!PopupMatches
<1>6. \A k \in Fx!PopupMatches(new, popup) : list[i].text \in {new[k].id, new[k].text}
  BY <1>3 DEF Fx!PopupMatches
<1>7. \A k \in Fx!TabMatches(new, tab) : new[k].id = list[i].id /\ new[k].text = list[i].text
  BY <1>3, <1>4 DEF Fx!TabMatches
<1>8. \A k \in Fx!TabItem(new, tab) : k \in Fx!TabMatches(new, tab) /\ ~new[k].disabled
  BY <1>3, <1>4 DEF Fx!TabItem
<1>9. ASSUME new = list PROVE i \in Fx!PopupMatches(new, popup) /\ i \in Fx!TabMatches(new, tab)
  BY <1>1, <1>2, <1>3, <1>9 DEF Fx!PopupMatches, Fx!TabMatches
<1>10. ASSUME new = list, ~list[i].disabled PROVE Fx!TabItem(new, tab) = {i}
  <2>1. CASE Fx!Cardinality(Fx!TabMatches(new, tab)) = 1
    <3>1. IsFiniteSet(Fx!TabMatches(new, tab))
      <4>1. Fx!TabMatches(new, tab) \subseteq 1 .. n /\ IsFiniteSet(1 .. n)
        BY <1>1, <1>10, FS_Interval DEF Fx!TabMatches
      <4> QED BY <4>1, FS_Subset
    <3>2. Fx!TabMatches(new, tab) = {i}
      BY <1>9, <1>10, <2>1, <3>1, FS_Singleton, SameFxCount
    <3> QED BY <1>3, <1>4, <1>10, <2>1, <3>2 DEF Fx!TabItem
  <2>2. CASE Fx!Cardinality(Fx!TabMatches(new, tab)) # 1
    <3>1. Fx!TabMatches(new, tab) \cap {tab.index + 1} = {i}
      BY <1>2, <1>3, <1>9, <1>10
    <3> QED BY <1>3, <1>4, <1>10, <2>2, <3>1 DEF Fx!TabItem
  <2> QED BY <2>1, <2>2
<1> QED BY <1>5, <1>6, <1>7, <1>8, <1>9, <1>10 DEF popup, tab

LEMMA FxTold ==
  ASSUME FxInv
  PROVE  Fx!FxCallIsTrue
BY ItemsSelected DEF FxInv, DoneInv, CloseInv, Gone, Count, Fx!FxCallIsTrue

-----------------------------------------------------------------------------
(* AtspiActions: what an action through the accessibility bus did.         *)

ItemSelectors == [label : Bus!Labels, at : 1 .. MaxItems]
BusActionTyped ==
  /\ bar \in Bus!Menus /\ sub \in [1 .. MaxItems -> Bus!Menus]
  /\ recorded \in Seq(ItemSelectors) /\ Len(recorded) = 2
  /\ op \in {"menu", "close", "focus", "act"}
  /\ phase \in {"idle", "ordinal", "matches", "act", "confirm", "ended"}
  /\ walked \in Seq(1 .. MaxItems) /\ Len(walked) <= 2
  /\ before \in Nat /\ during \in Nat /\ partial \in BOOLEAN

(* Where the call is says what it did.                                     *)
PhaseInv ==
  /\ phase \notin {"confirm", "ended"} => effects = <<>>
  /\ phase # "ended" => outcome = "none" /\ ~rejected
  /\ phase = "idle" => walked = <<>> /\ during = 0
  /\ phase \in {"ordinal", "matches"} => op = "menu" /\ Len(walked) <= 1
  /\ phase = "act" /\ op = "menu" => Len(walked) \in {1, 2}
  /\ phase = "confirm" => op \in {"close", "focus"} /\ effects # <<>>
  /\ effects = <<>> \/ \E e : effects = <<e>>
EndInv ==
  /\ outcome = "ok" => effects # <<>>
  /\ outcome = "failed" /\ (op = "menu" \/ rejected) => effects = <<>>
  /\ op = "close" /\ outcome = "ok" => window = "gone"

(* In menus that did not change the recorded item is at its place, and in  *)
(* those that do not during the call what was walked has the labels, and   *)
(* the places if it was picked among all items.                            *)
AsRecorded ==
  before = 0 /\ during = 0 =>
    /\ recorded[1].at \in DOMAIN bar /\ bar[recorded[1].at] = recorded[1].label
    /\ recorded[2].at \in DOMAIN sub[recorded[1].at]
    /\ sub[recorded[1].at][recorded[2].at] = recorded[2].label
WalkedInv ==
  op = "menu" /\ during = 0 =>
    /\ Len(walked) >= 1 => walked[1] \in DOMAIN bar /\ bar[walked[1]] = recorded[1].label
    /\ Len(walked) = 2 => walked[2] \in DOMAIN sub[walked[1]] /\ sub[walked[1]][walked[2]] = recorded[2].label
    /\ before = 0 /\ ~partial => \A i \in 1 .. Len(walked) : walked[i] = recorded[i].at
ActivatedInv ==
  op = "menu" /\ during = 0 => \A k \in DOMAIN effects :
    /\ effects[k].labels = Bus!RecordedLabels
    /\ before = 0 /\ ~partial => effects[k].path = Bus!RecordedPath

BusActionInv == BusActionTyped /\ PhaseInv /\ EndInv /\ AsRecorded /\ WalkedInv /\ ActivatedInv

LEMMA SameBusCount == \A S : Bus!Cardinality(S) = Cardinality(S)
  BY DEF Bus!Cardinality, Cardinality

LEMMA ItemLabels ==
  ASSUME NEW items \in Bus!Menus, NEW k \in DOMAIN items
  PROVE  items[k] \in Bus!Labels
BY DEF Bus!Menus

LEMMA BusActionStarts ==
  ASSUME Bus!Init
  PROVE  BusActionInv
<1>1. PICK p \in Bus!Paths :
        /\ p[1] \in DOMAIN bar /\ p[2] \in DOMAIN sub[p[1]]
        /\ recorded = <<[label |-> bar[p[1]], at |-> p[1]], [label |-> sub[p[1]][p[2]], at |-> p[2]]>>
  BY Zenon DEF Bus!Init
<1>2. p[1] \in 1 .. MaxItems /\ p[2] \in 1 .. MaxItems
  BY DEF Bus!Paths
<1>3. bar \in Bus!Menus /\ sub \in [1 .. MaxItems -> Bus!Menus]
  BY Zenon DEF Bus!Init
<1>a. sub[p[1]] \in Bus!Menus
  BY <1>2, <1>3
<1>b. bar[p[1]] \in Bus!Labels /\ sub[p[1]][p[2]] \in Bus!Labels
  BY <1>1, <1>3, <1>a, ItemLabels, Zenon
<1>4. /\ recorded \in Seq(ItemSelectors) /\ Len(recorded) = 2
      /\ recorded[1].at = p[1] /\ recorded[1].label = bar[p[1]]
      /\ recorded[2].at = p[2] /\ recorded[2].label = sub[p[1]][p[2]]
  <2> DEFINE r == [label |-> bar[p[1]], at |-> p[1]]
             t == [label |-> sub[p[1]][p[2]], at |-> p[2]]
  <2>1. r \in ItemSelectors /\ t \in ItemSelectors
    BY <1>2, <1>b DEF ItemSelectors
  <2>2. recorded = <<r, t>>
    BY <1>1
  <2>3. r.at = p[1] /\ r.label = bar[p[1]] /\ t.at = p[2] /\ t.label = sub[p[1]][p[2]]
    OBVIOUS
  <2> HIDE DEF r, t
  <2> QED BY <2>1, <2>2, <2>3
<1> USE DEF Bus!Init
<1>5. BusActionTyped
  <2>1. <<>> \in Seq(1 .. MaxItems) /\ Len(<<>>) <= 2
    OBVIOUS
  <2> QED BY <1>3, <1>4, <2>1 DEF BusActionTyped
<1>6. AsRecorded
  BY <1>1, <1>4 DEF AsRecorded
<1>7. PhaseInv /\ EndInv /\ WalkedInv /\ ActivatedInv
  BY DEF PhaseInv, EndInv, WalkedInv, ActivatedInv
<1> QED BY <1>5, <1>6, <1>7 DEF BusActionInv

(* The menus are as they were, and so is what was recorded.                *)
TreeSame == UNCHANGED <<bar, sub, recorded, before, during>>
PathSame == TreeSame /\ partial' = partial

LEMMA TreeKept ==
  ASSUME BusActionInv, TreeSame
  PROVE  AsRecorded'
BY DEF BusActionInv, TreeSame, AsRecorded

LEMMA BusStartKept ==
  ASSUME BusActionInv, NEW o \in {"menu", "close", "focus", "act"}, Bus!StartCall(o)
  PROVE  BusActionInv'
<1> USE DEF BusActionInv, Bus!StartCall, Bus!tree, Bus!lookVars
<1>1. BusActionTyped' /\ AsRecorded'
  BY DEF BusActionTyped, AsRecorded
<1>2. PhaseInv' /\ EndInv'
  BY DEF PhaseInv, EndInv
<1>3. WalkedInv' /\ ActivatedInv'
  BY DEF PhaseInv, WalkedInv, ActivatedInv
<1> QED BY <1>1, <1>2, <1>3

LEMMA ShortLists ==
  ASSUME NEW S, NEW w \in Seq(S)
  PROVE  Len(w) \in Nat /\ (Len(w) = 0 => w = <<>>) /\ (Len(w) = 1 => w # <<>> /\ w[1] \in S)
OBVIOUS

(* An item that meets the criteria, and is the recorded one if nothing     *)
(* changed, is picked.                                                     *)
LEMMA PickKept ==
  ASSUME BusActionInv, phase \in {"ordinal", "matches"}, NEW k \in DOMAIN Bus!Menu,
         Bus!Menu[k] = Bus!Selector.label,
         NEW places, before = 0 /\ during = 0 /\ places = DOMAIN Bus!Menu /\ ~partial => k = Bus!Selector.at,
         Bus!PickFrom(places, k), TreeSame, UNCHANGED <<op, outcome, window, effects, rejected>>
  PROVE  BusActionInv'
<1> USE DEF BusActionInv, Bus!Pick, Bus!PickFrom, TreeSame
<1>1. /\ walked \in Seq(1 .. MaxItems) /\ (Len(walked) = 0 \/ Len(walked) = 1)
      /\ (Len(walked) = 0 => walked = <<>>) /\ op = "menu"
      /\ outcome = "none" /\ ~rejected /\ effects = <<>>
  <2>1. walked \in Seq(1 .. MaxItems) /\ Len(walked) \in Nat /\ Len(walked) <= 1
    BY DEF BusActionTyped, PhaseInv
  <2>2. op = "menu" /\ outcome = "none" /\ ~rejected /\ effects = <<>>
    BY DEF PhaseInv
  <2> HIDE DEF BusActionInv, Bus!Pick, Bus!PickFrom, TreeSame
  <2>3. Len(walked) = 0 => walked = <<>>
    BY <2>1, ShortLists
  <2>4. \A n \in Nat : n <= 1 => n = 0 \/ n = 1
    OBVIOUS
  <2> QED BY <2>1, <2>2, <2>3, <2>4
<1>2. /\ k \in 1 .. MaxItems
      /\ Len(walked) = 0 => k \in DOMAIN bar /\ bar[k] = recorded[1].label
      /\ Len(walked) = 1 => k \in DOMAIN sub[walked[1]] /\ sub[walked[1]][k] = recorded[2].label
      /\ before = 0 /\ during = 0 /\ ~partial' => ~partial /\ k = recorded[Len(walked) + 1].at
  <2>1. ASSUME NEW m \in Bus!Menus, k \in DOMAIN m PROVE k \in 1 .. MaxItems
    BY <2>1, BoundsAssumption DEF Bus!Menus
  <2>2. Len(walked) = 0 => Bus!Menu = bar
    BY <1>1 DEF Bus!Menu
  <2>3. Len(walked) = 1 => walked[1] \in 1 .. MaxItems /\ walked # <<>>
    BY <1>1, ShortLists
  <2>4. Len(walked) = 1 => Bus!Menu = sub[walked[1]]
    <3>1. Bus!Menu # <<>>
      OBVIOUS
    <3> QED BY <2>3, <3>1 DEF Bus!Menu
  <2>5. bar \in Bus!Menus /\ sub \in [1 .. MaxItems -> Bus!Menus]
    BY DEF BusActionTyped
  <2>6. before = 0 /\ during = 0 /\ ~partial' => ~partial /\ k = Bus!Selector.at
    <3>1. partial' = (partial \/ places # DOMAIN Bus!Menu)
      OBVIOUS
    <3> QED BY <3>1
  <2> QED BY <1>1, <2>1, <2>2, <2>3, <2>4, <2>5, <2>6 DEF Bus!Selector
<1>3. /\ walked' \in Seq(1 .. MaxItems) /\ Len(walked') = Len(walked) + 1 /\ walked'[Len(walked) + 1] = k
      /\ \A i \in 1 .. Len(walked) : walked'[i] = walked[i]
  BY <1>1, <1>2
<1>4. BusActionTyped' /\ AsRecorded'
  BY <1>1, <1>3 DEF BusActionTyped, AsRecorded
<1>5. PhaseInv' /\ EndInv'
  BY <1>1, <1>3 DEF PhaseInv, EndInv
<1>6. WalkedInv' /\ ActivatedInv'
  BY <1>1, <1>2, <1>3 DEF WalkedInv, ActivatedInv
<1> QED BY <1>4, <1>5, <1>6

LEMMA NoItems == <<>> \in Bus!Menus
<1>1. 0 \in 0 .. MaxItems
  BY BoundsAssumption
<1>2. <<>> \in [1 .. 0 -> Bus!Labels]
  OBVIOUS
<1> QED BY <1>1, <1>2, Zenon DEF Bus!Menus

LEMMA FirstEntry ==
  ASSUME NEW S, NEW list \in Seq(S), list # <<>>
  PROVE  list[1] \in S
OBVIOUS

LEMMA MenuInHand ==
  ASSUME BusActionInv, phase \in {"ordinal", "matches"}
  PROVE  Bus!Menu \in Bus!Menus /\ \A k \in DOMAIN Bus!Menu : Bus!Menu # <<>>
<1>1. /\ bar \in Bus!Menus /\ sub \in [1 .. MaxItems -> Bus!Menus] /\ walked \in Seq(1 .. MaxItems)
      /\ Len(walked) <= 1
  BY DEF BusActionInv, BusActionTyped, PhaseInv
<1>2. <<>> \in Bus!Menus
  BY NoItems
<1>3. walked # <<>> => walked[1] \in 1 .. MaxItems
  BY <1>1, FirstEntry, Zenon
<1> QED BY <1>1, <1>2, <1>3 DEF Bus!Menu

(* The recorded item is among those looked at if nothing changed.          *)
LEMMA RecordedShown ==
  ASSUME BusActionInv, before = 0, during = 0, ~partial, phase \in {"ordinal", "matches"}, Bus!Menu # <<>>
  PROVE  Bus!Selector.at \in DOMAIN Bus!Menu /\ Bus!Menu[Bus!Selector.at] = Bus!Selector.label
<1> USE DEF BusActionInv
<1>1. op = "menu" /\ walked \in Seq(1 .. MaxItems) /\ Len(walked) <= 1 /\ Len(walked) \in Nat
  BY DEF BusActionTyped, PhaseInv
<1>2. CASE Len(walked) = 0
  <2>1. walked = <<>>
    BY <1>1, <1>2
  <2> QED BY <1>2, <2>1 DEF AsRecorded, Bus!Menu, Bus!Selector
<1>3. CASE Len(walked) = 1
  <2>1. walked # <<>> /\ walked[1] = recorded[1].at
    <3>1. walked # <<>>
      BY <1>1, <1>3, ShortLists
    <3> QED BY <1>1, <1>3, <3>1 DEF WalkedInv
  <2>2. Bus!Menu = sub[recorded[1].at]
    BY <2>1 DEF Bus!Menu
  <2>3. Bus!Selector = recorded[2]
    BY <1>3 DEF Bus!Selector
  <2>4. /\ recorded[2].at \in DOMAIN sub[recorded[1].at]
        /\ sub[recorded[1].at][recorded[2].at] = recorded[2].label
    BY DEF AsRecorded
  <2> HIDE DEF BusActionInv
  <2> QED BY <2>2, <2>3, <2>4, Zenon
<1>4. \A n \in Nat : n <= 1 => n = 0 \/ n = 1
  OBVIOUS
<1> HIDE DEF BusActionInv
<1> QED BY <1>1, <1>2, <1>3, <1>4

(* A step to another phase that neither picks nor acts. *)
LEMMA MovesOn ==
  ASSUME BusActionInv, phase \in {"ordinal", "matches", "act"}, op = "menu" \/ phase = "act",
         \/ phase' \in {"ordinal", "matches"} /\ outcome' = "none" /\ op = "menu" /\ Len(walked) <= 1
         \/ phase' = "ended" /\ outcome' = "failed",
         rejected' = rejected \/ phase' = "ended",
         PathSame, UNCHANGED <<op, walked, window, effects>>
  PROVE  BusActionInv'
<1> USE DEF BusActionInv, TreeSame, PathSame
<1>1. effects = <<>> /\ outcome = "none" /\ ~rejected
  BY DEF PhaseInv
<1>2. BusActionTyped' /\ AsRecorded'
  BY DEF BusActionTyped, AsRecorded
<1>3. PhaseInv' /\ EndInv'
  BY <1>1 DEF PhaseInv, EndInv
<1>4. WalkedInv' /\ ActivatedInv'
  BY <1>1 DEF WalkedInv, ActivatedInv
<1> QED BY <1>2, <1>3, <1>4

(* The n-th of all items is at the place n. *)
LEMMA OrdinalOfAll ==
  ASSUME NEW m \in Bus!Menus, NEW k \in DOMAIN m
  PROVE  /\ k \in Bus!AtOrdinal(DOMAIN m, k)
         /\ \A i \in DOMAIN m : i \in Bus!AtOrdinal(DOMAIN m, k) => i = k
<1>1. PICK n \in 0 .. MaxItems : DOMAIN m = 1 .. n
  BY DEF Bus!Menus
<1>2. n \in Nat
  BY <1>1, BoundsAssumption
<1>3. ASSUME NEW i \in 1 .. n PROVE Bus!Cardinality({j \in 1 .. n : j <= i}) = i
  <2>1. {j \in 1 .. n : j <= i} = 1 .. i
    BY <1>2
  <2>2. Cardinality(1 .. i) = i
    BY <1>2, FS_Interval
  <2> QED BY <2>1, <2>2, SameBusCount
<1> QED BY <1>1, <1>2, <1>3 DEF Bus!AtOrdinal

LEMMA PollKept ==
  ASSUME BusActionInv, Bus!PollOrdinal \/ Bus!PollMatches
  PROVE  BusActionInv'
<1>1. /\ TreeSame /\ UNCHANGED <<op, window, effects, rejected>> /\ phase \in {"ordinal", "matches"}
      /\ outcome = "none" /\ op = "menu" /\ Len(walked) <= 1
  BY DEF Bus!PollOrdinal, Bus!PollMatches, Bus!tree, TreeSame, BusActionInv, PhaseInv
<1>2. CASE phase' \in {"ordinal", "matches"} /\ UNCHANGED <<walked, outcome, partial>>
  BY <1>1, <1>2, MovesOn DEF PathSame
<1>3. CASE phase' = "ended" /\ outcome' = "failed" /\ UNCHANGED <<walked, partial>>
  BY <1>1, <1>3, MovesOn DEF PathSame
<1>4. CASE Bus!PollOrdinal
  <2> DEFINE There(places) == {k \in Bus!AtOrdinal(places, Bus!Selector.at) : Bus!Menu[k] = Bus!Selector.label}
  <2>1. ASSUME NEW places \in SUBSET DOMAIN Bus!Menu, NEW k \in There(places), Bus!PickFrom(places, k), UNCHANGED outcome
        PROVE  BusActionInv'
    <3>1. k \in places /\ k \in DOMAIN Bus!Menu /\ Bus!Menu[k] = Bus!Selector.label
      BY <2>1 DEF Bus!AtOrdinal
    <3>2. ASSUME before = 0, during = 0, places = DOMAIN Bus!Menu, ~partial PROVE k = Bus!Selector.at
      <4>1. Bus!Menu # <<>> /\ Bus!Menu \in Bus!Menus
        BY <1>1, <3>1, MenuInHand
      <4>2. Bus!Selector.at \in DOMAIN Bus!Menu
        BY <1>1, <3>2, <4>1, RecordedShown
      <4> QED BY <2>1, <3>1, <3>2, <4>1, <4>2, OrdinalOfAll
    <3> QED BY <1>1, <2>1, <3>1, <3>2, PickKept
  <2> HIDE DEF There
  <2>2. \/ \E places \in SUBSET DOMAIN Bus!Menu : \E k \in There(places) : Bus!PickFrom(places, k) /\ UNCHANGED outcome
        \/ phase' = "matches" /\ UNCHANGED <<walked, outcome, partial>>
    BY <1>4, Zenon DEF Bus!PollOrdinal, There
  <2> QED BY <1>2, <2>1, <2>2
<1>5. CASE Bus!PollMatches
  <2> DEFINE matches == {k \in listed \cap DOMAIN Bus!Menu : Bus!Menu[k] = Bus!Selector.label}
  <2>1. ASSUME NEW k \in matches, matches = {k}, Bus!PickFrom(listed, k), UNCHANGED outcome PROVE BusActionInv'
    <3>1. k \in DOMAIN Bus!Menu /\ Bus!Menu[k] = Bus!Selector.label
      BY <2>1
    <3>2. ASSUME before = 0, during = 0, listed = DOMAIN Bus!Menu, ~partial PROVE k = Bus!Selector.at
      <4>1. Bus!Menu # <<>>
        BY <1>1, <3>1, MenuInHand
      <4>2. Bus!Selector.at \in matches
        BY <1>1, <3>2, <4>1, RecordedShown
      <4> QED BY <2>1, <4>2
    <3> QED BY <1>1, <2>1, <3>1, <3>2, PickKept
  <2> HIDE DEF matches
  <2>2. \/ \E k \in matches : matches = {k} /\ Bus!PickFrom(listed, k) /\ UNCHANGED outcome
        \/ phase' = "ended" /\ outcome' = "failed" /\ UNCHANGED <<walked, partial>>
        \/ phase' = "ordinal" /\ UNCHANGED <<walked, outcome, partial>>
    BY <1>5 DEF Bus!PollMatches, Bus!End, matches
  <2> QED BY <1>2, <1>3, <2>1, <2>2
<1> QED BY <1>4, <1>5

LEMMA ActivateKept ==
  ASSUME BusActionInv, Bus!ActivateItem
  PROVE  BusActionInv'
<1> USE DEF BusActionInv
<1>1. /\ phase = "act" /\ op = "menu" /\ PathSame /\ UNCHANGED <<op, walked, window, rejected>>
      /\ walked \in Seq(1 .. MaxItems) /\ Len(walked) \in {1, 2} /\ effects = <<>>
      /\ outcome = "none" /\ ~rejected
  BY DEF Bus!ActivateItem, Bus!tree, Bus!lookVars, TreeSame, PathSame, BusActionTyped, PhaseInv
<1>2. CASE Len(walked) = 1
  BY <1>1, <1>2, MovesOn DEF Bus!ActivateItem
<1>3. CASE Len(walked) = 2
  <2> DEFINE e == [path |-> walked, labels |-> <<bar[walked[1]], sub[walked[1]][walked[2]]>>]
  <2>1. effects' = Append(effects, e) /\ phase' = "ended" /\ outcome' = "ok"
    BY <1>3 DEF Bus!ActivateItem, Bus!End
  <2>2. walked = <<walked[1], walked[2]>>
    BY <1>1, <1>3
  <2>3. ASSUME during = 0
        PROVE  /\ e.labels = Bus!RecordedLabels
               /\ before = 0 /\ ~partial => e.path = Bus!RecordedPath
    <3>1. bar[walked[1]] = recorded[1].label /\ sub[walked[1]][walked[2]] = recorded[2].label
      BY <1>1, <1>3, <2>3 DEF WalkedInv
    <3>2. before = 0 /\ ~partial => walked[1] = recorded[1].at /\ walked[2] = recorded[2].at
      BY <1>1, <1>3, <2>3 DEF WalkedInv
    <3>3. e.path = walked /\ e.labels = <<bar[walked[1]], sub[walked[1]][walked[2]]>>
      OBVIOUS
    <3> HIDE DEF e
    <3> QED BY <2>2, <3>1, <3>2, <3>3 DEF Bus!RecordedLabels, Bus!RecordedPath
  <2> HIDE DEF e
  <2>4. effects' = <<e>> /\ effects' # <<>> /\ DOMAIN effects' = {1} /\ effects'[1] = e
    BY <1>1, <2>1
  <2>5. BusActionTyped' /\ AsRecorded'
    BY <1>1, <2>1 DEF BusActionTyped, AsRecorded, TreeSame, PathSame
  <2>6. PhaseInv' /\ EndInv'
    BY <1>1, <2>1, <2>4 DEF PhaseInv, EndInv
  <2>7. WalkedInv'
    BY <1>1 DEF WalkedInv, TreeSame, PathSame
  <2>8. ActivatedInv'
    BY <1>1, <2>3, <2>4 DEF ActivatedInv, TreeSame, PathSame, Bus!RecordedLabels, Bus!RecordedPath
  <2> QED BY <2>5, <2>6, <2>7, <2>8
<1> QED BY <1>1, <1>2, <1>3

LEMMA RefusalKept ==
  ASSUME BusActionInv, Bus!ItemRefuses \/ Bus!Refuse
  PROVE  BusActionInv'
<1>1. /\ phase = "act" /\ phase' = "ended" /\ outcome' = "failed" /\ PathSame
      /\ UNCHANGED <<op, walked, window, effects>>
  BY DEF Bus!ItemRefuses, Bus!Refuse, Bus!End, Bus!tree, Bus!lookVars, TreeSame, PathSame
<1> QED BY <1>1, MovesOn

LEMMA RequestOrConfirmKept ==
  ASSUME BusActionInv, Bus!Request \/ Bus!Confirm
  PROVE  BusActionInv'
<1> USE DEF BusActionInv
<1>1. /\ op # "menu" /\ PathSame /\ UNCHANGED <<op, walked, window, rejected>>
      /\ outcome = "none" /\ ~rejected
  BY DEF Bus!Request, Bus!Confirm, Bus!tree, Bus!lookVars, TreeSame, PathSame, PhaseInv
<1>2. CASE Bus!Request
  <2>1. /\ effects' = <<op>>
        /\ \/ phase' = "ended" /\ outcome' = "ok" /\ op = "act"
           \/ phase' = "confirm" /\ outcome' = "none" /\ op # "act"
    BY <1>1, <1>2 DEF Bus!Request, Bus!End, PhaseInv
  <2>2. effects' # <<>> /\ op \in {"close", "focus", "act"}
    BY <1>1, <2>1 DEF BusActionTyped
  <2> QED BY <1>1, <2>1, <2>2 DEF BusActionTyped, AsRecorded, TreeSame, PathSame, PhaseInv, EndInv,
      WalkedInv, ActivatedInv
<1>3. CASE Bus!Confirm
  <2>1. /\ phase = "confirm" /\ phase' = "ended" /\ effects' = effects /\ effects # <<>>
        /\ \/ outcome' = "ok" /\ (op = "close" => window = "gone")
           \/ outcome' = "failed"
    BY <1>3 DEF Bus!Confirm, Bus!End, PhaseInv
  <2> QED BY <1>1, <2>1 DEF BusActionTyped, AsRecorded, TreeSame, PathSame, PhaseInv, EndInv,
      WalkedInv, ActivatedInv
<1> QED BY <1>2, <1>3

(* The menus change: what was known of them is lost. *)
LEMMA ChangeKept ==
  ASSUME BusActionInv, Bus!ChangeItems
  PROVE  BusActionInv'
<1> USE DEF BusActionInv
<1>1. /\ op = "menu" /\ phase # "ended" /\ phase # "confirm" /\ effects = <<>>
      /\ UNCHANGED <<recorded, op, phase, walked, outcome, window, effects, rejected>>
  BY DEF Bus!ChangeItems, Bus!callVars, PhaseInv
<1>2. /\ before' \in Nat /\ during' \in Nat /\ before' + during' # 0 /\ (during' = 0 => walked = <<>>)
      /\ (phase = "idle" => during' = 0) /\ (during' # 0 \/ before' # 0)
  BY DEF Bus!ChangeItems, Bus!Counted, BusActionTyped, PhaseInv
<1>a. partial' = partial
  BY DEF Bus!ChangeItems
<1>3. bar' \in Bus!Menus /\ sub' \in [1 .. MaxItems -> Bus!Menus]
  <2>1. <<>> \in Bus!Menus
    BY NoItems
  <2> QED BY <2>1 DEF Bus!ChangeItems, BusActionTyped
<1>4. BusActionTyped' /\ PhaseInv' /\ EndInv'
  <2>1. BusActionTyped'
    BY <1>1, <1>2, <1>3, <1>a, Zenon DEF BusActionTyped
  <2> QED BY <1>1, <1>2, <2>1, Zenon DEF PhaseInv, EndInv
<1>5. AsRecorded' /\ WalkedInv' /\ ActivatedInv'
  BY <1>1, <1>2 DEF AsRecorded, WalkedInv, ActivatedInv
<1> QED BY <1>4, <1>5

LEMMA ObjectKept ==
  ASSUME BusActionInv, Bus!Follow \/ Bus!Vanish
  PROVE  BusActionInv'
<1>1. /\ PathSame /\ UNCHANGED <<op, phase, walked, outcome, effects, rejected>>
      /\ window' = window \/ phase # "ended"
  BY DEF Bus!Follow, Bus!Vanish, Bus!tree, Bus!lookVars, Bus!callVars, TreeSame, PathSame
<1> QED BY <1>1 DEF TreeSame, PathSame, BusActionInv, BusActionTyped, PhaseInv, EndInv, AsRecorded,
    WalkedInv, ActivatedInv,
        Bus!RecordedLabels, Bus!RecordedPath

LEMMA BusActionKept ==
  ASSUME BusActionInv, [Bus!Next]_Bus!vars
  PROVE  BusActionInv'
<1>1. CASE UNCHANGED Bus!vars
  BY <1>1 DEF Bus!vars, Bus!tree, Bus!lookVars, Bus!callVars, BusActionInv, BusActionTyped, PhaseInv,
      EndInv, AsRecorded, WalkedInv,
     ActivatedInv, Bus!RecordedLabels, Bus!RecordedPath
<1> QED BY <1>1, BusStartKept, PollKept, ActivateKept, RefusalKept, RequestOrConfirmKept, ChangeKept, ObjectKept
        DEF Bus!Next, Bus!Driver, Bus!Application

LEMMA BusActionTold ==
  ASSUME BusActionInv
  PROVE  Bus!AtspiCallIsTrue
<1>1. Len(effects) <= 1
  BY DEF BusActionInv, PhaseInv
<1> QED BY <1>1 DEF BusActionInv, EndInv, ActivatedInv, Bus!AtspiCallIsTrue

-----------------------------------------------------------------------------
(* What a driver reports of a call is what happened in the applications,   *)
(* through the Java agent, the JavaFX bridge and the accessibility bus     *)
(* alike: who succeeds acted, in one JVM, once, on what the locator or the *)
(* recorded path means, and who failed in time did not. What it means is   *)
(* decided for JavaFX in the JVMs that answered the ping, those silent     *)
(* afterwards included, and for a path in menus that were looked at whole. *)
THEOREM DriversTellTheTruth == Spec => []CallsAreTrue
<1> DEFINE Kept ==
      /\ part = "swing" => SwingInv
      /\ part = "fx action" => FxInv
      /\ part = "bus action" => BusActionInv
<1>1. Init => Kept
  BY SwingStarts, FxStarts, BusActionStarts, Zenon DEF Init
<1>2. Kept /\ [Next]_vars => Kept'
  <2> SUFFICES ASSUME Kept, [Next]_vars PROVE Kept'
    BY Zenon
  <2>1. /\ UNCHANGED part
        /\ part = "swing" => [Swing!Next]_Swing!vars
        /\ part = "fx action" => [Fx!Next]_Fx!vars
        /\ part = "bus action" => [Bus!Next]_Bus!vars
    BY Zenon DEF Next, vars, onlySwing, onlyFx, onlyBus, Swing!vars, Fx!vars, Fx!driverVars,
       Bus!vars, Bus!tree, Bus!lookVars, Bus!callVars
  <2> QED BY <2>1, SwingKept, FxKept, BusActionKept, Zenon
<1>3. Kept => CallsAreTrue
  BY CallsTold, FxTold, BusActionTold, Zenon DEF CallsAreTrue
<1> QED BY <1>1, <1>2, <1>3, PTL DEF Spec

-----------------------------------------------------------------------------
(* RecordedMenus: a recorded selection fires the item that was clicked.    *)

MenuParts == {3, 4, 5}
Words == {"", "Find", "Find...", "i"}
Keys == Words \X Nat
Paths == {p \in Seq(Keys) : Len(p) \in {1, 2}}
Selectors == [id : Words, text : Words, place : Menus!Items]
MenuNodes == [path : Paths, selector : Selectors]
Inventories == {v \in Seq(MenuNodes) : \A j, k \in 1 .. Len(v) : v[j].path = v[k].path => j = k}
Called(s) == [id |-> s.id, text |-> s.text]

LEMMA PathIs ==
  ASSUME NEW p \in Paths
  PROVE  /\ Len(p) = 1 => Menus!Front(p) = <<>> /\ p = <<p[1]>> /\ SubSeq(p, 1, 1) = p
         /\ Len(p) = 2 => /\ Menus!Front(p) = <<p[1]>> /\ p = <<p[1], p[2]>>
                          /\ SubSeq(p, 1, 1) = <<p[1]>> /\ SubSeq(p, 1, 2) = p
         /\ Menus!Last(p) = p[Len(p)] /\ Menus!Last(p) \in Keys /\ p[1] \in Keys
<1>1. p \in Seq(Keys) /\ Len(p) \in {1, 2}
  BY DEF Paths
<1>2. Menus!Last(p) = p[Len(p)] /\ Menus!Last(p) \in Keys /\ p[1] \in Keys
  BY <1>1 DEF Menus!Last
<1>3. CASE Len(p) = 1
  <2>1. Menus!Front(p) = <<>>
    BY <1>1, <1>3 DEF Menus!Front
  <2>2. p = <<p[1]>>
    BY <1>1, <1>3
  <2>3. SubSeq(p, 1, 1) = p
    BY <1>1, <1>3, <2>2
  <2> QED BY <1>2, <1>3, <2>1, <2>2, <2>3
<1>4. CASE Len(p) = 2
  <2>1. SubSeq(p, 1, 1) = <<p[1]>>
    <3> DEFINE q == SubSeq(p, 1, 1)
    <3>1. q \in Seq(Keys) /\ Len(q) = 1 /\ q[1] = p[1]
      BY <1>1, <1>4
    <3> HIDE DEF q
    <3>2. q = <<q[1]>>
      BY <3>1
    <3> QED BY <3>1, <3>2 DEF q
  <2>2. Menus!Front(p) = <<p[1]>>
    BY <1>1, <1>4, <2>1 DEF Menus!Front
  <2>3. p = <<p[1], p[2]>>
    BY <1>1, <1>4
  <2>4. SubSeq(p, 1, 2) = p
    BY <1>1, <1>4, <2>3
  <2> QED BY <1>2, <1>4, <2>1, <2>2, <2>3, <2>4
<1> QED BY <1>1, <1>3, <1>4

LEMMA PathMade ==
  /\ \A x \in Keys : <<x>> \in Paths /\ Append(<<>>, x) = <<x>>
  /\ \A x, y \in Keys : <<x, y>> \in Paths /\ Append(<<x>>, y) = <<x, y>>
<1>1. ASSUME NEW x \in Keys PROVE <<x>> \in Paths /\ Append(<<>>, x) = <<x>>
  <2>1. <<x>> \in Seq(Keys) /\ Len(<<x>>) = 1
    OBVIOUS
  <2> QED BY <2>1 DEF Paths
<1>2. ASSUME NEW x \in Keys, NEW y \in Keys PROVE <<x, y>> \in Paths /\ Append(<<x>>, y) = <<x, y>>
  <2>1. <<x, y>> \in Seq(Keys) /\ Len(<<x, y>>) = 2
    OBVIOUS
  <2>2. Append(<<x>>, y) = <<x, y>>
    <3> DEFINE r == Append(<<x>>, y)
    <3>1. r \in Seq(Keys) /\ Len(r) = 2 /\ r[1] = x /\ r[2] = y
      OBVIOUS
    <3>2. \A i \in 1 .. 2 : r[i] = <<x, y>>[i]
      BY <3>1
    <3> HIDE DEF r
    <3>3. r = <<x, y>>
      BY <2>1, <3>1, <3>2, SeqEqual
    <3> QED BY <3>3 DEF r
  <2> QED BY <2>1, <2>2 DEF Paths
<1> QED BY <1>1, <1>2

LEMMA LeastOf ==
  ASSUME NEW S \in SUBSET Nat, S # {}
  PROVE  \E x \in S : \A y \in S : x <= y
<1> DEFINE LessThan == {ss \in Nat \X Nat : ss[1] < ss[2]}
<1>1. IsWellFoundedOn(LessThan, Nat)
  <2>1. LessThan = OpToRel(<, Nat)
    BY DEF OpToRel
  <2> QED BY <2>1, NatLessThanWellFounded, Zenon
<1>2. PICK x \in S : \A y \in S : ~ (<<y, x>> \in LessThan)
  <2> HIDE DEF LessThan
  <2> QED BY <1>1, WFMin
<1>3. \A y \in S : x <= y
  <2> TAKE y \in S
  <2>1. x \in Nat /\ y \in Nat /\ ~ (<<y, x>> \in LessThan)
    BY <1>2
  <2> QED BY <2>1
<1> QED BY <1>3

LEMMA Pigeons ==
  ASSUME NEW m \in Nat, NEW f \in [1 .. m + 1 -> 1 .. m]
  PROVE  \E x, y \in 1 .. m + 1 : x # y /\ f[x] = f[y]
<1> DEFINE S == 1 .. m + 1
           T == 1 .. m
<1>1. IsFiniteSet(S) /\ Cardinality(S) = m + 1
  <2>1. m + 1 \in Int /\ 1 \in Int /\ 1 <= m + 1
    OBVIOUS
  <2>2. IsFiniteSet(1 .. m + 1) /\ Cardinality(1 .. m + 1) = IF 1 > m + 1 THEN 0 ELSE (m + 1) - 1 + 1
    BY <2>1, FS_Interval, Zenon
  <2> QED BY <2>1, <2>2
<1>2. IsFiniteSet(T) /\ Cardinality(T) = m
  <2>1. m \in Int /\ 1 \in Int
    OBVIOUS
  <2>2. IsFiniteSet(1 .. m) /\ Cardinality(1 .. m) = IF 1 > m THEN 0 ELSE m - 1 + 1
    BY <2>1, FS_Interval, Zenon
  <2> QED BY <2>2
<1>3. Cardinality(T) < Cardinality(S) /\ f \in [S -> T]
  BY <1>1, <1>2
<1> HIDE DEF S, T
<1>4. \E x, y \in S : x # y /\ f[x] = f[y]
  BY <1>1, <1>2, <1>3, FS_PigeonHole, Zenon
<1> QED BY <1>4 DEF S

(* There is a free key, and the first one is free.                         *)
LEMMA FreeKeyIs ==
  ASSUME NEW inv \in Seq(MenuNodes), NEW path, NEW s \in Selectors
  PROVE  LET key == Menus!FreeKey(inv, path, s)
         IN /\ key \in Keys /\ key[1] = Menus!BaseKey(s)
            /\ \A k \in 1 .. Len(inv) : Menus!Front(inv[k].path) = path => Menus!Last(inv[k].path) # key
<1> DEFINE base == Menus!BaseKey(s)
           under == Menus!Under(inv, path)
           taken == {Menus!Last(inv[k].path) : k \in under}
           n == Len(inv) + 1
           free == {x \in 1 .. n : <<base, x>> \notin taken}
<1>1. base \in Words
  BY Zenon DEF Menus!BaseKey, Menus!Folded, Selectors, Words
<1>2. under \subseteq 1 .. Len(inv) /\ Len(inv) \in Nat
  BY DEF Menus!Under
<1>3. free # {}
  <2> SUFFICES ASSUME free = {} PROVE FALSE
    OBVIOUS
  <2> DEFINE f == [x \in 1 .. n |-> CHOOSE k \in under : Menus!Last(inv[k].path) = <<base, x>>]
  <2>1. ASSUME NEW x \in 1 .. n
        PROVE  f[x] \in under /\ Menus!Last(inv[f[x]].path) = <<base, x>>
    <3>1. <<base, x>> \in taken
      OBVIOUS
    <3>2. \E k \in under : Menus!Last(inv[k].path) = <<base, x>>
      BY <3>1
    <3> QED BY <3>2
  <2>2. f \in [1 .. n -> 1 .. Len(inv)]
    BY <1>2, <2>1
  <2>5. PICK x, y \in 1 .. n : x # y /\ f[x] = f[y]
    <3> HIDE DEF f
    <3> QED BY <1>2, <2>2, Pigeons
  <2>6. <<base, x>> = <<base, y>>
    <3> HIDE DEF f
    <3> QED BY <2>1, <2>5
  <2> QED BY <2>5, <2>6
<1>4. PICK x \in free : \A y \in free : x <= y
  <2>1. free \in SUBSET Nat
    BY <1>2
  <2> HIDE DEF free
  <2> QED BY <1>3, <2>1, LeastOf
<1>5. \A m \in 1 .. x - 1 : <<base, m>> \in taken
  <2> TAKE m \in 1 .. x - 1
  <2>1. m \in 1 .. n /\ ~ (x <= m)
    BY <1>2
  <2> QED BY <1>4, <2>1
<1>6. \E y \in 1 .. Len(inv) + 1 : <<base, y>> \notin taken /\ \A m \in 1 .. y - 1 : <<base, m>> \in taken
  BY <1>5
<1> DEFINE k == CHOOSE y \in 1 .. Len(inv) + 1 :
                  <<base, y>> \notin taken /\ \A m \in 1 .. y - 1 : <<base, m>> \in taken
<1>7. k \in 1 .. Len(inv) + 1 /\ <<base, k>> \notin taken
  BY <1>6
<1>8. Menus!FreeKey(inv, path, s) = <<base, k>>
  BY DEF Menus!FreeKey
<1>9. <<base, k>> \in Keys /\ <<base, k>>[1] = base
  <2> HIDE DEF k, base
  <2> QED BY <1>1, <1>2, <1>7 DEF Keys
<1>10. ASSUME NEW j \in 1 .. Len(inv), Menus!Front(inv[j].path) = path
       PROVE  Menus!Last(inv[j].path) # <<base, k>>
  <2>1. j \in under
    BY <1>10 DEF Menus!Under
  <2> HIDE DEF k, base, under
  <2> QED BY <1>7, <2>1
<1> DEFINE key == <<base, k>>
<1>11. /\ Menus!FreeKey(inv, path, s) = key
       /\ key \in Keys /\ key[1] = Menus!BaseKey(s)
       /\ \A j \in 1 .. Len(inv) : Menus!Front(inv[j].path) = path => Menus!Last(inv[j].path) # key
  <2> HIDE DEF k
  <2> QED BY <1>8, <1>9, <1>10
<1> HIDE DEF key
<1> QED BY <1>11

(* One selector of a route leads to path q and inventory new: a node that  *)
(* is known takes the selector, or a new one has it.                       *)
Known(inv, s, q, new) ==
  \E k \in DOMAIN inv :
    /\ inv[k].path = q /\ Menus!Same(inv[k].selector, s)
    /\ new = [inv EXCEPT ![k] = [path |-> q, selector |-> s]]
AddedNode(inv, path, s, q, new) ==
  /\ \A k \in DOMAIN inv : Menus!Front(inv[k].path) = path => ~ Menus!Same(inv[k].selector, s)
  /\ \A k \in DOMAIN inv : inv[k].path # q
  /\ Menus!Last(q)[1] = Menus!BaseKey(s)
  /\ new = Append(inv, [path |-> q, selector |-> s])
Staged(inv, path, s, q, new) ==
  /\ q \in Paths /\ Len(q) = Len(path) + 1 /\ Menus!Front(q) = path
  /\ Known(inv, s, q, new) \/ AddedNode(inv, path, s, q, new)
Owned == {<<>>} \cup {<<x>> : x \in Keys}

LEMMA StagedIs ==
  ASSUME NEW inv \in Inventories, NEW path \in Owned, NEW s \in Selectors
  PROVE  LET r == Menus!Stage([inv |-> inv, path |-> path], s)
         IN /\ r = [path |-> r.path, inv |-> r.inv]
            /\ Staged(inv, path, s, r.path, r.inv)
<1> DEFINE known == {k \in Menus!Under(inv, path) : Menus!Same(inv[k].selector, s)}
           least == CHOOSE k \in known : \A j \in known : k <= j
           key == Menus!FreeKey(inv, path, s)
           q == IF known # {} THEN inv[least].path ELSE Append(path, key)
           put == [path |-> q, selector |-> s]
           old == {k \in DOMAIN inv : inv[k].path = q}
           new == IF old = {} THEN Append(inv, put) ELSE [k \in DOMAIN inv |-> IF k \in old THEN put ELSE inv[k]]
<1>1. Menus!Stage([inv |-> inv, path |-> path], s) = [path |-> q, inv |-> new]
  BY DEF Menus!Stage
<1>2. /\ inv \in Seq(MenuNodes) /\ DOMAIN inv = 1 .. Len(inv) /\ Len(inv) \in Nat
      /\ \A j, k \in 1 .. Len(inv) : inv[j].path = inv[k].path => j = k
  BY DEF Inventories
<1>3. CASE known # {}
  <2>1. known \in SUBSET Nat
    BY <1>2 DEF Menus!Under
  <2>2. least \in known
    <3> HIDE DEF known
    <3>1. \E k \in known : \A j \in known : k <= j
      BY <1>3, <2>1, LeastOf
    <3> QED BY <3>1
  <2>3. /\ least \in 1 .. Len(inv) /\ Menus!Front(inv[least].path) = path
        /\ Menus!Same(inv[least].selector, s)
    <3> HIDE DEF least
    <3> QED BY <1>2, <2>2 DEF Menus!Under
  <2>4. q = inv[least].path
    BY <1>3
  <2> HIDE DEF least, known, q
  <2>5. old = {least}
    BY <1>2, <2>3, <2>4
  <2>6. new = [inv EXCEPT ![least] = put]
    BY <1>2, <2>3, <2>5, Zenon
  <2>7. q \in Paths
    <3>1. inv[least] \in MenuNodes
      BY <1>2, <2>3
    <3> QED BY <2>4, <3>1 DEF MenuNodes
  <2>8. Len(q) = Len(path) + 1
    BY <2>3, <2>4, <2>7, PathIs DEF Paths, Owned
  <2>9. Known(inv, s, q, new)
    BY <1>2, <2>3, <2>4, <2>6, Zenon DEF Known
  <2> HIDE DEF new
  <2> QED BY <1>1, <2>3, <2>4, <2>7, <2>8, <2>9 DEF Staged
<1>4. CASE known = {}
  <2>1. /\ key \in Keys /\ key[1] = Menus!BaseKey(s)
        /\ \A k \in 1 .. Len(inv) : Menus!Front(inv[k].path) = path => Menus!Last(inv[k].path) # key
    BY <1>2, FreeKeyIs
  <2>2. q = Append(path, key)
    BY <1>4
  <2>3. \A k \in 1 .. Len(inv) : Menus!Front(inv[k].path) = path => ~ Menus!Same(inv[k].selector, s)
    BY <1>2, <1>4 DEF Menus!Under
  <2> HIDE DEF known, key, q
  <2>4. q \in Paths /\ Len(q) = Len(path) + 1 /\ Menus!Front(q) = path /\ Menus!Last(q) = key
    <3>1. CASE path = <<>>
      <4>1. q = <<key>> /\ q \in Paths /\ Len(q) = 1
        BY <2>1, <2>2, <3>1, PathMade
      <4> QED BY <3>1, <4>1, PathIs
    <3>2. CASE \E x \in Keys : path = <<x>>
      <4>1. PICK x \in Keys : path = <<x>>
        BY <3>2
      <4>2. q = <<x, key>> /\ q \in Paths /\ Len(q) = 2 /\ q[1] = x
        <5>1. <<x, key>> \in Paths /\ Append(<<x>>, key) = <<x, key>>
          BY <2>1, <4>1, PathMade
        <5>2. q = <<x, key>>
          BY <2>2, <4>1, <5>1
        <5> QED BY <5>1, <5>2
      <4> QED BY <4>1, <4>2, PathIs
    <3> QED BY <3>1, <3>2 DEF Owned
  <2>5. \A k \in 1 .. Len(inv) : inv[k].path # q
    BY <2>1, <2>4
  <2>6. old = {}
    BY <1>2, <2>5
  <2>7. new = Append(inv, put)
    BY <2>6
  <2>8. AddedNode(inv, path, s, q, new)
    BY <1>2, <2>1, <2>3, <2>4, <2>5, <2>7 DEF AddedNode
  <2> HIDE DEF new
  <2> QED BY <1>1, <2>4, <2>8 DEF Staged
<1> QED BY <1>3, <1>4

(* What staging leaves of an inventory and adds to it.                     *)
StagedTo(inv, s, q, new) ==
  /\ \A k \in DOMAIN new : \/ new[k].path = q /\ new[k].selector = s
                           \/ \E j \in DOMAIN inv : new[k] = inv[j]
  /\ \A j \in DOMAIN inv : new[j].path = inv[j].path /\ j \in DOMAIN new
  /\ \A j \in DOMAIN inv : new[j] = inv[j] \/ (new[j].selector = s /\ Menus!Same(inv[j].selector, s))
  /\ \E k \in DOMAIN new : new[k].path = q /\ new[k].selector = s

LEMMA StagedTyped ==
  ASSUME NEW inv \in Inventories, NEW path, NEW s \in Selectors, NEW q, NEW new, Staged(inv, path, s, q, new)
  PROVE  new \in Inventories /\ StagedTo(inv, s, q, new)
<1>1. /\ inv \in Seq(MenuNodes) /\ DOMAIN inv = 1 .. Len(inv) /\ Len(inv) \in Nat
      /\ \A j, k \in 1 .. Len(inv) : inv[j].path = inv[k].path => j = k
  BY DEF Inventories
<1> DEFINE put == [path |-> q, selector |-> s]
<1>2. put \in MenuNodes /\ put.path = q /\ put.selector = s
  BY DEF Staged, MenuNodes
<1> HIDE DEF put
<1>3. CASE Known(inv, s, q, new)
  <2>1. PICK k \in DOMAIN inv : inv[k].path = q /\ Menus!Same(inv[k].selector, s) /\ new = [inv EXCEPT ![k] = put]
    BY <1>3 DEF Known, put
  <2>2. /\ new \in Seq(MenuNodes) /\ Len(new) = Len(inv) /\ new[k] = put
        /\ \A j \in 1 .. Len(inv) : j # k => new[j] = inv[j]
    BY <1>1, <1>2, <2>1
  <2>3. \A j \in 1 .. Len(inv) : new[j].path = inv[j].path
    BY <1>1, <1>2, <2>1, <2>2
  <2>4. new \in Inventories
    BY <1>1, <2>2, <2>3 DEF Inventories
  <2>5. DOMAIN new = DOMAIN inv
    BY <1>1, <2>2
  <2> QED BY <1>1, <1>2, <2>1, <2>2, <2>3, <2>4, <2>5 DEF StagedTo
<1>4. CASE AddedNode(inv, path, s, q, new)
  <2>1. new = Append(inv, put) /\ \A k \in 1 .. Len(inv) : inv[k].path # q
    BY <1>1, <1>4 DEF AddedNode, put
  <2>2. /\ new \in Seq(MenuNodes) /\ Len(new) = Len(inv) + 1 /\ new[Len(inv) + 1] = put
        /\ \A j \in 1 .. Len(inv) : new[j] = inv[j]
    BY <1>1, <1>2, <2>1
  <2>3. DOMAIN new = 1 .. Len(inv) + 1
    BY <2>2
  <2>4. ASSUME NEW j \in 1 .. Len(new), NEW k \in 1 .. Len(new), new[j].path = new[k].path PROVE j = k
    <3>1. (j \in 1 .. Len(inv) \/ j = Len(inv) + 1) /\ (k \in 1 .. Len(inv) \/ k = Len(inv) + 1)
      BY <1>1, <2>2
    <3> QED BY <1>1, <1>2, <2>1, <2>2, <2>4, <3>1
  <2>5. new \in Inventories
    BY <2>2, <2>4 DEF Inventories
  <2> QED BY <1>1, <1>2, <2>2, <2>3, <2>5 DEF StagedTo
<1> QED BY <1>3, <1>4 DEF Staged

(* The menus of the application and their ghost, as parameters: m is menu  *)
(* and w is worn, of this state or of the next one.                        *)
Way(m, i) == IF m[i].parent \in {1, 2} THEN <<i>> ELSE <<m[i].parent, i>>
Top(m, i) == m[Way(m, i)[1]].parent
Alone(m, w) ==
  \A v, x \in w : v[1] # x[1] /\ Top(m, v[1]) = Top(m, x[1]) =>
    \A f \in {"id", "text"} : v[2][f] # x[2][f] \/ v[2][f] = ""
MenuOk(m, w) ==
  /\ m \in [1 .. 5 -> [parent : 0 .. 5, id : Words, text : Words, place : 1 .. 5]]
  /\ m[1].parent = 0 /\ m[2].parent = 0 /\ m[3].parent = 1
  /\ m[4].parent \in {1, 2, 3} /\ m[5].parent \in {1, 2, 3}
  /\ \A t \in {1, 2} : m[t].id = "" /\ m[t].text # ""
  /\ w \subseteq MenuParts \X [id : Words, text : Words]
  /\ \A x \in w : x[2].id # "" \/ x[2].text # ""
  /\ \A i \in MenuParts : <<i, Called(m[i])>> \in w

(* A node at this path has had a caption that item i has had.              *)
Shows(inv, w, path, i) == \E k \in DOMAIN inv : inv[k].path = path /\ <<i, Called(inv[k].selector)>> \in w

(* Path p of owner d is the one of item i.                                 *)
Right(m, inv, w, d, p, i) ==
  /\ Top(m, i) = d /\ Len(p) = Len(Way(m, i)) /\ Shows(inv, w, p, i)
  /\ Len(p) = 2 => Shows(inv, w, <<p[1]>>, 3)
Keeps(m, d, inv, new, w) ==
  \A p : \A i \in MenuParts : Top(m, i) = d /\ Shows(inv, w, p, i) => Shows(new, w, p, i)
Sound(m, d, inv, w) ==
  \A k \in DOMAIN inv : \E i \in MenuParts :
    /\ <<i, Called(inv[k].selector)>> \in w
    /\ Right(m, inv, w, d, inv[k].path, i)

LEMMA RouteIs ==
  ASSUME MenuOk(menu, worn), NEW i \in MenuParts
  PROVE  /\ Top(menu, i) \in {1, 2}
         /\ Len(Way(menu, i)) \in {1, 2} /\ DOMAIN Way(menu, i) = 1 .. Len(Way(menu, i))
         /\ \A l \in 1 .. Len(Way(menu, i)) : Way(menu, i)[l] \in MenuParts
         /\ Way(menu, i)[Len(Way(menu, i))] = i
         /\ Len(Way(menu, i)) = 1 => menu[i].parent = Top(menu, i)
         /\ Len(Way(menu, i)) = 2 => menu[i].parent = 3 /\ Way(menu, i)[1] = 3 /\ Top(menu, i) = 1
         /\ Top(menu, 3) = 1 /\ Len(Way(menu, 3)) = 1
<1>1. CASE menu[i].parent \in {1, 2}
  <2>1. Way(menu, i) = <<i>>
    BY <1>1 DEF Way
  <2>2. Top(menu, i) = menu[i].parent
    BY <2>1 DEF Top
  <2>3. Way(menu, 3) = <<3>> /\ Top(menu, 3) = 1
    BY Zenon DEF Way, Top, MenuOk
  <2> QED BY <1>1, <2>1, <2>2, <2>3
<1>2. CASE menu[i].parent = 3
  <2>1. Way(menu, i) = <<3, i>>
    BY <1>2 DEF Way
  <2>2. Top(menu, i) = 1
    <3>1. <<3, i>>[1] = 3
      OBVIOUS
    <3>2. menu[3].parent = 1
      BY Zenon DEF MenuOk
    <3> QED BY <2>1, <3>1, <3>2 DEF Top
  <2>3. Way(menu, 3) = <<3>> /\ Top(menu, 3) = 1
    BY Zenon DEF Way, Top, MenuOk
  <2>4. Len(<<3, i>>) = 2 /\ DOMAIN <<3, i>> = 1 .. 2 /\ <<3, i>>[1] = 3 /\ <<3, i>>[2] = i /\ 3 \in MenuParts
    BY DEF MenuParts
  <2> QED BY <1>2, <2>1, <2>2, <2>3, <2>4
<1> QED BY <1>1, <1>2, Zenon DEF MenuOk, MenuParts

(* Items of one menu that are called the same are the same.                *)
LEMMA ApartMeans ==
  ASSUME Alone(menu, worn), NEW i, NEW j, NEW s, NEW t,
         <<i, Called(s)>> \in worn, <<j, Called(t)>> \in worn,
         Top(menu, i) = Top(menu, j),
         (s.id # "" /\ s.id = t.id) \/ (s.text # "" /\ s.text = t.text)
  PROVE  i = j
<1> DEFINE v == <<i, Called(s)>>
           w == <<j, Called(t)>>
<1>1. v[1] # w[1] => \A f \in {"id", "text"} : v[2][f] # w[2][f] \/ v[2][f] = ""
  BY Zenon DEF Alone, Menus!None
<1>2. v[2]["id"] = s.id /\ w[2]["id"] = t.id /\ v[2]["text"] = s.text /\ w[2]["text"] = t.text
  BY Zenon DEF Called
<1> QED BY <1>1, <1>2, Zenon

LEMMA SameIs ==
  ASSUME NEW s, NEW t, Menus!Same(s, t)
  PROVE  (s.id # "" /\ s.id = t.id) \/ (s.text # "" /\ s.text = t.text)
<1>1. PICK f \in {"id", "text"} : s[f] # "" /\ t[f] # "" /\ s[f] = t[f]
  BY Zenon DEF Menus!Same, Menus!None
<1>2. f = "id" \/ f = "text"
  OBVIOUS
<1> QED BY <1>1, <1>2, Zenon

(* Staging the selector of item a keeps what the inventory says.           *)
LEMMA StagedKeeps ==
  ASSUME MenuOk(menu, worn), Alone(menu, worn), NEW d, NEW inv \in Inventories, Sound(menu, d, inv, worn),
         NEW path, NEW s \in Selectors, NEW q, NEW new, Staged(inv, path, s, q, new),
         NEW a \in MenuParts, Top(menu, a) = d, <<a, Called(s)>> \in worn,
         Len(q) = Len(Way(menu, a)), Len(q) = 2 => Shows(inv, worn, <<q[1]>>, 3)
  PROVE  /\ Sound(menu, d, new, worn) /\ Right(menu, new, worn, d, q, a)
         /\ Keeps(menu, d, inv, new, worn)
<1>1. /\ inv \in Seq(MenuNodes) /\ DOMAIN inv = 1 .. Len(inv) /\ Len(inv) \in Nat
      /\ \A j, k \in 1 .. Len(inv) : inv[j].path = inv[k].path => j = k
  BY DEF Inventories
<1>2. /\ \A k \in DOMAIN new : \/ new[k].path = q /\ new[k].selector = s
                               \/ \E j \in DOMAIN inv : new[k] = inv[j]
      /\ \A j \in DOMAIN inv : new[j].path = inv[j].path /\ j \in DOMAIN new
      /\ \A j \in DOMAIN inv : new[j] = inv[j] \/ (new[j].selector = s /\ Menus!Same(inv[j].selector, s))
      /\ \E k \in DOMAIN new : new[k].path = q /\ new[k].selector = s
  <2>1. StagedTo(inv, s, q, new)
    BY StagedTyped
  <2> QED BY <2>1 DEF StagedTo
<1>3. ASSUME NEW p, NEW i \in MenuParts, Top(menu, i) = d, Shows(inv, worn, p, i)
      PROVE  Shows(new, worn, p, i)
  <2>1. PICK j \in DOMAIN inv : inv[j].path = p /\ <<i, Called(inv[j].selector)>> \in worn
    BY <1>3 DEF Shows
  <2>2. CASE new[j] = inv[j]
    BY <1>2, <2>1, <2>2 DEF Shows
  <2>3. CASE new[j].selector = s /\ Menus!Same(inv[j].selector, s)
    <3>1. i = a
      BY <1>3, <2>1, <2>3, SameIs, ApartMeans, Zenon
    <3> QED BY <1>2, <2>1, <2>3, <3>1 DEF Shows
  <2> QED BY <1>2, <2>2, <2>3
<1>4. Right(menu, new, worn, d, q, a)
  <2>1. Shows(new, worn, q, a)
    BY <1>2 DEF Shows
  <2>2. Top(menu, 3) = d \/ Len(q) # 2
    BY RouteIs
  <2>3. 3 \in MenuParts
    BY DEF MenuParts
  <2> QED BY <1>3, <2>1, <2>2, <2>3 DEF Right
<1>5. ASSUME NEW k \in DOMAIN new
      PROVE  \E i \in MenuParts : <<i, Called(new[k].selector)>> \in worn /\ Right(menu, new, worn, d, new[k].path, i)
  <2>1. CASE new[k].path = q /\ new[k].selector = s
    BY <1>4, <2>1
  <2>2. CASE \E j \in DOMAIN inv : new[k] = inv[j]
    <3>1. PICK j \in DOMAIN inv : new[k] = inv[j]
      BY <2>2
    <3>2. PICK i \in MenuParts : <<i, Called(inv[j].selector)>> \in worn /\ Right(menu, inv, worn, d, inv[j].path, i)
      BY DEF Sound
    <3>3. Top(menu, 3) = d \/ Len(inv[j].path) # 2
      BY <3>2, RouteIs DEF Right
    <3>4. 3 \in MenuParts
      BY DEF MenuParts
    <3>5. Right(menu, new, worn, d, inv[j].path, i)
      BY <1>3, <3>2, <3>3, <3>4 DEF Right
    <3> QED BY <3>1, <3>2, <3>5
  <2> QED BY <1>2, <2>1, <2>2
<1> QED BY <1>3, <1>4, <1>5 DEF Sound, Keeps

(* The path of a route of one or two selectors, and the inventory with it. *)
Building(inv, sels, p, mid, q, new) ==
  /\ Staged(inv, <<>>, sels[1], p, mid)
  /\ Len(sels) = 1 => q = p /\ new = mid
  /\ Len(sels) = 2 => Staged(mid, p, sels[2], q, new)
Selecting(sels) == Len(sels) \in {1, 2} /\ \A l \in 1 .. Len(sels) : sels[l] \in Selectors

BuiltTypes(sels, p, mid, q, new) ==
  /\ p \in Paths /\ Len(p) = 1 /\ mid \in Inventories /\ p \in Owned /\ p = <<p[1]>>
  /\ q \in Paths /\ Len(q) = Len(sels) /\ new \in Inventories
  /\ Len(sels) = 2 => <<q[1]>> = p

LEMMA BuildingTyped ==
  ASSUME NEW inv \in Inventories, NEW sels, Selecting(sels), NEW p, NEW mid, NEW q, NEW new,
         Building(inv, sels, p, mid, q, new)
  PROVE  BuiltTypes(sels, p, mid, q, new)
<1>1. /\ Staged(inv, <<>>, sels[1], p, mid) /\ sels[1] \in Selectors
      /\ Len(sels) = 1 => q = p /\ new = mid
      /\ Len(sels) = 2 => Staged(mid, p, sels[2], q, new) /\ sels[2] \in Selectors
  BY DEF Building, Selecting
<1>2. p \in Paths /\ Len(p) = 1
  BY <1>1 DEF Staged
<1>3. mid \in Inventories
  BY <1>1, StagedTyped
<1>4. p[1] \in Keys /\ p = <<p[1]>>
  BY <1>2, PathIs
<1>5. p \in Owned
  BY <1>4 DEF Owned
<1>6. CASE Len(sels) = 1
  BY <1>1, <1>2, <1>3, <1>4, <1>5, <1>6 DEF BuiltTypes
<1>7. CASE Len(sels) = 2
  <2>1. new \in Inventories
    BY <1>1, <1>3, <1>7, StagedTyped
  <2>2. q \in Paths /\ Len(q) = 2 /\ Menus!Front(q) = p
    BY <1>1, <1>2, <1>7 DEF Staged
  <2>3. <<q[1]>> = p
    BY <2>2, PathIs
  <2> QED BY <1>2, <1>3, <1>4, <1>5, <1>7, <2>1, <2>2, <2>3 DEF BuiltTypes
<1> QED BY <1>6, <1>7 DEF Selecting

LEMMA BuiltIs ==
  ASSUME NEW inv \in Inventories, NEW sels, Selecting(sels)
  PROVE  LET r == Menus!BuildPath(inv, sels)
         IN \E p, mid : Building(inv, sels, p, mid, r.path, r.inv)
<1> DEFINE t == Menus!Stage([inv |-> inv, path |-> <<>>], sels[1])
           u == Menus!Stage(t, sels[2])
           r == Menus!BuildPath(inv, sels)
<1>1. r = IF Len(sels) = 1 THEN t ELSE u
  BY DEF Menus!BuildPath
<1>2. sels[1] \in Selectors /\ (Len(sels) = 2 => sels[2] \in Selectors)
  BY DEF Selecting
<1>3. <<>> \in Owned
  BY DEF Owned
<1>4. t = [path |-> t.path, inv |-> t.inv] /\ Staged(inv, <<>>, sels[1], t.path, t.inv)
  <2> HIDE DEF t
  <2> QED BY <1>2, <1>3, StagedIs DEF t
<1> HIDE DEF t, r
<1>5. CASE Len(sels) = 1
  <2>1. r = t
    BY <1>1, <1>5
  <2>2. Building(inv, sels, t.path, t.inv, r.path, r.inv)
    BY <1>4, <1>5, <2>1 DEF Building
  <2> QED BY <2>2 DEF r
<1>6. CASE Len(sels) = 2
  <2>1. t.inv \in Inventories
    BY <1>2, <1>4, StagedTyped
  <2>2. t.path \in Paths /\ Len(t.path) = 1
    BY <1>4 DEF Staged
  <2>3. t.path \in Owned
    BY <2>2, PathIs DEF Owned
  <2> DEFINE v == t.inv
             p == t.path
  <2>4. t = [inv |-> v, path |-> p] /\ v \in Inventories /\ p \in Owned
    BY <1>4, <2>1, <2>3
  <2>5. u = Menus!Stage([inv |-> v, path |-> p], sels[2])
    BY <2>4
  <2> HIDE DEF v, p, u
  <2>6. Staged(v, p, sels[2], u.path, u.inv)
    BY <1>2, <1>6, <2>4, <2>5, StagedIs
  <2>7. r = u
    BY <1>1, <1>6
  <2>8. Building(inv, sels, p, v, r.path, r.inv)
    BY <1>4, <1>6, <2>6, <2>7 DEF Building, v, p
  <2> QED BY <2>8 DEF r
<1> QED BY <1>5, <1>6 DEF Selecting

(* The selectors stand for the route of an item as it once was.            *)
Told(m, i, sels, w) ==
  /\ Selecting(sels) /\ Len(sels) = Len(Way(m, i))
  /\ \A l \in 1 .. Len(sels) : <<Way(m, i)[l], Called(sels[l])>> \in w
(* A path that is new has the key that the selector of its item proposes.  *)
Adding(m, d, inv, new, i, sels, w) ==
  \A k \in DOMAIN new :
    \/ \E j \in DOMAIN inv : inv[j].path = new[k].path
    \/ \E l \in 1 .. Len(sels) :
         /\ Len(new[k].path) = l /\ Menus!Last(new[k].path)[1] = Menus!BaseKey(sels[l])
         /\ Right(m, new, w, d, new[k].path, Way(m, i)[l])

LEMMA BuildingKeeps ==
  ASSUME MenuOk(menu, worn), Alone(menu, worn), NEW i \in MenuParts, NEW d, d = Top(menu, i),
         NEW inv \in Inventories, Sound(menu, d, inv, worn), NEW sels, Told(menu, i, sels, worn),
         NEW p, NEW mid, NEW q, NEW new, Building(inv, sels, p, mid, q, new)
  PROVE  /\ Sound(menu, d, new, worn) /\ Right(menu, new, worn, d, q, i) /\ Keeps(menu, d, inv, new, worn)
         /\ Adding(menu, d, inv, new, i, sels, worn)
<1> DEFINE n == Len(sels)
<1>1. /\ n \in {1, 2} /\ n = Len(Way(menu, i)) /\ Selecting(sels) /\ sels[1] \in Selectors
      /\ Way(menu, i)[n] = i
      /\ Top(menu, Way(menu, i)[1]) = d /\ Len(Way(menu, Way(menu, i)[1])) = 1
      /\ Way(menu, i)[1] \in MenuParts /\ <<Way(menu, i)[1], Called(sels[1])>> \in worn
      /\ n = 2 => Way(menu, i)[1] = 3 /\ sels[2] \in Selectors /\ <<i, Called(sels[2])>> \in worn
  BY RouteIs DEF Told, Selecting
<1>2. /\ p \in Paths /\ Len(p) = 1 /\ mid \in Inventories /\ p \in Owned /\ p = <<p[1]>>
      /\ q \in Paths /\ Len(q) = n /\ new \in Inventories
      /\ n = 2 => <<q[1]>> = p
  <2>1. BuiltTypes(sels, p, mid, q, new)
    BY <1>1, BuildingTyped
  <2> QED BY <2>1 DEF BuiltTypes
<1> DEFINE a == Way(menu, i)[1]
<1>3. /\ Staged(inv, <<>>, sels[1], p, mid)
      /\ n = 1 => q = p /\ new = mid
      /\ n = 2 => Staged(mid, p, sels[2], q, new)
  BY DEF Building
<1> HIDE DEF n, a
<1>4. Sound(menu, d, mid, worn) /\ Right(menu, mid, worn, d, p, a) /\ Keeps(menu, d, inv, mid, worn)
  <2>1. a \in MenuParts /\ Top(menu, a) = d /\ <<a, Called(sels[1])>> \in worn /\ Len(p) = Len(Way(menu, a))
    BY <1>1, <1>2 DEF a
  <2>2. PICK s \in Selectors : s = sels[1]
    BY <1>1
  <2>3. PICK e : e = <<>>
    OBVIOUS
  <2>4. Staged(inv, e, s, p, mid) /\ <<a, Called(s)>> \in worn /\ ~ (Len(p) = 2)
    BY <1>2, <1>3, <2>1, <2>2, <2>3
  <2> QED BY <2>1, <2>4, StagedKeeps
<1>5. Adding(menu, d, inv, mid, i, sels, worn)
  <2> SUFFICES ASSUME NEW k \in DOMAIN mid, ~ \E j \in DOMAIN inv : inv[j].path = mid[k].path
               PROVE  \E l \in 1 .. Len(sels) :
                        /\ Len(mid[k].path) = l /\ Menus!Last(mid[k].path)[1] = Menus!BaseKey(sels[l])
                        /\ Right(menu, mid, worn, d, mid[k].path, Way(menu, i)[l])
    BY DEF Adding
  <2>1. StagedTo(inv, sels[1], p, mid)
    BY <1>1, <1>3, StagedTyped
  <2>2. mid[k].path = p
    BY <2>1 DEF StagedTo
  <2>3. Menus!Last(p)[1] = Menus!BaseKey(sels[1])
    BY <1>3, <2>2 DEF Staged, Known, AddedNode
  <2>4. 1 \in 1 .. Len(sels)
    BY <1>1 DEF n
  <2> QED BY <1>2, <1>4, <2>2, <2>3, <2>4 DEF a
<1>6. CASE n = 1
  <2>1. a = i
    BY <1>1, <1>6 DEF a
  <2> QED BY <1>3, <1>4, <1>5, <1>6, <2>1
<1>7. CASE n = 2
  <2>1. Shows(mid, worn, <<q[1]>>, 3)
    BY <1>1, <1>2, <1>4, <1>7 DEF Right, a
  <2>2. /\ Staged(mid, p, sels[2], q, new) /\ sels[2] \in Selectors /\ <<i, Called(sels[2])>> \in worn
        /\ Len(q) = Len(Way(menu, i))
    BY <1>1, <1>2, <1>3, <1>7
  <2>3. Sound(menu, d, new, worn) /\ Right(menu, new, worn, d, q, i) /\ Keeps(menu, d, mid, new, worn)
    BY <1>2, <1>4, <2>1, <2>2, StagedKeeps
  <2>4. Keeps(menu, d, inv, new, worn)
    BY <1>4, <2>3 DEF Keeps
  <2>5. StagedTo(mid, sels[2], q, new)
    BY <1>2, <2>2, StagedTyped
  <2>6. ASSUME NEW k \in DOMAIN new, ~ \E j \in DOMAIN inv : inv[j].path = new[k].path
        PROVE  \E l \in 1 .. Len(sels) :
                 /\ Len(new[k].path) = l /\ Menus!Last(new[k].path)[1] = Menus!BaseKey(sels[l])
                 /\ Right(menu, new, worn, d, new[k].path, Way(menu, i)[l])
    <3>1. CASE \E j \in DOMAIN mid : mid[j].path = new[k].path
      <4>1. PICK j \in DOMAIN mid : mid[j].path = new[k].path
        BY <3>1
      <4>2. PICK l \in 1 .. Len(sels) :
               /\ Len(mid[j].path) = l /\ Menus!Last(mid[j].path)[1] = Menus!BaseKey(sels[l])
               /\ Right(menu, mid, worn, d, mid[j].path, Way(menu, i)[l])
        BY <1>5, <2>6, <4>1 DEF Adding
      <4>3. Way(menu, i)[l] \in MenuParts /\ 3 \in MenuParts
        BY <1>1, <1>7, RouteIs DEF n, MenuParts
      <4>4. Top(menu, 3) = d
        BY <1>1, <1>7
      <4>5. Right(menu, new, worn, d, mid[j].path, Way(menu, i)[l])
        BY <2>3, <4>2, <4>3, <4>4 DEF Right, Keeps
      <4> QED BY <4>1, <4>2, <4>5
    <3>2. CASE ~ \E j \in DOMAIN mid : mid[j].path = new[k].path
      <4>1. new[k].path = q
        BY <2>5, <3>2 DEF StagedTo
      <4>2. Menus!Last(q)[1] = Menus!BaseKey(sels[2])
        BY <2>2, <3>2, <4>1 DEF Staged, Known, AddedNode
      <4>3. 2 \in 1 .. Len(sels) /\ Way(menu, i)[2] = i
        BY <1>1, <1>7 DEF n
      <4> QED BY <1>2, <1>7, <2>3, <4>1, <4>2, <4>3
    <3> QED BY <3>1, <3>2
  <2>7. Adding(menu, d, inv, new, i, sels, worn)
    BY <2>6 DEF Adding
  <2> QED BY <2>3, <2>4, <2>7
<1> QED BY <1>1, <1>6, <1>7

(* A route whose last selector no node has leads to a new path.            *)
LEMMA ProposedIsNew ==
  ASSUME NEW inv \in Inventories, NEW sels, Selecting(sels), NEW p, NEW mid, NEW q, NEW new,
         Building(inv, sels, p, mid, q, new),
         \A j \in DOMAIN inv : ~ Menus!Same(inv[j].selector, sels[Len(sels)])
  PROVE  /\ \A j \in DOMAIN inv : inv[j].path # q
         /\ Menus!Last(q)[1] = Menus!BaseKey(sels[Len(sels)])
<1>1. /\ p \in Paths /\ Len(p) = 1 /\ mid \in Inventories /\ sels[1] \in Selectors
      /\ q \in Paths /\ Len(q) = Len(sels)
  <2>1. BuiltTypes(sels, p, mid, q, new)
    BY BuildingTyped
  <2> QED BY <2>1 DEF BuiltTypes, Selecting
<1>2. CASE Len(sels) = 1
  BY <1>2 DEF Building, Staged, Known, AddedNode
<1>3. CASE Len(sels) = 2
  <2>1. Staged(mid, p, sels[2], q, new) /\ StagedTo(inv, sels[1], p, mid)
    BY <1>1, <1>3, StagedTyped DEF Building
  <2>2. ASSUME NEW k \in DOMAIN mid, mid[k].path = q PROVE ~ Menus!Same(mid[k].selector, sels[2])
    <3>1. mid[k].path # p
      BY <1>1, <1>3, <2>2
    <3>2. PICK j \in DOMAIN inv : mid[k] = inv[j]
      BY <2>1, <3>1 DEF StagedTo
    <3> QED BY <1>3, <3>2
  <2>3. AddedNode(mid, p, sels[2], q, new)
    BY <2>1, <2>2 DEF Staged, Known
  <2>4. \A j \in DOMAIN inv : inv[j].path # q
    BY <2>1, <2>3 DEF StagedTo, AddedNode
  <2> QED BY <1>3, <2>3, <2>4 DEF AddedNode
<1> QED BY <1>2, <1>3 DEF Selecting

Owning(m, i) == {d \in {1, 2} : m[d].text = m[Top(m, i)].text}
Has(inv, p) == \E k \in DOMAIN inv : inv[k].path = p

(* What the session recorded: an item, its route and what it was called;   *)
(* and a path, unless there is none or several.                            *)
Recordings ==
  [item : {4, 5}, target : SUBSET ({1, 2} \X Paths), owners : SUBSET {1, 2}, selectors : Seq(Selectors),
   route : Seq(MenuParts), rivals : SUBSET (1 .. 5)]
Selected(m, w, e) ==
  /\ e.owners = Owning(m, e.item) /\ e.route = Way(m, e.item) /\ Told(m, e.item, e.selectors, w)
  /\ \A t \in e.target : t[1] = Top(m, e.item) /\ Owning(m, e.item) = {t[1]}
(* A path that exists when it is reviewed is that of the item, or an       *)
(* earlier selection had the same key.                                     *)
Proposed(m, w, v, e) ==
  \A t \in e.target :
    /\ Has(v[t[1]], t[2]) => Right(m, v[t[1]], w, t[1], t[2], e.item) \/ e.rivals # {}
    /\ \/ Has(v[t[1]], t[2])
       \/ /\ Len(t[2]) = Len(e.route)
          /\ Menus!Last(t[2])[1] = Menus!BaseKey(e.selectors[Len(e.route)])
Rival(m, e, f) ==
  \E k \in 1 .. Len(e.route), l \in 1 .. Len(f.route) :
    /\ e.route[k] # f.route[l] /\ m[e.route[k]].parent = m[f.route[l]].parent
    /\ Menus!BaseKey(e.selectors[k]) = Menus!BaseKey(f.selectors[l])
RecordedInv(m, w, v, q) ==
  /\ q \in Seq(Recordings)
  /\ \A k \in 1 .. Len(q) : Selected(m, w, q[k])
  /\ Alone(m, w) => \A k \in 1 .. Len(q) : Proposed(m, w, v, q[k])
  /\ \A j, k \in 1 .. Len(q) : j < k /\ Rival(m, q[j], q[k]) => q[k].rivals # {}

(* The path of a step leads to the item, as long as no two items of a menu *)
(* have ever been called the same.                                         *)
MenuSteps ==
  [owner : {1, 2}, path : Paths, item : {4, 5}, route : Seq(MenuParts), rivals : SUBSET (1 .. 5)]
Leads(m, w, v, s) ==
  /\ s.owner = Top(m, s.item) /\ Owning(m, s.item) = {s.owner} /\ s.route = Way(m, s.item)
  /\ Alone(m, w) /\ s.rivals = {} => Right(m, v[s.owner], w, s.owner, s.path, s.item)
LeadsInv(m, w, v, ss) == ss \in Seq(MenuSteps) /\ \A k \in 1 .. Len(ss) : Leads(m, w, v, ss[k])

(* What was replayed followed what the items had been called.              *)
Fires(m, w, s, r) ==
  Alone(m, w) /\ s.rivals = {} =>
    /\ Len(r.selectors) = Len(s.route)
    /\ \A k \in 1 .. Len(s.route) : <<s.route[k], Called(r.selectors[k])>> \in w
    /\ (\A k \in 1 .. Len(s.route) : Called(m[s.route[k]]) = Called(r.selectors[k])) => r.item = s.item
FiresInv(m, w, ss, r) == r.step \in 0 .. Len(ss) /\ (r.step > 0 => Fires(m, w, ss[r.step], r))

(* The repository: paths are unique, and each is that of an item.          *)
RepositoryInv(m, w, v) ==
  /\ v \in [{1, 2} -> Inventories]
  /\ Alone(m, w) => \A d \in {1, 2} : Sound(m, d, v[d], w)
SnapshotInv(v, s) == s.recording => s.inventory = v

MenusInv ==
  /\ MenuOk(menu, worn) /\ RepositoryInv(menu, worn, inventory) /\ SnapshotInv(inventory, snapshot)
  /\ RecordedInv(menu, worn, inventory, interactions)
  /\ LeadsInv(menu, worn, inventory, steps) /\ FiresInv(menu, worn, steps, replayed)

LEMMA MenuIs ==
  ASSUME MenuOk(menu, worn)
  PROVE  /\ \A i \in 1 .. 5 : Menus!Route(i) = Way(menu, i) /\ Menus!TopOf(i) = Top(menu, i)
         /\ \A i \in MenuParts : Menus!Owners(i) = Owning(menu, i) /\ Top(menu, i) \in Owning(menu, i)
         /\ Menus!Apart <=> Alone(menu, worn)
         /\ \A d \in {1, 2} : \A e \in {1, 2} : Menus!Caption(d) = Menus!Caption(e) <=> menu[d].text = menu[e].text
<1>1. \A i : Menus!Route(i) = Way(menu, i)
  BY DEF Menus!Route, Menus!Tops, Way
<1>2. \A i : Menus!TopOf(i) = Top(menu, i)
  BY <1>1 DEF Menus!TopOf, Top
<1>3. ASSUME NEW i \in MenuParts
      PROVE  Menus!Owners(i) = Owning(menu, i) /\ Top(menu, i) \in Owning(menu, i)
  <2>1. PICK t \in {1, 2} : t = Top(menu, i)
    BY RouteIs
  <2>2. \A d \in {1, 2} : menu[d].id = "" /\ menu[d].text # ""
    BY Zenon DEF MenuOk
  <2>3. \A d \in {1, 2} : Menus!IsOwner(d, t) <=> menu[d].text = menu[t].text
    BY <2>2, Zenon DEF Menus!IsOwner, Menus!Caption, Menus!None
  <2>4. Menus!Owners(i) = {d \in {1, 2} : Menus!IsOwner(d, t)}
    BY <1>2, <2>1 DEF Menus!Owners, Menus!Tops
  <2>5. Owning(menu, i) = {d \in {1, 2} : menu[d].text = menu[t].text}
    BY <2>1 DEF Owning
  <2> QED BY <2>1, <2>3, <2>4, <2>5
<1>4. Menus!Apart <=> Alone(menu, worn)
  BY <1>2, Zenon DEF Menus!Apart, Alone, Menus!None
<1>5. ASSUME NEW d \in {1, 2}, NEW e \in {1, 2}
      PROVE  Menus!Caption(d) = Menus!Caption(e) <=> menu[d].text = menu[e].text
  <2>1. menu[d].id = menu[e].id
    BY Zenon DEF MenuOk
  <2> QED BY <2>1 DEF Menus!Caption
<1> QED BY <1>1, <1>2, <1>3, <1>4, <1>5

LEMMA MenusStart == Menus!Init => MenusInv
<1> SUFFICES ASSUME Menus!Init PROVE MenusInv
  OBVIOUS
<1>1. PICK c4 \in Menus!Captions, c5 \in Menus!Captions, p4 \in {1, 2, 3}, p5 \in {1, 3}, second \in {"i", "Find"} :
        LET caption == Menus!Labelled(c4, c5, [id |-> "", text |-> "Find"], second)
            above == [i \in Menus!Items |-> CASE i = 4 -> p4 [] i = 5 -> p5 [] i = 3 -> 1 [] OTHER -> 0]
        IN /\ menu = [i \in Menus!Items |-> [parent |-> above[i], id |-> caption[i].id,
                                             text |-> caption[i].text, place |-> i]]
           /\ worn = {<<i, caption[i]>> : i \in Menus!Items \ Menus!Tops}
  BY Zenon DEF Menus!Init, Menus!None, Menus!Sub, Menus!Bar
<1>3. Menus!Items = 1 .. 5 /\ Menus!Items \ Menus!Tops = MenuParts
  BY DEF Menus!Items, Menus!Tops, Menus!Leaves, Menus!Sub, MenuParts
<1>4. \A c \in Menus!Captions : c \in [id : Words, text : Words] /\ (c.id # "" \/ c.text # "")
  <2> TAKE c \in Menus!Captions
  <2>1. PICK x \in Words, y \in Words : c = [id |-> x, text |-> y] /\ (x # "" \/ y # "")
    BY Zenon DEF Menus!Captions, Menus!None, Words
  <2> QED BY <2>1, Zenon
<1> DEFINE caption == Menus!Labelled(c4, c5, [id |-> "", text |-> "Find"], second)
<1>5. /\ caption[1].id = "" /\ caption[1].text # "" /\ caption[2].id = "" /\ caption[2].text # ""
      /\ caption[3] = [id |-> "", text |-> "Find"] /\ caption[4] = c4 /\ caption[5] = c5
      /\ \A i \in 1 .. 5 : caption[i] \in [id : Words, text : Words]
  <2> DEFINE t1 == [id |-> "", text |-> "i"]
             t2 == [id |-> "", text |-> second]
             t3 == [id |-> "", text |-> "Find"]
  <2>12. caption = [i \in 1 .. 5 |-> CASE i = 4 -> c4 [] i = 5 -> c5 [] i = 3 -> t3 [] i = 1 -> t1 [] OTHER -> t2]
    BY <1>3 DEF Menus!Labelled, Menus!Sub, Menus!None
  <2> HIDE DEF caption, t1, t2, t3
  <2>13. caption[4] = c4 /\ caption[5] = c5 /\ caption[3] = t3 /\ caption[1] = t1 /\ caption[2] = t2
    BY <2>12
  <2>2. caption[4] = c4 /\ caption[5] = c5 /\ caption[3] = [id |-> "", text |-> "Find"]
    BY <2>13, Zenon DEF t1, t2, t3
  <2>3. \A x \in {"i", "Find"} :
           /\ [id |-> "", text |-> x].id = "" /\ [id |-> "", text |-> x].text # ""
           /\ [id |-> "", text |-> x] \in [id : Words, text : Words]
    BY Zenon DEF Words
  <2>4. caption[1] = [id |-> "", text |-> "i"]
    BY <2>13, Zenon DEF t1, t2, t3
  <2>5. caption[2] = [id |-> "", text |-> second]
    BY <2>13, Zenon DEF t1, t2, t3
  <2>6. c4 \in [id : Words, text : Words] /\ c5 \in [id : Words, text : Words]
    BY <1>4, Zenon
  <2>7. \A i \in 1 .. 5 : i = 1 \/ i = 2 \/ i = 3 \/ i = 4 \/ i = 5
    OBVIOUS
  <2>8. caption[1] \in [id : Words, text : Words] /\ caption[1].id = "" /\ caption[1].text # ""
    BY <2>3, <2>4, Zenon
  <2>9. caption[2] \in [id : Words, text : Words] /\ caption[2].id = "" /\ caption[2].text # ""
    BY <2>3, <2>5, Zenon
  <2>10. caption[3] \in [id : Words, text : Words]
    BY <2>2, <2>3, Zenon
  <2> QED BY <2>2, <2>6, <2>7, <2>8, <2>9, <2>10, Zenon
<1> HIDE DEF caption
<1> DEFINE above == [i \in Menus!Items |-> CASE i = 4 -> p4 [] i = 5 -> p5 [] i = 3 -> 1 [] OTHER -> 0]
<1>6. /\ above[1] = 0 /\ above[2] = 0 /\ above[3] = 1 /\ above[4] = p4 /\ above[5] = p5
      /\ \A i \in 1 .. 5 : above[i] \in 0 .. 5
  BY <1>3
<1> HIDE DEF above
<1>7. /\ menu = [i \in 1 .. 5 |-> [parent |-> above[i], id |-> caption[i].id,
                                   text |-> caption[i].text, place |-> i]]
      /\ worn = {<<i, caption[i]>> : i \in MenuParts}
  BY <1>1, <1>3, Zenon DEF above, caption
<1>8. MenuOk(menu, worn)
  <2>1. menu \in [1 .. 5 -> [parent : 0 .. 5, id : Words, text : Words, place : 1 .. 5]]
    BY <1>5, <1>6, <1>7, Zenon
  <2>2. /\ menu[1].parent = 0 /\ menu[2].parent = 0 /\ menu[3].parent = 1
        /\ menu[4].parent \in {1, 2, 3} /\ menu[5].parent \in {1, 2, 3}
        /\ \A t \in {1, 2} : menu[t].id = "" /\ menu[t].text # ""
    <3>1. \A i \in 1 .. 5 : /\ menu[i].parent = above[i] /\ menu[i].id = caption[i].id
                            /\ menu[i].text = caption[i].text
      BY <1>7
    <3>2. /\ menu[1].parent = above[1] /\ menu[2].parent = above[2] /\ menu[3].parent = above[3]
          /\ menu[4].parent = above[4] /\ menu[5].parent = above[5]
      BY <3>1
    <3>3. /\ menu[1].id = caption[1].id /\ menu[1].text = caption[1].text
          /\ menu[2].id = caption[2].id /\ menu[2].text = caption[2].text
      BY <3>1
    <3>4. \A t \in {1, 2} : menu[t].id = "" /\ menu[t].text # ""
      BY <1>5, <3>3, Zenon
    <3> QED BY <1>6, <3>2, <3>4, Zenon
  <2>3. \A i \in MenuParts : caption[i] \in [id : Words, text : Words] /\ (caption[i].id # "" \/ caption[i].text # "")
    <3> TAKE i \in MenuParts
    <3>1. caption[i] = c4 \/ caption[i] = c5 \/ caption[i] = [id |-> "", text |-> "Find"]
      BY <1>5, Zenon DEF MenuParts
    <3>2. i \in 1 .. 5
      BY DEF MenuParts
    <3>3. caption[i] \in [id : Words, text : Words]
      BY <1>5, <3>2, Zenon
    <3>4. c4.id # "" \/ c4.text # ""
      BY <1>4, Zenon
    <3>5. c5.id # "" \/ c5.text # ""
      BY <1>4, Zenon
    <3>6. [id |-> "", text |-> "Find"].text # ""
      OBVIOUS
    <3>7. caption[i].id # "" \/ caption[i].text # ""
      BY <3>1, <3>4, <3>5, <3>6, Zenon
    <3> QED BY <3>3, <3>7, Zenon
  <2>4. worn \subseteq MenuParts \X [id : Words, text : Words] /\ \A x \in worn : x[2].id # "" \/ x[2].text # ""
    <3> SUFFICES ASSUME NEW x \in worn
                 PROVE  x \in MenuParts \X [id : Words, text : Words] /\ (x[2].id # "" \/ x[2].text # "")
      BY Zenon
    <3>1. PICK i \in MenuParts : x = <<i, caption[i]>>
      BY <1>7
    <3> QED BY <2>3, <3>1, Zenon
  <2>5. \A i \in MenuParts : <<i, Called(menu[i])>> \in worn
    <3> TAKE i \in MenuParts
    <3>1. Called(menu[i]) = caption[i]
      <4>1. menu[i].id = caption[i].id /\ menu[i].text = caption[i].text
        BY <1>7 DEF MenuParts
      <4>2. caption[i] = [id |-> caption[i].id, text |-> caption[i].text]
        BY <2>3, Zenon
      <4> QED BY <4>1, <4>2 DEF Called
    <3>2. <<i, caption[i]>> \in worn
      BY <1>7
    <3> QED BY <3>1, <3>2
  <2> QED BY <2>1, <2>2, <2>4, <2>5, Zenon DEF MenuOk
<1>9. inventory = [d \in {1, 2} |-> <<>>] /\ interactions = <<>> /\ steps = <<>> /\ replayed.step = 0
      /\ snapshot = [recording |-> FALSE, inventory |-> inventory]
  BY DEF Menus!Init, Menus!Tops, Menus!NoReplay, Menus!Idle
<1>10. <<>> \in Inventories /\ \A d : Sound(menu, d, <<>>, worn)
  BY DEF Inventories, Sound
<1>11. RepositoryInv(menu, worn, inventory)
  BY <1>9, <1>10 DEF RepositoryInv
<1>12. RecordedInv(menu, worn, inventory, interactions)
  BY <1>9 DEF RecordedInv
<1>13. LeadsInv(menu, worn, inventory, steps) /\ FiresInv(menu, worn, steps, replayed)
  BY <1>9 DEF LeadsInv, FiresInv
<1>14. SnapshotInv(inventory, snapshot)
  BY <1>9 DEF SnapshotInv
<1> QED BY <1>8, <1>11, <1>12, <1>13, <1>14 DEF MenusInv

LEMMA RecordingKeeps ==
  ASSUME MenusInv, Menus!StartRecording \/ Menus!StopRecording
  PROVE  MenusInv'
<1>1. UNCHANGED <<menu, inventory, interactions, steps, replayed, worn>>
  BY DEF Menus!StartRecording, Menus!StopRecording
<1>2. SnapshotInv(inventory', snapshot')
  BY DEF Menus!StartRecording, Menus!StopRecording, Menus!Idle, SnapshotInv
<1> QED BY <1>1, <1>2 DEF MenusInv

LEMMA SelectorsAre ==
  ASSUME MenuOk(menu, worn), NEW i \in {4, 5}
  PROVE  LET sels == Menus!Selectors(i)
             n == Len(Way(menu, i))
         IN /\ Told(menu, i, sels, worn) /\ Selecting(sels) /\ Len(sels) = n /\ n \in {1, 2}
            /\ sels \in Seq(Selectors) /\ Way(menu, i) \in Seq(MenuParts)
            /\ \A l \in 1 .. n : Menus!BaseKey(sels[l]) = Menus!BaseKey(menu[Way(menu, i)[l]])
            /\ sels[n].id = menu[i].id /\ sels[n].text = menu[i].text
<1> DEFINE sels == Menus!Selectors(i)
           way == Way(menu, i)
           n == Len(way)
<1>1. i \in MenuParts /\ i \in 1 .. 5
  BY DEF MenuParts
<1>2. /\ n \in {1, 2} /\ DOMAIN way = 1 .. n /\ \A l \in 1 .. n : way[l] \in MenuParts /\ way[n] = i
  BY <1>1, RouteIs
<1>3. sels = [l \in 1 .. n |-> Menus!Selector(way[l])]
  BY <1>1, <1>2, MenuIs DEF Menus!Selectors
<1> HIDE DEF sels
<1>4. ASSUME NEW l \in 1 .. n
      PROVE  /\ sels[l] \in Selectors /\ sels[l].id = menu[way[l]].id /\ sels[l].text = menu[way[l]].text
             /\ <<way[l], Called(sels[l])>> \in worn
             /\ Menus!BaseKey(sels[l]) = Menus!BaseKey(menu[way[l]])
  <2>1. PICK j \in MenuParts : j = way[l]
    BY <1>2
  <2>2. sels[l] = Menus!Selector(j)
    BY <1>3, <2>1
  <2>3. j \in 1 .. 5 /\ menu[j] \in [parent : 0 .. 5, id : Words, text : Words, place : 1 .. 5]
    <3>1. menu \in [1 .. 5 -> [parent : 0 .. 5, id : Words, text : Words, place : 1 .. 5]]
      BY Zenon DEF MenuOk
    <3>2. j \in 1 .. 5
      BY DEF MenuParts
    <3> QED BY <3>1, <3>2
  <2>4. Menus!Selector(j) = [id |-> menu[j].id, text |-> menu[j].text, place |-> menu[j].place]
    BY DEF Menus!Selector
  <2>5. Menus!Items = 1 .. 5
    BY DEF Menus!Items, Menus!Tops, Menus!Leaves, Menus!Sub
  <2>6. sels[l] \in Selectors
    BY <2>2, <2>3, <2>4, <2>5 DEF Selectors
  <2>7. sels[l].id = menu[j].id /\ sels[l].text = menu[j].text
    BY <2>2, <2>4
  <2>8. Called(sels[l]) = Called(menu[j])
    BY <2>7 DEF Called
  <2>9. <<j, Called(menu[j])>> \in worn
    BY Zenon DEF MenuOk
  <2>10. Menus!BaseKey(sels[l]) = Menus!BaseKey(menu[j])
    BY <2>7 DEF Menus!BaseKey
  <2> QED BY <2>1, <2>6, <2>7, <2>8, <2>9, <2>10
<1>5. sels \in Seq(Selectors) /\ Len(sels) = n
  <2>1. sels = [l \in 1 .. n |-> sels[l]] /\ n \in Nat
    BY <1>2, <1>3
  <2>2. sels \in [1 .. n -> Selectors]
    BY <1>4, <2>1
  <2> HIDE DEF n
  <2>3. sels \in Seq(Selectors)
    BY <2>1, <2>2
  <2>4. Len(sels) = n
    BY <2>1, <2>2, <2>3, LenProperties
  <2> QED BY <2>3, <2>4
<1>6. way \in Seq(MenuParts)
  <2>1. way = <<i>> \/ way = <<menu[i].parent, i>>
    BY DEF Way
  <2>2. way = <<way[1]>> \/ way = <<way[1], way[2]>>
    BY <2>1
  <2> HIDE DEF way
  <2>3. \A l \in 1 .. n : way[l] \in MenuParts
    BY <1>2
  <2>4. n = 1 \/ n = 2
    BY <1>2
  <2>5. CASE way = <<way[1]>>
    <3>1. way[1] \in MenuParts
      BY <1>2
    <3> QED BY <2>5, <3>1
  <2>6. CASE way = <<way[1], way[2]>>
    <3>1. n = 2
      BY <2>6
    <3>2. way[1] \in MenuParts /\ way[2] \in MenuParts
      BY <1>2, <3>1
    <3>3. \A a, b \in MenuParts : <<a, b>> \in Seq(MenuParts)
      OBVIOUS
    <3>4. <<way[1], way[2]>> \in Seq(MenuParts)
      BY <3>2, <3>3
    <3> QED BY <2>6, <3>4
  <2> QED BY <2>2, <2>5, <2>6
<1>7. Selecting(sels)
  BY <1>2, <1>4, <1>5 DEF Selecting
<1>8. Told(menu, i, sels, worn)
  BY <1>4, <1>5, <1>7 DEF Told
<1>9. n \in 1 .. n
  BY <1>2
<1>10. sels[n].id = menu[i].id /\ sels[n].text = menu[i].text
  BY <1>2, <1>4, <1>9
<1>11. /\ Told(menu, i, sels, worn) /\ Selecting(sels) /\ Len(sels) = n /\ n \in {1, 2}
       /\ sels \in Seq(Selectors) /\ way \in Seq(MenuParts)
       /\ \A l \in 1 .. n : Menus!BaseKey(sels[l]) = Menus!BaseKey(menu[way[l]])
       /\ sels[n].id = menu[i].id /\ sels[n].text = menu[i].text
  BY <1>2, <1>4, <1>5, <1>6, <1>7, <1>8, <1>10
<1> QED BY <1>11 DEF sels

LEMMA SameCalled ==
  ASSUME NEW a, NEW s, NEW t, s.id = t.id, s.text = t.text
  PROVE  Menus!Same(a, s) <=> Menus!Same(a, t)
<1>1. \A f \in {"id", "text"} : s[f] = t[f]
  OBVIOUS
<1> DEFINE sharedS == {f \in {"id", "text"} : a[f] # "" /\ s[f] # ""}
           sharedT == {f \in {"id", "text"} : a[f] # "" /\ t[f] # ""}
<1>2. sharedS = sharedT
  BY <1>1, Zenon
<1>3. \A f \in sharedS : f \in {"id", "text"}
  BY Zenon
<1>4. Menus!Same(a, s) <=> sharedS # {} /\ \A f \in sharedS : a[f] = s[f]
  BY DEF Menus!Same, Menus!None
<1>5. Menus!Same(a, t) <=> sharedT # {} /\ \A f \in sharedT : a[f] = t[f]
  BY DEF Menus!Same, Menus!None
<1> HIDE DEF sharedS, sharedT
<1> QED BY <1>1, <1>2, <1>3, <1>4, <1>5

LEMMA PathsToAre ==
  ASSUME NEW v, NEW d, NEW i, NEW p \in Menus!PathsTo(v, d, i)
  PROVE  \/ \E k \in DOMAIN v[d] : v[d][k].path = p /\ Menus!Same(v[d][k].selector, Menus!Caption(i))
         \/ /\ \A k \in DOMAIN v[d] : ~ Menus!Same(v[d][k].selector, Menus!Caption(i))
            /\ p = Menus!BuildPath(v[d], Menus!Selectors(i)).path
<1> DEFINE same == {n \in Menus!Range(v[d]) : Menus!Same(n.selector, Menus!Caption(i))}
           paths == {n.path : n \in same}
<1>1. Menus!PathsTo(v, d, i) = IF paths # {} THEN paths ELSE {Menus!BuildPath(v[d], Menus!Selectors(i)).path}
  BY DEF Menus!PathsTo
<1>2. \A n \in same : \E k \in DOMAIN v[d] : n = v[d][k] /\ Menus!Same(v[d][k].selector, Menus!Caption(i))
  BY DEF Menus!Range
<1>3. \A k \in DOMAIN v[d] : Menus!Same(v[d][k].selector, Menus!Caption(i)) => v[d][k] \in same
  BY DEF Menus!Range
<1> HIDE DEF same
<1>4. CASE same # {}
  <2>1. paths # {}
    BY <1>4
  <2>2. PICK n \in same : p = n.path
    BY <1>1, <2>1
  <2> QED BY <1>2, <2>2
<1>5. CASE same = {}
  <2>1. paths = {}
    BY <1>5
  <2> QED BY <1>1, <1>3, <1>5, <2>1
<1> QED BY <1>4, <1>5

(* What the session says of a selection, when it is made.                  *)
LEMMA PickTargets ==
  ASSUME MenuOk(menu, worn), RepositoryInv(menu, worn, inventory), NEW i \in {4, 5},
         NEW t \in UNION {{<<d, path>> : path \in Menus!PathsTo(inventory, d, i)} : d \in Menus!Owners(i)}
  PROVE  LET v == inventory
             sels == Menus!Selectors(i)
             n == Len(Way(menu, i))
         IN /\ t[1] \in Owning(menu, i) /\ t[1] \in {1, 2} /\ t \in {1, 2} \X Paths
            /\ (Has(v[t[1]], t[2]) /\ Alone(menu, worn) /\ t[1] = Top(menu, i))
                 => Right(menu, v[t[1]], worn, t[1], t[2], i)
            /\ Has(v[t[1]], t[2]) \/ (Len(t[2]) = n /\ Menus!Last(t[2])[1] = Menus!BaseKey(sels[n]))
<1> DEFINE v == inventory
           sels == Menus!Selectors(i)
           n == Len(Way(menu, i))
<1>10. PICK d \in Menus!Owners(i) : t \in {<<d, path>> : path \in Menus!PathsTo(v, d, i)}
  OBVIOUS
<1>1. PICK p \in Menus!PathsTo(v, d, i) : t = <<d, p>>
  BY <1>10
<1>2. i \in MenuParts /\ Menus!Owners(i) = Owning(menu, i)
  BY MenuIs DEF MenuParts
<1>3. d \in Owning(menu, i) /\ d \in {1, 2} /\ t[1] = d /\ t[2] = p
  BY <1>1, <1>2 DEF Owning
<1>4. v[d] \in Inventories
  BY <1>3 DEF RepositoryInv
<1>5. /\ v[d] \in Seq(MenuNodes) /\ DOMAIN v[d] = 1 .. Len(v[d])
      /\ \A j, k \in 1 .. Len(v[d]) : v[d][j].path = v[d][k].path => j = k
  BY <1>4 DEF Inventories
<1>6. /\ Told(menu, i, sels, worn) /\ Selecting(sels) /\ Len(sels) = n /\ n \in {1, 2}
      /\ sels[n].id = menu[i].id /\ sels[n].text = menu[i].text
  BY SelectorsAre
<1>7. \A k \in DOMAIN v[d] : Menus!Same(v[d][k].selector, sels[n]) <=> Menus!Same(v[d][k].selector, Menus!Caption(i))
  <2> TAKE k \in DOMAIN v[d]
  <2>1. Menus!Caption(i).id = sels[n].id /\ Menus!Caption(i).text = sels[n].text
    BY <1>6 DEF Menus!Caption
  <2> HIDE DEF sels, n
  <2> QED BY <2>1, SameCalled
<1> HIDE DEF sels, n
<1>8. CASE \E k \in DOMAIN v[d] : v[d][k].path = p /\ Menus!Same(v[d][k].selector, Menus!Caption(i))
  <2>1. PICK k \in DOMAIN v[d] : v[d][k].path = p /\ Menus!Same(v[d][k].selector, Menus!Caption(i))
    BY <1>8
  <2>2. Has(v[d], p)
    BY <2>1 DEF Has
  <2>3. p \in Paths
    <3>1. v[d][k] \in MenuNodes
      BY <1>5
    <3> QED BY <2>1, <3>1 DEF MenuNodes
  <2>4. ASSUME Alone(menu, worn), d = Top(menu, i) PROVE Right(menu, v[d], worn, d, p, i)
    <3>1. Sound(menu, d, v[d], worn)
      BY <1>3, <2>4 DEF RepositoryInv
    <3>2. PICK j \in MenuParts : /\ <<j, Called(v[d][k].selector)>> \in worn
                                /\ Right(menu, v[d], worn, d, v[d][k].path, j)
      BY <3>1 DEF Sound
    <3>3. Top(menu, j) = Top(menu, i)
      BY <2>4, <3>2 DEF Right
    <3>4. <<i, Called(Menus!Caption(i))>> \in worn
      <4>1. Called(Menus!Caption(i)) = Called(menu[i])
        BY DEF Called, Menus!Caption
      <4> QED BY <1>2, <4>1, Zenon DEF MenuOk
    <3>5. j = i
      BY <2>1, <2>4, <3>2, <3>3, <3>4, SameIs, ApartMeans, Zenon
    <3> QED BY <2>1, <3>2, <3>5
  <2> QED BY <1>1, <1>3, <2>2, <2>3, <2>4
<1>9. CASE /\ \A k \in DOMAIN v[d] : ~ Menus!Same(v[d][k].selector, Menus!Caption(i))
           /\ p = Menus!BuildPath(v[d], sels).path
  <2> DEFINE r == Menus!BuildPath(v[d], sels)
  <2>1. PICK q, mid : Building(v[d], sels, q, mid, r.path, r.inv)
    BY <1>4, <1>6, BuiltIs
  <2>2. r.path = p
    BY <1>9
  <2> HIDE DEF r
  <2>3. p \in Paths /\ Len(p) = n
    <3>1. BuiltTypes(sels, q, mid, r.path, r.inv)
      BY <1>4, <1>6, <2>1, BuildingTyped
    <3> QED BY <1>6, <2>2, <3>1 DEF BuiltTypes
  <2>4. /\ \A j \in DOMAIN v[d] : v[d][j].path # p
        /\ Menus!Last(p)[1] = Menus!BaseKey(sels[n])
    <3>1. \A k \in DOMAIN v[d] : ~ Menus!Same(v[d][k].selector, sels[Len(sels)])
      BY <1>6, <1>7, <1>9
    <3> QED BY <1>4, <1>6, <2>1, <2>2, <3>1, ProposedIsNew
  <2>5. ~ Has(v[d], p)
    BY <2>4 DEF Has
  <2> QED BY <1>1, <1>3, <2>3, <2>4, <2>5 DEF sels, n
<1> QED BY <1>1, <1>8, <1>9, PathsToAre DEF sels

LEMMA SameMenuCount == \A S : Menus!Cardinality(S) = Cardinality(S)
  BY DEF Menus!Cardinality, Cardinality

LEMMA SingleOwner ==
  ASSUME NEW S, S \subseteq {1, 2}, Menus!Cardinality(S) = 1, NEW x \in S
  PROVE  S = {x}
<1>1. IsFiniteSet(S)
  <2>1. IsFiniteSet({1, 2})
    <3>1. IsFiniteSet(1 .. 2)
      <4>1. 1 \in Int /\ 2 \in Int
        OBVIOUS
      <4> QED BY <4>1, FS_Interval, Zenon
    <3>2. 1 .. 2 = {1, 2}
      OBVIOUS
    <3> QED BY <3>1, <3>2
  <2> QED BY <2>1, FS_Subset
<1>2. PICK y : S = {y}
  BY <1>1, SameMenuCount, FS_Singleton
<1> QED BY <1>2

LEMMA PickKeeps ==
  ASSUME MenusInv, NEW i \in {4, 5}, Menus!Pick(i)
  PROVE  MenusInv'
<1> DEFINE v == inventory
           q == interactions
           targets == UNION {{<<d, path>> : path \in Menus!PathsTo(snapshot.inventory, d, i)} : d \in Menus!Owners(i)}
           aimed == IF Menus!Cardinality(Menus!Owners(i)) = 1 /\ Menus!Cardinality(targets) = 1 THEN targets ELSE {}
           e == [item |-> i, target |-> aimed, owners |-> Menus!Owners(i), selectors |-> Menus!Selectors(i),
                 route |-> Menus!Route(i), rivals |-> Menus!Rivals(i)]
<1>1. /\ interactions' = Append(q, e)
      /\ UNCHANGED <<menu, inventory, snapshot, steps, replayed, worn>> /\ snapshot.recording
  BY DEF Menus!Pick
<1>2. snapshot.inventory = v
  BY <1>1 DEF MenusInv, SnapshotInv
<1>3. i \in MenuParts /\ i \in 1 .. 5
  BY DEF MenuParts
<1>4. /\ MenuOk(menu, worn) /\ RepositoryInv(menu, worn, v) /\ RecordedInv(menu, worn, v, q)
      /\ q \in Seq(Recordings)
  BY DEF MenusInv, RecordedInv
<1> DEFINE way == Way(menu, i)
           n == Len(way)
           sels == Menus!Selectors(i)
<1>5. /\ Menus!Owners(i) = Owning(menu, i) /\ Top(menu, i) \in Owning(menu, i) /\ Menus!Route(i) = way
      /\ Owning(menu, i) \subseteq {1, 2}
  BY <1>3, <1>4, MenuIs DEF Owning
<1>6. /\ Told(menu, i, sels, worn) /\ Len(sels) = n /\ n \in {1, 2}
      /\ sels \in Seq(Selectors) /\ way \in Seq(MenuParts)
      /\ \A l \in 1 .. n : Menus!BaseKey(sels[l]) = Menus!BaseKey(menu[way[l]])
  BY <1>4, SelectorsAre
<1>7. /\ e.item = i /\ e.target = aimed /\ e.owners = Owning(menu, i) /\ e.selectors = sels
      /\ e.route = way /\ e.rivals = Menus!Rivals(i)
  BY <1>5
<1>8. ASSUME NEW t \in aimed
      PROVE  /\ t[1] = Top(menu, i) /\ Owning(menu, i) = {t[1]} /\ t \in {1, 2} \X Paths
             /\ Has(v[t[1]], t[2]) /\ Alone(menu, worn) => Right(menu, v[t[1]], worn, t[1], t[2], i)
             /\ Has(v[t[1]], t[2]) \/ (Len(t[2]) = n /\ Menus!Last(t[2])[1] = Menus!BaseKey(sels[n]))
  <2>1. t \in UNION {{<<d, path>> : path \in Menus!PathsTo(inventory, d, i)} : d \in Menus!Owners(i)}
    BY <1>2, <1>8
  <2>2. Menus!Cardinality(Owning(menu, i)) = 1
    BY <1>5, <1>8
  <2> HIDE DEF aimed, targets, sels, n
  <2>3. /\ t[1] \in Owning(menu, i) /\ t[1] \in {1, 2} /\ t \in {1, 2} \X Paths
        /\ (Has(v[t[1]], t[2]) /\ Alone(menu, worn) /\ t[1] = Top(menu, i))
             => Right(menu, v[t[1]], worn, t[1], t[2], i)
        /\ Has(v[t[1]], t[2]) \/ (Len(t[2]) = n /\ Menus!Last(t[2])[1] = Menus!BaseKey(sels[n]))
    BY <1>4, <2>1, PickTargets DEF sels, n
  <2>4. Owning(menu, i) = {t[1]} /\ Owning(menu, i) = {Top(menu, i)}
    BY <1>5, <2>2, <2>3, SingleOwner
  <2> QED BY <2>3, <2>4
<1>9. Menus!Rivals(i) \subseteq 1 .. 5
  BY DEF Menus!Rivals, Menus!Items, Menus!Tops, Menus!Leaves, Menus!Sub
<1> HIDE DEF aimed, targets, e
<1>10. e \in Recordings
  <2>1. aimed \subseteq {1, 2} \X Paths
    BY <1>8
  <2> QED BY <1>5, <1>6, <1>9, <2>1 DEF e, Recordings
<1>11. Selected(menu, worn, e)
  BY <1>6, <1>7, <1>8 DEF Selected
<1>12. Alone(menu, worn) => Proposed(menu, worn, v, e)
  BY <1>6, <1>7, <1>8 DEF Proposed
<1>13. ASSUME NEW j \in 1 .. Len(q), Rival(menu, q[j], e)
       PROVE  e.rivals # {}
  <2>1. PICK k \in 1 .. Len(q[j].route), l \in 1 .. n :
          /\ q[j].route[k] # way[l] /\ menu[q[j].route[k]].parent = menu[way[l]].parent
          /\ Menus!BaseKey(q[j].selectors[k]) = Menus!BaseKey(sels[l])
    BY <1>7, <1>13 DEF Rival
  <2>2. q[j] \in Menus!Range(interactions)
    BY <1>4 DEF Menus!Range
  <2>3. way[l] \in Menus!Range(Menus!Route(i))
    BY <1>5, <1>6 DEF Menus!Range
  <2>4. k \in DOMAIN q[j].route /\ q[j].route[k] \in Menus!Items
    <3>1. q[j] \in Recordings
      BY <1>4
    <3>2. q[j].route \in Seq(MenuParts)
      BY <3>1 DEF Recordings
    <3> QED BY <3>2 DEF Menus!Items, Menus!Tops, Menus!Leaves, Menus!Sub, MenuParts
  <2>5. Menus!BaseKey(q[j].selectors[k]) = Menus!BaseKey(menu[way[l]])
    BY <1>6, <2>1
  <2>6. q[j].route[k] \in Menus!Rivals(i)
    <3> DEFINE a == q[j].route[k]
               b == way[l]
               f == q[j]
    <3>1. /\ a # b /\ menu[a].parent = menu[b].parent
          /\ \E m \in DOMAIN f.route : f.route[m] = a /\ Menus!BaseKey(f.selectors[m]) = Menus!BaseKey(menu[b])
      BY <2>1, <2>4, <2>5
    <3>2. a \in Menus!Items /\ f \in Menus!Range(interactions) /\ b \in Menus!Range(Menus!Route(i))
      BY <2>2, <2>3, <2>4
    <3> HIDE DEF a, b, f
    <3>3. a \in Menus!Rivals(i)
      BY <3>1, <3>2 DEF Menus!Rivals
    <3> QED BY <3>3 DEF a
  <2> QED BY <1>7, <2>6
<1>14. RecordedInv(menu, worn, v, Append(q, e))
  <2> DEFINE r == Append(q, e)
  <2>1. /\ r \in Seq(Recordings) /\ Len(r) = Len(q) + 1 /\ r[Len(q) + 1] = e
        /\ \A k \in 1 .. Len(q) : r[k] = q[k]
    BY <1>4, <1>10
  <2> HIDE DEF r
  <2>2. \A k \in 1 .. Len(r) : k \in 1 .. Len(q) \/ k = Len(q) + 1
    BY <1>4, <2>1
  <2>3. \A k \in 1 .. Len(r) : Selected(menu, worn, r[k])
    BY <1>4, <1>11, <2>1, <2>2 DEF RecordedInv
  <2>4. Alone(menu, worn) => \A k \in 1 .. Len(r) : Proposed(menu, worn, v, r[k])
    BY <1>4, <1>12, <2>1, <2>2 DEF RecordedInv
  <2>5. ASSUME NEW j \in 1 .. Len(r), NEW k \in 1 .. Len(r), j < k, Rival(menu, r[j], r[k])
        PROVE  r[k].rivals # {}
    <3>1. CASE k \in 1 .. Len(q)
      <4>1. j \in 1 .. Len(q)
        BY <2>2, <2>5, <3>1
      <4> QED BY <1>4, <2>1, <2>5, <3>1, <4>1 DEF RecordedInv
    <3>2. CASE k = Len(q) + 1
      <4>1. j \in 1 .. Len(q)
        BY <1>4, <2>1, <2>5, <3>2
      <4> QED BY <1>13, <2>1, <2>5, <3>2, <4>1
    <3> QED BY <2>2, <3>1, <3>2
  <2>6. RecordedInv(menu, worn, v, r)
    BY <2>1, <2>3, <2>4, <2>5 DEF RecordedInv
  <2> QED BY <2>6 DEF r
<1> QED BY <1>1, <1>14 DEF MenusInv

(* Paths stay in an inventory.                                             *)
LEMMA BuildingGrows ==
  ASSUME NEW inv \in Inventories, NEW sels, Selecting(sels), NEW p, NEW mid, NEW q, NEW new,
         Building(inv, sels, p, mid, q, new)
  PROVE  \A r : Has(inv, r) => Has(new, r)
<1>1. /\ Staged(inv, <<>>, sels[1], p, mid) /\ sels[1] \in Selectors
      /\ Len(sels) = 1 => new = mid
      /\ Len(sels) = 2 => Staged(mid, p, sels[2], q, new) /\ sels[2] \in Selectors
  BY DEF Building, Selecting
<1>2. mid \in Inventories /\ \A r : Has(inv, r) => Has(mid, r)
  <2>1. mid \in Inventories /\ StagedTo(inv, sels[1], p, mid)
    BY <1>1, StagedTyped
  <2> QED BY <2>1 DEF StagedTo, Has
<1>3. CASE Len(sels) = 1
  BY <1>1, <1>2, <1>3
<1>4. CASE Len(sels) = 2
  <2>1. StagedTo(mid, sels[2], q, new)
    BY <1>1, <1>2, <1>4, StagedTyped
  <2> QED BY <1>2, <2>1 DEF StagedTo, Has
<1> QED BY <1>3, <1>4 DEF Selecting

(* The first of the recordings is taken off.                               *)
LEMMA ReviewedIs ==
  ASSUME NEW v, NEW q, RecordedInv(menu, worn, inventory, q), q # <<>>,
         Alone(menu, worn) => \A k \in 2 .. Len(q) : Proposed(menu, worn, v, q[k])
  PROVE  RecordedInv(menu, worn, v, Tail(q))
<1>1. q \in Seq(Recordings) /\ Len(q) \in Nat /\ Len(q) > 0
  BY DEF RecordedInv
<1> DEFINE r == Tail(q)
<1>2. /\ r \in Seq(Recordings) /\ Len(r) = Len(q) - 1
      /\ \A k \in 1 .. Len(r) : r[k] = q[k + 1]
  BY <1>1
<1> HIDE DEF r
<1>3. \A k \in 1 .. Len(r) : k + 1 \in 1 .. Len(q) /\ k + 1 \in 2 .. Len(q)
  BY <1>1, <1>2
<1>4. \A k \in 1 .. Len(r) : Selected(menu, worn, r[k])
  BY <1>2, <1>3 DEF RecordedInv
<1>5. Alone(menu, worn) => \A k \in 1 .. Len(r) : Proposed(menu, worn, v, r[k])
  BY <1>2, <1>3
<1>6. ASSUME NEW j \in 1 .. Len(r), NEW k \in 1 .. Len(r), j < k, Rival(menu, r[j], r[k])
      PROVE  r[k].rivals # {}
  <2>1. j + 1 \in 1 .. Len(q) /\ k + 1 \in 1 .. Len(q) /\ j + 1 < k + 1
    BY <1>3, <1>6
  <2>2. Rival(menu, q[j + 1], q[k + 1])
    BY <1>2, <1>6
  <2> QED BY <1>2, <2>1, <2>2 DEF RecordedInv
<1>7. RecordedInv(menu, worn, v, r)
  BY <1>2, <1>4, <1>5, <1>6 DEF RecordedInv
<1> QED BY <1>7 DEF r

(* A step is added to the plan.                                            *)
LEMMA StepAdded ==
  ASSUME NEW v, LeadsInv(menu, worn, v, steps), FiresInv(menu, worn, steps, replayed),
         NEW s \in MenuSteps, Leads(menu, worn, v, s)
  PROVE  LeadsInv(menu, worn, v, Append(steps, s)) /\ FiresInv(menu, worn, Append(steps, s), replayed)
<1> DEFINE n == Len(steps)
           r == Append(steps, s)
<1>1. /\ n \in Nat /\ r \in Seq(MenuSteps) /\ Len(r) = n + 1 /\ r[n + 1] = s
      /\ \A k \in 1 .. n : r[k] = steps[k]
  BY DEF LeadsInv
<1> HIDE DEF r
<1>2. ASSUME NEW k \in 1 .. Len(r) PROVE Leads(menu, worn, v, r[k])
  <2>1. k \in 1 .. n \/ k = n + 1
    BY <1>1
  <2> QED BY <1>1, <2>1 DEF LeadsInv
<1>3. replayed.step \in 0 .. Len(r) /\ (replayed.step > 0 => Fires(menu, worn, r[replayed.step], replayed))
  BY <1>1 DEF FiresInv
<1>4. LeadsInv(menu, worn, v, r) /\ FiresInv(menu, worn, r, replayed)
  BY <1>1, <1>2, <1>3 DEF LeadsInv, FiresInv
<1> QED BY <1>4 DEF r

(* What leads to an item still does when the route of an item was staged.  *)
LEMMA StillRight ==
  ASSUME MenuOk(menu, worn), NEW d, NEW inv, NEW new, Keeps(menu, d, inv, new, worn),
         NEW p, NEW i \in MenuParts, Right(menu, inv, worn, d, p, i)
  PROVE  Right(menu, new, worn, d, p, i)
<1>1. 3 \in MenuParts
  BY DEF MenuParts
<1>2. Len(p) = 2 => Top(menu, 3) = d
  BY RouteIs DEF Right
<1> QED BY <1>1, <1>2 DEF Right, Keeps

(* A proposal that the staging of the route of e has made is that of f or  *)
(* f has a rival.                                                          *)
LEMMA StillProposed ==
  ASSUME MenuOk(menu, worn), Alone(menu, worn),
         NEW e \in Recordings, NEW f \in Recordings, Selected(menu, worn, e), Selected(menu, worn, f),
         Rival(menu, e, f) => f.rivals # {},
         NEW d, d = Top(menu, e.item), NEW v \in [{1, 2} -> Inventories], NEW new, 
         Keeps(menu, d, v[d], new, worn), Adding(menu, d, v[d], new, e.item, e.selectors, worn),
         \A r : Has(v[d], r) => Has(new, r), Proposed(menu, worn, v, f)
  PROVE  Proposed(menu, worn, [v EXCEPT ![d] = new], f)
<1> DEFINE u == [v EXCEPT ![d] = new]
<1>1. /\ e.item \in MenuParts /\ e.route = Way(menu, e.item) /\ Len(e.selectors) = Len(e.route)
      /\ f.item \in MenuParts /\ f.route = Way(menu, f.item)
  BY DEF Selected, Told, MenuParts, Recordings
<1>2. d \in {1, 2} /\ u[d] = new /\ \A x \in {1, 2} : x # d => u[x] = v[x]
  BY <1>1, RouteIs
<1> HIDE DEF u
<1>3. ASSUME NEW t \in f.target
      PROVE  /\ Has(u[t[1]], t[2]) => Right(menu, u[t[1]], worn, t[1], t[2], f.item) \/ f.rivals # {}
             /\ \/ Has(u[t[1]], t[2])
                \/ /\ Len(t[2]) = Len(f.route)
                   /\ Menus!Last(t[2])[1] = Menus!BaseKey(f.selectors[Len(f.route)])
  <2>1. t[1] \in {1, 2} /\ t[1] = Top(menu, f.item)
    BY <1>1, RouteIs DEF Selected
  <2>2. /\ Has(v[t[1]], t[2]) => Right(menu, v[t[1]], worn, t[1], t[2], f.item) \/ f.rivals # {}
        /\ \/ Has(v[t[1]], t[2])
           \/ /\ Len(t[2]) = Len(f.route)
              /\ Menus!Last(t[2])[1] = Menus!BaseKey(f.selectors[Len(f.route)])
    BY DEF Proposed
  <2>3. CASE t[1] # d
    BY <1>2, <2>1, <2>2, <2>3
  <2>4. CASE t[1] = d /\ Has(v[d], t[2])
    BY <1>1, <1>2, <2>2, <2>4, StillRight
  <2>5. CASE t[1] = d /\ ~ Has(v[d], t[2])
    <3>1. /\ Len(t[2]) = Len(f.route)
          /\ Menus!Last(t[2])[1] = Menus!BaseKey(f.selectors[Len(f.route)])
      BY <2>2, <2>5
    <3>2. ASSUME Has(new, t[2])
          PROVE  Right(menu, new, worn, d, t[2], f.item) \/ f.rivals # {}
      <4>1. PICK k \in DOMAIN new : new[k].path = t[2]
        BY <3>2 DEF Has
      <4>2. PICK l \in 1 .. Len(e.selectors) :
              /\ Len(t[2]) = l /\ Menus!Last(t[2])[1] = Menus!BaseKey(e.selectors[l])
              /\ Right(menu, new, worn, d, t[2], Way(menu, e.item)[l])
        BY <2>5, <4>1 DEF Adding, Has
      <4>3. /\ l = Len(f.route) /\ l \in 1 .. Len(f.route) /\ l \in 1 .. Len(e.route)
            /\ f.route[l] = f.item /\ e.route[l] = Way(menu, e.item)[l]
            /\ Menus!BaseKey(e.selectors[l]) = Menus!BaseKey(f.selectors[l])
        <5>1. Len(f.route) \in {1, 2} /\ f.route[Len(f.route)] = f.item
          BY <1>1, RouteIs
        <5> QED BY <1>1, <3>1, <4>2, <5>1
      <4>4. menu[e.route[l]].parent = menu[f.route[l]].parent
        <5>1. CASE l = 1
          <6>1. menu[f.item].parent = d
            <7>1. Len(Way(menu, f.item)) = 1
              BY <1>1, <4>3, <5>1
            <7>2. menu[f.item].parent = Top(menu, f.item)
              BY <1>1, <7>1, RouteIs
            <7> QED BY <2>1, <2>5, <7>2
          <6>2. menu[e.route[1]].parent = d
            BY <1>1 DEF Top
          <6> QED BY <4>3, <5>1, <6>1, <6>2
        <5>2. CASE l = 2
          <6>1. menu[f.item].parent = 3
            <7>1. Len(Way(menu, f.item)) = 2
              BY <1>1, <4>3, <5>2
            <7> QED BY <1>1, <7>1, RouteIs
          <6>2. Len(e.route) = 2
            BY <1>1, <4>3, <5>2, RouteIs
          <6>3. menu[e.item].parent = 3 /\ e.route[2] = e.item
            BY <1>1, <6>2, RouteIs
          <6> QED BY <4>3, <5>2, <6>1, <6>3
        <5> QED BY <1>1, <4>3, <5>1, <5>2, RouteIs
      <4>5. CASE e.route[l] = f.route[l]
        BY <4>2, <4>3, <4>5
      <4>6. CASE e.route[l] # f.route[l]
        <5>1. Rival(menu, e, f)
          BY <4>3, <4>4, <4>6 DEF Rival
        <5> QED BY <5>1
      <4> QED BY <4>5, <4>6
    <3> QED BY <1>2, <2>5, <3>1, <3>2
  <2> QED BY <2>3, <2>4, <2>5
<1>4. Proposed(menu, worn, u, f)
  BY <1>3 DEF Proposed
<1> QED BY <1>4 DEF u

LEMMA ReviewKeeps ==
  ASSUME MenusInv, Menus!Review
  PROVE  MenusInv'
<1> DEFINE v == inventory
           q == interactions
           e == Head(interactions)
           held == {t \in e.target : Menus!Persisted(t[1], t[2])}
           Made(d, path) == [owner |-> d, path |-> path, item |-> e.item, route |-> e.route, rivals |-> e.rivals]
           Built(d) == Menus!BuildPath(v[d], e.selectors)
<1>1. /\ q # <<>> /\ interactions' = Tail(q) /\ ~ snapshot.recording
      /\ UNCHANGED <<menu, snapshot, replayed, worn>>
      /\ \/ \E t \in held : steps' = Append(steps, Made(t[1], t[2])) /\ UNCHANGED inventory
         \/ /\ held = {} /\ Menus!Cardinality(e.owners) = 1
            /\ \E d \in e.owners : /\ steps' = Append(steps, Made(d, Built(d).path))
                                   /\ inventory' = [v EXCEPT ![d] = Built(d).inv]
         \/ held = {} /\ UNCHANGED <<steps, inventory>>
  BY DEF Menus!Review
<1>2. /\ MenuOk(menu, worn) /\ RepositoryInv(menu, worn, v) /\ SnapshotInv(v, snapshot)
      /\ RecordedInv(menu, worn, v, q)
      /\ LeadsInv(menu, worn, v, steps) /\ FiresInv(menu, worn, steps, replayed)
  BY DEF MenusInv
<1>3. /\ e = q[1] /\ 1 \in 1 .. Len(q) /\ q \in Seq(Recordings) /\ Len(q) \in Nat
  BY <1>1, <1>2 DEF RecordedInv
<1>4. /\ e \in Recordings /\ Selected(menu, worn, e)
      /\ Alone(menu, worn) => Proposed(menu, worn, v, e)
  BY <1>2, <1>3 DEF RecordedInv
<1>5. /\ e.item \in {4, 5} /\ e.item \in MenuParts /\ e.owners = Owning(menu, e.item) /\ e.owners \subseteq {1, 2}
      /\ e.route = Way(menu, e.item) /\ e.route \in Seq(MenuParts) /\ e.rivals \in SUBSET (1 .. 5)
      /\ Told(menu, e.item, e.selectors, worn) /\ Selecting(e.selectors)
      /\ Top(menu, e.item) \in e.owners
  BY <1>2, <1>4, MenuIs DEF Selected, Recordings, MenuParts, Told
<1>6. SnapshotInv(inventory', snapshot')
  BY <1>1 DEF SnapshotInv
<1> HIDE DEF e
<1>7. CASE \E t \in held : steps' = Append(steps, Made(t[1], t[2])) /\ UNCHANGED inventory
  <2>1. PICK t \in held : steps' = Append(steps, Made(t[1], t[2])) /\ UNCHANGED inventory
    BY <1>7
  <2>2. t \in e.target /\ Menus!Persisted(t[1], t[2])
    OBVIOUS
  <2>3. t \in {1, 2} \X Paths /\ t[1] = Top(menu, e.item) /\ Owning(menu, e.item) = {t[1]}
    BY <1>4, <2>2 DEF Recordings, Selected
  <2>4. Has(v[t[1]], t[2])
    BY <2>2 DEF Menus!Persisted, Menus!Range, Has
  <2>5. Alone(menu, worn) /\ e.rivals = {} => Right(menu, v[t[1]], worn, t[1], t[2], e.item)
    BY <1>4, <2>2, <2>4 DEF Proposed
  <2> DEFINE s == Made(t[1], t[2])
  <2>6. s \in MenuSteps
    BY <1>5, <2>3 DEF MenuSteps
  <2>7. Leads(menu, worn, v, s)
    BY <1>5, <2>3, <2>5 DEF Leads
  <2>8. steps' = Append(steps, s)
    BY <2>1
  <2> HIDE DEF s, held
  <2>9. LeadsInv(menu, worn, v, steps') /\ FiresInv(menu, worn, steps', replayed)
    BY <1>2, <2>6, <2>7, <2>8, StepAdded
  <2>10. RecordedInv(menu, worn, v, interactions')
    <3>1. Alone(menu, worn) => \A k \in 2 .. Len(q) : Proposed(menu, worn, v, q[k])
      <4>1. \A k \in 2 .. Len(q) : k \in 1 .. Len(q)
        BY <1>3
      <4> QED BY <1>2, <4>1 DEF RecordedInv
    <3> QED BY <1>1, <1>2, <3>1, ReviewedIs
  <2> QED BY <1>1, <1>2, <1>6, <2>1, <2>9, <2>10 DEF MenusInv
<1>8. CASE /\ held = {} /\ Menus!Cardinality(e.owners) = 1
           /\ \E d \in e.owners : /\ steps' = Append(steps, Made(d, Built(d).path))
                                  /\ inventory' = [v EXCEPT ![d] = Built(d).inv]
  <2>1. PICK d \in e.owners : /\ steps' = Append(steps, Made(d, Built(d).path))
                              /\ inventory' = [v EXCEPT ![d] = Built(d).inv]
    BY <1>8
  <2>2. d \in {1, 2} /\ d = Top(menu, e.item) /\ Owning(menu, e.item) = {d}
    BY <1>5, <1>8, SingleOwner
  <2>3. v[d] \in Inventories /\ v \in [{1, 2} -> Inventories] /\ (Alone(menu, worn) => Sound(menu, d, v[d], worn))
    BY <1>2, <2>2 DEF RepositoryInv
  <2> DEFINE sels == e.selectors
             new == Built(d).inv
             path == Built(d).path
  <2>4. PICK p, mid : Building(v[d], sels, p, mid, path, new)
    BY <1>5, <2>3, BuiltIs
  <2> DEFINE s == Made(d, path)
             u == [v EXCEPT ![d] = new]
  <2>5. inventory' = u /\ steps' = Append(steps, s)
    BY <2>1
  <2> HIDE DEF new, path, held
  <2>6. path \in Paths /\ new \in Inventories
    <3>1. BuiltTypes(sels, p, mid, path, new)
      BY <1>5, <2>3, <2>4, BuildingTyped
    <3> QED BY <3>1 DEF BuiltTypes
  <2>7. ASSUME Alone(menu, worn)
        PROVE  /\ Sound(menu, d, new, worn) /\ Right(menu, new, worn, d, path, e.item) /\ Keeps(menu, d, v[d], new, worn)
               /\ Adding(menu, d, v[d], new, e.item, sels, worn)
    BY <1>2, <1>5, <2>2, <2>3, <2>4, <2>7, BuildingKeeps
  <2>8. \A r : Has(v[d], r) => Has(new, r)
    BY <1>5, <2>3, <2>4, BuildingGrows
  <2>9. u[d] = new /\ u \in [{1, 2} -> Inventories] /\ \A x \in {1, 2} : x # d => u[x] = v[x]
    BY <2>2, <2>3, <2>6
  <2> HIDE DEF u
  <2>10. RepositoryInv(menu, worn, u)
    <3>1. ASSUME Alone(menu, worn), NEW x \in {1, 2} PROVE Sound(menu, x, u[x], worn)
      BY <1>2, <2>7, <2>9, <3>1 DEF RepositoryInv
    <3> QED BY <2>9, <3>1 DEF RepositoryInv
  <2>11. RecordedInv(menu, worn, u, Tail(q))
    <3>1. ASSUME Alone(menu, worn), NEW k \in 2 .. Len(q) PROVE Proposed(menu, worn, u, q[k])
      <4>1. k \in 1 .. Len(q) /\ 1 < k
        BY <1>3
      <4>2. /\ q[k] \in Recordings /\ Selected(menu, worn, q[k]) /\ Proposed(menu, worn, v, q[k])
            /\ Rival(menu, q[1], q[k]) => q[k].rivals # {}
        BY <1>2, <1>3, <3>1, <4>1 DEF RecordedInv
      <4>3. Proposed(menu, worn, [v EXCEPT ![d] = new], q[k])
        BY <1>2, <1>3, <1>4, <2>2, <2>3, <2>7, <2>8, <3>1, <4>2, StillProposed
      <4> QED BY <4>3 DEF u
    <3> QED BY <1>1, <1>2, <3>1, ReviewedIs
  <2>12. s \in MenuSteps
    BY <1>5, <2>2, <2>6 DEF MenuSteps
  <2>13. Leads(menu, worn, u, s)
    <3> SUFFICES ASSUME Alone(menu, worn) PROVE Right(menu, u[d], worn, d, path, e.item)
      BY <1>5, <2>2 DEF Leads
    <3> QED BY <2>7, <2>9
  <2>14. LeadsInv(menu, worn, u, steps)
    <3>1. ASSUME NEW k \in 1 .. Len(steps) PROVE Leads(menu, worn, u, steps[k])
      <4>1. steps[k] \in MenuSteps /\ Leads(menu, worn, v, steps[k])
        BY <1>2 DEF LeadsInv
      <4>2. steps[k].owner \in {1, 2} /\ steps[k].item \in MenuParts
        BY <4>1 DEF MenuSteps, MenuParts
      <4>3. CASE steps[k].owner # d
        BY <2>9, <4>1, <4>2, <4>3 DEF Leads
      <4>4. CASE steps[k].owner = d
        <5>1. ASSUME Alone(menu, worn), steps[k].rivals = {}
              PROVE  Right(menu, u[d], worn, d, steps[k].path, steps[k].item)
          <6>1. Right(menu, v[d], worn, d, steps[k].path, steps[k].item)
            BY <4>1, <4>4, <5>1 DEF Leads
          <6> QED BY <1>2, <2>7, <2>9, <4>2, <5>1, <6>1, StillRight
        <5> QED BY <4>1, <4>4, <5>1 DEF Leads
      <4> QED BY <4>3, <4>4
    <3> QED BY <1>2, <3>1 DEF LeadsInv
  <2> HIDE DEF s
  <2>15. LeadsInv(menu, worn, u, steps') /\ FiresInv(menu, worn, steps', replayed)
    BY <1>2, <2>5, <2>12, <2>13, <2>14, StepAdded
  <2> QED BY <1>1, <1>2, <1>6, <2>5, <2>10, <2>11, <2>15 DEF MenusInv
<1>9. CASE held = {} /\ UNCHANGED <<steps, inventory>>
  <2>1. RecordedInv(menu, worn, v, interactions')
    <3>1. Alone(menu, worn) => \A k \in 2 .. Len(q) : Proposed(menu, worn, v, q[k])
      <4>1. \A k \in 2 .. Len(q) : k \in 1 .. Len(q)
        BY <1>3
      <4> QED BY <1>2, <4>1 DEF RecordedInv
    <3> QED BY <1>1, <1>2, <3>1, ReviewedIs
  <2> QED BY <1>1, <1>2, <1>6, <1>9, <2>1 DEF MenusInv
<1> QED BY <1>1, <1>7, <1>8, <1>9

LEMMA SameMenu ==
  ASSUME NEW m, NEW i, NEW j, m[i].parent = m[j].parent
  PROVE  m[i].parent \in 1 .. 3 => Top(m, i) = Top(m, j)
<1>1. CASE m[i].parent \in {1, 2}
  <2>1. Way(m, i) = <<i>> /\ Way(m, j) = <<j>>
    BY <1>1 DEF Way
  <2>2. <<i>>[1] = i /\ <<j>>[1] = j
    OBVIOUS
  <2> QED BY <2>1, <2>2 DEF Top
<1>2. CASE m[i].parent = 3
  <2>1. Way(m, i) = <<3, i>> /\ Way(m, j) = <<3, j>>
    <3>1. ~ (m[i].parent \in {1, 2}) /\ ~ (m[j].parent \in {1, 2})
      BY <1>2
    <3> QED BY <1>2, <3>1 DEF Way
  <2>2. <<3, i>>[1] = 3 /\ <<3, j>>[1] = 3
    OBVIOUS
  <2> QED BY <2>1, <2>2 DEF Top
<1> QED BY <1>1, <1>2

(* The agent finds an item in its menu by what it is called.               *)
LEMMA ChildIs ==
  ASSUME MenuOk(menu, worn), Alone(menu, worn), NEW a \in MenuParts, NEW s, Called(s) = Called(menu[a]), NEW drawn
  PROVE  Menus!MenuChild(menu[a].parent, s, drawn) = {a}
<1> DEFINE p == menu[a].parent
           matches == {i \in Menus!Children(p) : Menus!Meets(i, s)}
<1>1. Menus!Items = 1 .. 5 /\ a \in 1 .. 5 /\ 3 \in 1 .. 5
  BY DEF Menus!Items, Menus!Tops, Menus!Leaves, Menus!Sub, MenuParts
<1>2. s.id = menu[a].id /\ s.text = menu[a].text
  <2>1. Called(s).id = s.id /\ Called(s).text = s.text
    BY DEF Called
  <2>2. Called(menu[a]).id = menu[a].id /\ Called(menu[a]).text = menu[a].text
    BY DEF Called
  <2> QED BY <2>1, <2>2
<1>3. a \in matches
  BY <1>1, <1>2 DEF Menus!Children, Menus!Meets
<1>4. s.id # "" \/ s.text # ""
  <2>1. <<a, Called(menu[a])>> \in worn
    BY Zenon DEF MenuOk
  <2>2. <<a, Called(s)>> \in worn
    BY <2>1
  <2>3. <<a, Called(s)>>[2] = Called(s)
    OBVIOUS
  <2>4. Called(s).id # "" \/ Called(s).text # ""
    BY <2>2, <2>3, Zenon DEF MenuOk
  <2> QED BY <2>4, Zenon DEF Called
<1>5. ASSUME NEW j \in matches PROVE j = a
  <2>1. j \in 1 .. 5 /\ menu[j].parent = menu[a].parent /\ s.id \in {"", menu[j].id} /\ s.text \in {"", menu[j].text}
    BY <1>1, Zenon DEF Menus!Children, Menus!Meets, Menus!None
  <2>2. menu[a].parent \in {1, 2, 3} /\ menu[1].parent = 0 /\ menu[2].parent = 0
    BY Zenon DEF MenuOk, MenuParts
  <2>7. menu[j].parent = menu[a].parent
    BY <2>1, Zenon
  <2>8. menu[a].parent \in {1, 2, 3}
    BY <2>2
  <2> HIDE DEF matches
  <2>3. j \in MenuParts
    <3>0. menu[j].parent # 0
      BY <2>7, <2>8
    <3>1. j # 1 /\ j # 2
      BY <2>2, <3>0
    <3>2. j \in 1 .. 5
      BY <2>1, Zenon
    <3> QED BY <3>1, <3>2 DEF MenuParts
  <2>4. Top(menu, j) = Top(menu, a)
    <3>1. menu[a].parent = menu[j].parent
      BY <2>1, Zenon
    <3>2. menu[j].parent \in 1 .. 3
      BY <2>7, <2>8
    <3> QED BY <3>1, <3>2, SameMenu
  <2>5. <<a, Called(menu[a])>> \in worn /\ <<j, Called(menu[j])>> \in worn
    BY <2>3, Zenon DEF MenuOk
  <2>6. (menu[a].id # "" /\ menu[a].id = menu[j].id) \/ (menu[a].text # "" /\ menu[a].text = menu[j].text)
    BY <1>2, <1>4, <2>1, Zenon
  <2> QED BY <2>4, <2>5, <2>6, ApartMeans, Zenon
<1> HIDE DEF matches
<1>6. matches = {a}
  BY <1>3, <1>5
<1>7. Menus!Cardinality(matches) = 1
  <2>1. Cardinality({a}) = 1
    BY FS_Singleton
  <2> QED BY <1>6, <2>1, SameMenuCount
<1> QED BY <1>6, <1>7 DEF Menus!MenuChild, matches

(* A step of the path takes the selector of the one subobject there.       *)
LEMMA SelectorIs ==
  ASSUME NEW d, inventory[d] \in Inventories, NEW p, NEW i, Shows(inventory[d], worn, p, i)
  PROVE  <<i, Called(Menus!SelectorAt(d, p))>> \in worn
<1> DEFINE inv == inventory[d]
           n == CHOOSE n \in Menus!Range(inv) : n.path = p
<1>1. /\ DOMAIN inv = 1 .. Len(inv)
      /\ \A j, k \in 1 .. Len(inv) : inv[j].path = inv[k].path => j = k
  BY DEF Inventories
<1>2. PICK k \in DOMAIN inv : inv[k].path = p /\ <<i, Called(inv[k].selector)>> \in worn
  BY DEF Shows
<1>3. inv[k] \in Menus!Range(inv)
  BY <1>2 DEF Menus!Range
<1>4. n \in Menus!Range(inv) /\ n.path = p
  BY <1>2, <1>3
<1>5. Menus!SelectorAt(d, p) = n.selector
  BY DEF Menus!SelectorAt
<1> HIDE DEF n
<1>6. PICK j \in DOMAIN inv : n = inv[j]
  BY <1>4 DEF Menus!Range
<1>7. j = k
  BY <1>1, <1>2, <1>4, <1>6
<1> QED BY <1>2, <1>5, <1>6, <1>7

LEMMA ReachedIs ==
  ASSUME MenuOk(menu, worn), Alone(menu, worn), NEW i \in {4, 5}, NEW d, Owning(menu, i) = {d},
         NEW sels, Len(sels) = Len(Way(menu, i)), NEW drawn,
         \A l \in 1 .. Len(Way(menu, i)) : Called(menu[Way(menu, i)[l]]) = Called(sels[l])
  PROVE  Menus!Reached(d, sels, drawn) = {i}
<1> DEFINE way == Way(menu, i)
           start == IF Menus!Cardinality({t \in Menus!Tops : Menus!Caption(t) = Menus!Caption(d)}) = 1 THEN {d} ELSE {}
           Below(from, k) == UNION {Menus!MenuChild(p, sels[k], drawn) : p \in from \ Menus!Leaves}
           one == Below(start, 1)
           two == Below(one, 2)
<1>1. Menus!Reached(d, sels, drawn) = (IF Len(sels) = 1 THEN one ELSE two) \cap Menus!Leaves
  BY DEF Menus!Reached
<1>2. i \in MenuParts /\ d \in {1, 2} /\ Top(menu, i) = d /\ menu[way[1]].parent = d
  <2>1. i \in MenuParts
    BY DEF MenuParts
  <2>2. Top(menu, i) \in Owning(menu, i)
    BY <2>1, MenuIs
  <2>3. d \in {1, 2} /\ Top(menu, i) = d
    BY <2>2 DEF Owning
  <2> QED BY <2>1, <2>3 DEF Top
<1>3. start = {d}
  <2>1. {t \in Menus!Tops : Menus!Caption(t) = Menus!Caption(d)} = Owning(menu, i)
    BY <1>2, MenuIs DEF Menus!Tops, Owning
  <2>2. Cardinality({d}) = 1
    BY FS_Singleton
  <2> QED BY <2>1, <2>2, SameMenuCount
<1>4. Menus!Leaves = {4, 5} /\ d \notin {4, 5}
  BY <1>2 DEF Menus!Leaves
<1>5. ASSUME NEW x, x \notin {4, 5}, NEW k
      PROVE  Below({x}, k) = Menus!MenuChild(x, sels[k], drawn)
  <2>1. {x} \ Menus!Leaves = {x}
    BY <1>4, <1>5
  <2>2. {Menus!MenuChild(p, sels[k], drawn) : p \in {x}} = {Menus!MenuChild(x, sels[k], drawn)}
    OBVIOUS
  <2>3. UNION {Menus!MenuChild(x, sels[k], drawn)} = Menus!MenuChild(x, sels[k], drawn)
    OBVIOUS
  <2> QED BY <2>1, <2>2, <2>3
<1>6. Len(way) \in {1, 2} /\ way[1] \in MenuParts /\ 1 \in 1 .. Len(way)
  BY <1>2, RouteIs
<1>7. one = {way[1]}
  <2>1. one = Menus!MenuChild(d, sels[1], drawn)
    BY <1>3, <1>4, <1>5
  <2>2. Called(sels[1]) = Called(menu[way[1]])
    BY <1>6
  <2>3. Menus!MenuChild(menu[way[1]].parent, sels[1], drawn) = {way[1]}
    <3> HIDE DEF way
    <3> QED BY <1>6, <2>2, ChildIs
  <2> QED BY <1>2, <2>1, <2>3
<1>8. CASE Len(way) = 1
  <2>1. way[1] = i
    BY <1>2, <1>8, RouteIs
  <2> HIDE DEF one, two
  <2> QED BY <1>1, <1>4, <1>7, <1>8, <2>1
<1>9. CASE Len(way) = 2
  <2>1. way[1] = 3 /\ menu[i].parent = 3 /\ way[2] = i
    BY <1>2, <1>9, RouteIs
  <2>2. two = Menus!MenuChild(3, sels[2], drawn)
    <3>1. one = {3}
      BY <1>7, <2>1
    <3>2. Below({3}, 2) = Menus!MenuChild(3, sels[2], drawn)
      <4>1. 3 \notin {4, 5}
        OBVIOUS
      <4> HIDE DEF Below
      <4> QED BY <1>5, <4>1
    <3> HIDE DEF one, start
    <3> QED BY <3>1, <3>2
  <2>3. Called(sels[2]) = Called(menu[i])
    BY <1>9, <2>1
  <2>4. Menus!MenuChild(menu[i].parent, sels[2], drawn) = {i}
    BY <1>2, <2>3, ChildIs
  <2> HIDE DEF one, two
  <2> QED BY <1>1, <1>4, <1>9, <2>1, <2>2, <2>4
<1> QED BY <1>6, <1>8, <1>9

LEMMA ReplayKeeps ==
  ASSUME MenusInv, NEW k \in DOMAIN steps, NEW drawn \in BOOLEAN, Menus!Replay(k, drawn)
  PROVE  MenusInv'
<1> DEFINE s == steps[k]
           d == s.owner
           sels == Menus!Translated(d, s.path)
           reached == Menus!Reached(d, sels, drawn)
           item == IF reached = {} THEN Menus!Nobody ELSE CHOOSE i \in reached : TRUE
<1>1. /\ replayed' = [step |-> k, selectors |-> sels, drawn |-> drawn, item |-> item]
      /\ UNCHANGED <<menu, inventory, snapshot, interactions, steps, worn>>
  BY DEF Menus!Replay
<1>2. /\ MenuOk(menu, worn) /\ RepositoryInv(menu, worn, inventory)
      /\ LeadsInv(menu, worn, inventory, steps)
  BY DEF MenusInv
<1>3. k \in 1 .. Len(steps) /\ Len(steps) \in Nat /\ s \in MenuSteps /\ Leads(menu, worn, inventory, s)
  BY <1>2 DEF LeadsInv
<1>4. d \in {1, 2} /\ s.path \in Paths /\ s.item \in {4, 5} /\ s.item \in MenuParts
  BY <1>3 DEF MenuSteps, MenuParts
<1>5. replayed'.step = k /\ replayed'.selectors = sels /\ replayed'.item = item
  BY <1>1
<1> HIDE DEF s, item, reached, sels
<1>6. ASSUME Alone(menu, worn), s.rivals = {}
      PROVE  /\ Len(sels) = Len(s.route)
             /\ \A l \in 1 .. Len(s.route) : <<s.route[l], Called(sels[l])>> \in worn
             /\ (\A l \in 1 .. Len(s.route) : Called(menu[s.route[l]]) = Called(sels[l])) => item = s.item
  <2>1. /\ d = Top(menu, s.item) /\ Owning(menu, s.item) = {d} /\ s.route = Way(menu, s.item)
        /\ Right(menu, inventory[d], worn, d, s.path, s.item)
    BY <1>3, <1>6 DEF Leads
  <2> DEFINE n == Len(Way(menu, s.item))
  <2>2. n \in {1, 2} /\ Way(menu, s.item)[n] = s.item /\ (n = 2 => Way(menu, s.item)[1] = 3)
    BY <1>2, <1>4, RouteIs
  <2>3. /\ Len(s.path) = n /\ Shows(inventory[d], worn, s.path, s.item)
        /\ n = 2 => Shows(inventory[d], worn, <<s.path[1]>>, 3)
    BY <2>1 DEF Right
  <2> HIDE DEF n
  <2>4. DOMAIN s.path = 1 .. n
    BY <1>4, <2>3 DEF Paths
  <2>5. sels = [l \in 1 .. n |-> Menus!SelectorAt(d, SubSeq(s.path, 1, l))]
    BY <2>4 DEF sels, Menus!Translated
  <2>6. Len(sels) = n
    BY <2>2, <2>5
  <2>7. inventory[d] \in Inventories
    BY <1>2, <1>4 DEF RepositoryInv
  <2>8. ASSUME NEW l \in 1 .. n PROVE <<Way(menu, s.item)[l], Called(sels[l])>> \in worn
    <3>1. sels[l] = Menus!SelectorAt(d, SubSeq(s.path, 1, l))
      BY <2>5
    <3>2. CASE l = n
      <4>1. SubSeq(s.path, 1, l) = s.path
        BY <1>4, <2>2, <2>3, <3>2, PathIs
      <4>2. <<s.item, Called(Menus!SelectorAt(d, s.path))>> \in worn
        BY <2>3, <2>7, SelectorIs
      <4> QED BY <2>2, <3>1, <3>2, <4>1, <4>2
    <3>3. CASE l # n
      <4>1. l = 1 /\ n = 2
        BY <2>2, <3>3
      <4>2. SubSeq(s.path, 1, l) = <<s.path[1]>>
        BY <1>4, <2>3, <4>1, PathIs
      <4>3. <<3, Called(Menus!SelectorAt(d, <<s.path[1]>>))>> \in worn
        BY <2>3, <2>7, <4>1, SelectorIs
      <4> QED BY <2>2, <3>1, <4>1, <4>2, <4>3
    <3> QED BY <3>2, <3>3
  <2>9. ASSUME \A l \in 1 .. Len(s.route) : Called(menu[s.route[l]]) = Called(sels[l])
        PROVE  item = s.item
    <3>1. Len(sels) = Len(Way(menu, s.item))
      BY <2>6 DEF n
    <3>2. \A l \in 1 .. Len(Way(menu, s.item)) : Called(menu[Way(menu, s.item)[l]]) = Called(sels[l])
      BY <2>1, <2>9
    <3>3. reached = {s.item}
      BY <1>2, <1>4, <1>6, <2>1, <3>1, <3>2, ReachedIs DEF reached
    <3> QED BY <3>3 DEF item
  <2> QED BY <2>1, <2>6, <2>8, <2>9 DEF n
<1>7. Fires(menu, worn, s, replayed')
  BY <1>5, <1>6 DEF Fires
<1>8. FiresInv(menu, worn, steps, replayed')
  BY <1>3, <1>5, <1>7 DEF FiresInv, s
<1> QED BY <1>1, <1>8 DEF MenusInv

(* Items stay in their menus, and what they have been called is kept.      *)
Changed(m, w) ==
  /\ MenuOk(m, w) /\ worn \subseteq w
  /\ \A i \in 1 .. 5 : m[i].parent = menu[i].parent
  /\ \A d \in {1, 2} : m[d].text = menu[d].text

LEMMA WaysStay ==
  ASSUME MenuOk(menu, worn), NEW m, NEW w, Changed(m, w), NEW i \in MenuParts
  PROVE  Way(m, i) = Way(menu, i) /\ Top(m, i) = Top(menu, i) /\ Owning(m, i) = Owning(menu, i)
<1>1. i \in 1 .. 5
  BY DEF MenuParts
<1>2. Way(m, i) = Way(menu, i)
  BY <1>1 DEF Way, Changed
<1>3. Len(Way(menu, i)) \in {1, 2} /\ Top(menu, i) \in {1, 2}
  BY RouteIs
<1>4. 1 \in 1 .. Len(Way(menu, i))
  <2>1. Len(Way(menu, i)) = 1 \/ Len(Way(menu, i)) = 2
    BY <1>3
  <2> QED BY <2>1
<1>5. Way(menu, i)[1] \in 1 .. 5
  <2>1. Way(menu, i)[1] \in MenuParts
    BY <1>4, RouteIs
  <2> QED BY <2>1 DEF MenuParts
<1>6. Top(m, i) = Top(menu, i)
  BY <1>2, <1>5 DEF Top, Changed
<1>7. \A d \in {1, 2} : m[d].text = menu[d].text
  BY DEF Changed
<1>8. Owning(m, i) = Owning(menu, i)
  <2> DEFINE t == Top(menu, i)
  <2>1. t \in {1, 2} /\ Top(m, i) = t
    BY <1>3, <1>6
  <2> HIDE DEF t
  <2>2. m[t].text = menu[t].text
    BY <1>7, <2>1
  <2>3. Owning(m, i) = {d \in {1, 2} : m[d].text = m[t].text}
    BY <2>1 DEF Owning
  <2>4. Owning(menu, i) = {d \in {1, 2} : menu[d].text = menu[t].text}
    BY DEF Owning, t
  <2> QED BY <1>7, <2>2, <2>3, <2>4
<1> QED BY <1>2, <1>6, <1>8

LEMMA AloneStays ==
  ASSUME MenuOk(menu, worn), NEW m, NEW w, Changed(m, w), Alone(m, w)
  PROVE  Alone(menu, worn)
<1> SUFFICES ASSUME NEW v \in worn, NEW x \in worn, v[1] # x[1], Top(menu, v[1]) = Top(menu, x[1])
             PROVE  \A f \in {"id", "text"} : v[2][f] # x[2][f] \/ v[2][f] = ""
  BY Zenon DEF Alone
<1>1. v \in w /\ x \in w /\ v[1] \in MenuParts /\ x[1] \in MenuParts
  BY Zenon DEF Changed, MenuOk
<1>2. Top(m, v[1]) = Top(m, x[1])
  BY <1>1, WaysStay
<1> QED BY <1>1, <1>2, Zenon DEF Alone

LEMMA RightStays ==
  ASSUME MenuOk(menu, worn), NEW m, NEW w, Changed(m, w), NEW i \in MenuParts,
         NEW inv, NEW d, NEW p, Right(menu, inv, worn, d, p, i)
  PROVE  Right(m, inv, w, d, p, i)
<1>1. Way(m, i) = Way(menu, i) /\ Top(m, i) = Top(menu, i)
  BY WaysStay
<1>2. worn \subseteq w
  BY DEF Changed
<1>3. \A r, j : Shows(inv, worn, r, j) => Shows(inv, w, r, j)
  BY <1>2 DEF Shows
<1> QED BY <1>1, <1>3 DEF Right

LEMMA SoundStays ==
  ASSUME MenuOk(menu, worn), NEW m, NEW w, Changed(m, w), NEW inv, NEW d, Sound(menu, d, inv, worn)
  PROVE  Sound(m, d, inv, w)
<1> SUFFICES ASSUME NEW k \in DOMAIN inv
             PROVE  \E i \in MenuParts : /\ <<i, Called(inv[k].selector)>> \in w
                                         /\ Right(m, inv, w, d, inv[k].path, i)
  BY DEF Sound
<1>1. PICK i \in MenuParts : /\ <<i, Called(inv[k].selector)>> \in worn
                             /\ Right(menu, inv, worn, d, inv[k].path, i)
  BY DEF Sound
<1>2. Right(m, inv, w, d, inv[k].path, i)
  BY <1>1, RightStays
<1> QED BY <1>1, <1>2 DEF Changed

LEMMA SelectedStays ==
  ASSUME MenuOk(menu, worn), NEW m, NEW w, Changed(m, w), NEW e \in Recordings, Selected(menu, worn, e)
  PROVE  Selected(m, w, e)
<1>1. e.item \in MenuParts
  BY DEF Recordings, MenuParts
<1>2. Way(m, e.item) = Way(menu, e.item) /\ Top(m, e.item) = Top(menu, e.item) /\ Owning(m, e.item) = Owning(menu, e.item)
  BY <1>1, WaysStay
<1>3. Told(m, e.item, e.selectors, w)
  BY <1>2 DEF Selected, Told, Changed
<1> QED BY <1>2, <1>3 DEF Selected

LEMMA ProposedStays ==
  ASSUME MenuOk(menu, worn), NEW m, NEW w, Changed(m, w), NEW e \in Recordings, NEW v, Proposed(menu, worn, v, e)
  PROVE  Proposed(m, w, v, e)
<1>1. e.item \in MenuParts
  BY DEF Recordings, MenuParts
<1>2. ASSUME NEW t \in e.target
      PROVE  /\ Has(v[t[1]], t[2]) => Right(m, v[t[1]], w, t[1], t[2], e.item) \/ e.rivals # {}
             /\ \/ Has(v[t[1]], t[2])
                \/ /\ Len(t[2]) = Len(e.route)
                   /\ Menus!Last(t[2])[1] = Menus!BaseKey(e.selectors[Len(e.route)])
  BY <1>1, RightStays DEF Proposed
<1> QED BY <1>2 DEF Proposed

LEMMA RivalStays ==
  ASSUME NEW m, NEW w, Changed(m, w), NEW e \in Recordings, NEW f \in Recordings, Rival(m, e, f)
  PROVE  Rival(menu, e, f)
<1>1. PICK k \in 1 .. Len(e.route), l \in 1 .. Len(f.route) :
        /\ e.route[k] # f.route[l] /\ m[e.route[k]].parent = m[f.route[l]].parent
        /\ Menus!BaseKey(e.selectors[k]) = Menus!BaseKey(f.selectors[l])
  BY DEF Rival
<1>2. e.route \in Seq(MenuParts) /\ f.route \in Seq(MenuParts)
  BY DEF Recordings
<1>3. e.route[k] \in 1 .. 5 /\ f.route[l] \in 1 .. 5
  <2>1. e.route[k] \in MenuParts /\ f.route[l] \in MenuParts
    BY <1>1, <1>2
  <2> QED BY <2>1 DEF MenuParts
<1>4. m[e.route[k]].parent = menu[e.route[k]].parent /\ m[f.route[l]].parent = menu[f.route[l]].parent
  BY <1>3 DEF Changed
<1> QED BY <1>1, <1>4 DEF Rival

LEMMA MenuChanges ==
  ASSUME MenusInv, NEW m, NEW w, Changed(m, w)
  PROVE  /\ RepositoryInv(m, w, inventory) /\ RecordedInv(m, w, inventory, interactions)
         /\ LeadsInv(m, w, inventory, steps)
<1> DEFINE v == inventory
           q == interactions
<1>1. /\ MenuOk(menu, worn) /\ RepositoryInv(menu, worn, v) /\ RecordedInv(menu, worn, v, q)
      /\ LeadsInv(menu, worn, v, steps)
  BY DEF MenusInv
<1>2. Alone(m, w) => Alone(menu, worn)
  BY <1>1, AloneStays
<1>3. RepositoryInv(m, w, v)
  <2>1. ASSUME Alone(m, w), NEW d \in {1, 2} PROVE Sound(m, d, v[d], w)
    <3>1. Sound(menu, d, v[d], worn)
      BY <1>1, <1>2, <2>1 DEF RepositoryInv
    <3> QED BY <1>1, <3>1, SoundStays
  <2> QED BY <1>1, <2>1 DEF RepositoryInv
<1>4. RecordedInv(m, w, v, q)
  <2>1. q \in Seq(Recordings) /\ \A k \in 1 .. Len(q) : q[k] \in Recordings
    BY <1>1 DEF RecordedInv
  <2>2. ASSUME NEW k \in 1 .. Len(q) PROVE Selected(m, w, q[k])
    <3>1. Selected(menu, worn, q[k])
      BY <1>1 DEF RecordedInv
    <3> QED BY <1>1, <2>1, <3>1, SelectedStays
  <2>3. ASSUME Alone(m, w), NEW k \in 1 .. Len(q) PROVE Proposed(m, w, v, q[k])
    <3>1. Proposed(menu, worn, v, q[k])
      BY <1>1, <1>2, <2>3 DEF RecordedInv
    <3> QED BY <1>1, <2>1, <3>1, ProposedStays
  <2>4. ASSUME NEW j \in 1 .. Len(q), NEW k \in 1 .. Len(q), j < k, Rival(m, q[j], q[k])
        PROVE  q[k].rivals # {}
    <3>1. Rival(menu, q[j], q[k])
      BY <2>1, <2>4, RivalStays
    <3> QED BY <1>1, <2>4, <3>1 DEF RecordedInv
  <2> QED BY <2>1, <2>2, <2>3, <2>4 DEF RecordedInv
<1>5. ASSUME NEW k \in 1 .. Len(steps) PROVE Leads(m, w, v, steps[k])
  <2>1. steps[k] \in MenuSteps /\ Leads(menu, worn, v, steps[k])
    BY <1>1 DEF LeadsInv
  <2> DEFINE s == steps[k]
  <2>2. s.item \in MenuParts
    BY <2>1 DEF MenuSteps, MenuParts
  <2>3. Way(m, s.item) = Way(menu, s.item) /\ Top(m, s.item) = Top(menu, s.item) /\ Owning(m, s.item) = Owning(menu, s.item)
    BY <1>1, <2>2, WaysStay
  <2>4. ASSUME Alone(m, w), s.rivals = {} PROVE Right(m, v[s.owner], w, s.owner, s.path, s.item)
    <3>1. Right(menu, v[s.owner], worn, s.owner, s.path, s.item)
      BY <1>2, <2>1, <2>4 DEF Leads
    <3> QED BY <1>1, <2>2, <3>1, RightStays
  <2> HIDE DEF s
  <2>5. Leads(menu, worn, v, s)
    BY <2>1 DEF s
  <2>6. Leads(m, w, v, s)
    BY <2>3, <2>4, <2>5 DEF Leads
  <2> QED BY <2>6 DEF s
<1>6. LeadsInv(m, w, v, steps)
  BY <1>1, <1>5 DEF LeadsInv
<1> QED BY <1>3, <1>4, <1>6

LEMMA ApplicationKeeps ==
  ASSUME MenusInv, Menus!Application
  PROVE  MenusInv'
<1> DEFINE m == menu'
           w == worn'
           kinds == [parent : 0 .. 5, id : Words, text : Words, place : 1 .. 5]
           texts == [id : Words, text : Words]
<1>1. /\ \/ \E i \in {4, 5}, c \in Menus!Captions : m = [menu EXCEPT ![i].id = c.id, ![i].text = c.text]
         \/ m = [menu EXCEPT ![4].place = menu[5].place, ![5].place = menu[4].place]
      /\ w = worn \cup {<<i, [id |-> m[i].id, text |-> m[i].text]>> : i \in Menus!Items \ Menus!Tops}
      /\ replayed' = Menus!NoReplay
      /\ UNCHANGED <<inventory, snapshot, interactions, steps>>
  BY DEF Menus!Application, Menus!Leaves
<1> HIDE DEF m, w
<1>2. MenuOk(menu, worn) /\ menu \in [1 .. 5 -> kinds]
  BY Zenon DEF MenusInv, MenuOk
<1>3. \A c \in Menus!Captions : c.id \in Words /\ c.text \in Words /\ (c.id # "" \/ c.text # "")
  <2> TAKE c \in Menus!Captions
  <2>1. PICK x \in Words, y \in Words : c = [id |-> x, text |-> y] /\ (x # "" \/ y # "")
    BY Zenon DEF Menus!Captions, Menus!None, Words
  <2> QED BY <2>1, Zenon
<1>4. /\ m \in [1 .. 5 -> kinds] /\ \A i \in 1 .. 5 : m[i].parent = menu[i].parent
      /\ \A d \in {1, 2} : m[d].id = menu[d].id /\ m[d].text = menu[d].text
      /\ \A i \in MenuParts : m[i].id # "" \/ m[i].text # ""
  <2>1. ASSUME NEW i \in MenuParts PROVE menu[i].id # "" \/ menu[i].text # ""
    <3>1. <<i, Called(menu[i])>> \in worn
      BY <1>2, Zenon DEF MenuOk
    <3>2. <<i, Called(menu[i])>>[2] = Called(menu[i])
      OBVIOUS
    <3>3. Called(menu[i]).id # "" \/ Called(menu[i]).text # ""
      BY <1>2, <3>1, <3>2, Zenon DEF MenuOk
    <3> QED BY <3>3, Zenon DEF Called
  <2>2. CASE \E i \in {4, 5}, c \in Menus!Captions : m = [menu EXCEPT ![i].id = c.id, ![i].text = c.text]
    <3>1. PICK i \in {4, 5}, c \in Menus!Captions : m = [menu EXCEPT ![i].id = c.id, ![i].text = c.text]
      BY <2>2
    <3>2. PICK x, y \in Words : x = c.id /\ y = c.text /\ (x # "" \/ y # "")
      BY <1>3, Zenon
    <3> DEFINE new == [menu[i] EXCEPT !.id = x, !.text = y]
    <3>3. i \in 1 .. 5 /\ menu[i] \in kinds
      BY <1>2
    <3>4. new \in kinds /\ new.parent = menu[i].parent /\ new.id = x /\ new.text = y
      BY <3>2, <3>3, Zenon
    <3>5. m = [menu EXCEPT ![i] = new]
      BY <1>2, <3>1, <3>2, Zenon
    <3> HIDE DEF new
    <3>6. /\ m \in [1 .. 5 -> kinds] /\ m[i] = new
          /\ \A j \in 1 .. 5 : j # i => m[j] = menu[j]
      BY <1>2, <3>3, <3>4, <3>5
    <3> HIDE DEF kinds
    <3>7. ASSUME NEW j \in 1 .. 5
          PROVE  m[j].parent = menu[j].parent /\ (j # i => m[j].id = menu[j].id /\ m[j].text = menu[j].text)
      <4>1. CASE j = i
        BY <3>4, <3>6, <4>1
      <4>2. CASE j # i
        BY <3>6, <4>2
      <4> QED BY <4>1, <4>2
    <3>8. \A d \in {1, 2} : m[d].id = menu[d].id /\ m[d].text = menu[d].text
      <4>1. \A d \in {1, 2} : d \in 1 .. 5 /\ d # i
        OBVIOUS
      <4> QED BY <3>7, <4>1
    <3>9. ASSUME NEW j \in MenuParts PROVE m[j].id # "" \/ m[j].text # ""
      <4>1. j \in 1 .. 5
        BY DEF MenuParts
      <4>2. CASE j = i
        BY <3>2, <3>4, <3>6, <4>2, Zenon
      <4>3. CASE j # i
        BY <2>1, <3>6, <4>1, <4>3, Zenon
      <4> QED BY <4>2, <4>3, Zenon
    <3> QED BY <3>6, <3>7, <3>8, <3>9, Zenon
  <2>3. CASE m = [menu EXCEPT ![4].place = menu[5].place, ![5].place = menu[4].place]
    <3>1. PICK x, y \in 1 .. 5 : x = menu[5].place /\ y = menu[4].place
      BY <1>2
    <3> DEFINE a == [menu[4] EXCEPT !.place = x]
               b == [menu[5] EXCEPT !.place = y]
    <3>2. menu[4] \in kinds /\ menu[5] \in kinds
      BY <1>2
    <3>3. /\ a \in kinds /\ a.parent = menu[4].parent /\ a.id = menu[4].id /\ a.text = menu[4].text
          /\ b \in kinds /\ b.parent = menu[5].parent /\ b.id = menu[5].id /\ b.text = menu[5].text
      BY <3>1, <3>2
    <3>4. m = [menu EXCEPT ![4] = a, ![5] = b]
      BY <1>2, <2>3, <3>1
    <3> HIDE DEF a, b
    <3>5. /\ m \in [1 .. 5 -> kinds] /\ m[4] = a /\ m[5] = b
          /\ \A j \in 1 .. 5 : j # 4 /\ j # 5 => m[j] = menu[j]
      BY <1>2, <3>3, <3>4
    <3>6. \A j \in 1 .. 5 : m[j].parent = menu[j].parent /\ m[j].id = menu[j].id /\ m[j].text = menu[j].text
      <4> TAKE j \in 1 .. 5
      <4>1. CASE j = 4
        BY <3>3, <3>5, <4>1
      <4>2. CASE j = 5
        BY <3>3, <3>5, <4>2
      <4>3. CASE j # 4 /\ j # 5
        BY <3>5, <4>3
      <4> QED BY <4>1, <4>2, <4>3
    <3> HIDE DEF kinds
    <3>7. ASSUME NEW j \in MenuParts PROVE m[j].id # "" \/ m[j].text # ""
      <4>1. j \in 1 .. 5
        BY DEF MenuParts
      <4> QED BY <2>1, <3>6, <4>1, Zenon
    <3>8. \A d \in {1, 2} : m[d].id = menu[d].id /\ m[d].text = menu[d].text
      <4>1. \A d \in {1, 2} : d \in 1 .. 5
        OBVIOUS
      <4> QED BY <3>6, <4>1
    <3>9. \A j \in 1 .. 5 : m[j].parent = menu[j].parent
      BY <3>6
    <3> QED BY <3>5, <3>7, <3>8, <3>9, Zenon
  <2> QED BY <1>1, <2>2, <2>3, Zenon
<1>5. Changed(m, w)
  <2>1. Menus!Items \ Menus!Tops = MenuParts
    BY DEF Menus!Items, Menus!Tops, Menus!Leaves, Menus!Sub, MenuParts
  <2>2. w = worn \cup {<<i, Called(m[i])>> : i \in MenuParts}
    BY <1>1, <2>1 DEF Called
  <2>3. ASSUME NEW i \in MenuParts
        PROVE  Called(m[i]) \in texts /\ (Called(m[i]).id # "" \/ Called(m[i]).text # "")
    <3>3. i \in 1 .. 5
      BY DEF MenuParts
    <3>1. m[i] \in kinds
      <4> HIDE DEF kinds
      <4> QED BY <1>4, <3>3, Zenon
    <3>2. m[i].id \in Words /\ m[i].text \in Words
      BY <3>1
    <3> QED BY <1>4, <3>2, Zenon DEF Called
  <2>4. w \subseteq MenuParts \X texts /\ \A x \in w : x[2].id # "" \/ x[2].text # ""
    <3> SUFFICES ASSUME NEW x \in w PROVE x \in MenuParts \X texts /\ (x[2].id # "" \/ x[2].text # "")
      BY Zenon
    <3>1. CASE x \in worn
      BY <1>2, <3>1, Zenon DEF MenuOk
    <3>2. CASE \E i \in MenuParts : x = <<i, Called(m[i])>>
      <4>1. PICK i \in MenuParts : x = <<i, Called(m[i])>>
        BY <3>2
      <4>2. x[2] = Called(m[i])
        BY <4>1
      <4>3. x[2].id # "" \/ x[2].text # ""
        BY <2>3, <4>2, Zenon
      <4>4. \A y \in texts : <<i, y>> \in MenuParts \X texts
        OBVIOUS
      <4>5. x \in MenuParts \X texts
        BY <2>3, <4>1, <4>4, Zenon
      <4> QED BY <4>3, <4>5, Zenon
    <3> QED BY <2>2, <3>1, <3>2, Zenon
  <2>5. \A i \in MenuParts : <<i, Called(m[i])>> \in w
    BY <2>2
  <2>6. /\ m[1].parent = 0 /\ m[2].parent = 0 /\ m[3].parent = 1
        /\ m[4].parent \in {1, 2, 3} /\ m[5].parent \in {1, 2, 3}
        /\ \A t \in {1, 2} : m[t].id = "" /\ m[t].text # ""
    <3> HIDE DEF kinds
    <3>1. \A i \in {1, 2, 3, 4, 5} : m[i].parent = menu[i].parent
      <4>1. \A i \in {1, 2, 3, 4, 5} : i \in 1 .. 5
        OBVIOUS
      <4> QED BY <1>4, <4>1, Zenon
    <3>2. \A t \in {1, 2} : m[t].id = menu[t].id /\ m[t].text = menu[t].text
      BY <1>4, Zenon
    <3>3. /\ menu[1].parent = 0 /\ menu[2].parent = 0 /\ menu[3].parent = 1
          /\ menu[4].parent \in {1, 2, 3} /\ menu[5].parent \in {1, 2, 3}
          /\ \A t \in {1, 2} : menu[t].id = "" /\ menu[t].text # ""
      BY <1>2, Zenon DEF MenuOk
    <3> QED BY <3>1, <3>2, <3>3, Zenon
  <2>7. MenuOk(m, w)
    BY <1>4, <2>4, <2>5, <2>6, Zenon DEF MenuOk
  <2>8. worn \subseteq w
    BY <2>2
  <2> QED BY <1>4, <2>7, <2>8, Zenon DEF Changed
<1>6. /\ RepositoryInv(m, w, inventory) /\ RecordedInv(m, w, inventory, interactions)
      /\ LeadsInv(m, w, inventory, steps) /\ MenuOk(m, w)
  BY <1>5, MenuChanges DEF Changed
<1>7. FiresInv(m, w, steps, replayed')
  <2>1. replayed'.step = 0
    BY <1>1 DEF Menus!NoReplay
  <2>2. Len(steps) \in Nat
    BY DEF MenusInv, LeadsInv
  <2> QED BY <2>1, <2>2 DEF FiresInv
<1>8. SnapshotInv(inventory, snapshot)
  BY DEF MenusInv
<1> QED BY <1>1, <1>6, <1>7, <1>8 DEF MenusInv, m, w

LEMMA MenusKept ==
  ASSUME MenusInv, [Menus!Next]_Menus!vars
  PROVE  MenusInv'
<1>1. CASE UNCHANGED Menus!vars
  BY <1>1 DEF Menus!vars, MenusInv
<1>2. ASSUME NEW i \in Menus!Leaves, Menus!Pick(i) PROVE MenusInv'
  <2>1. i \in {4, 5}
    BY DEF Menus!Leaves
  <2> QED BY <1>2, <2>1, PickKeeps
<1> QED BY <1>1, <1>2, RecordingKeeps, ReviewKeeps, ApplicationKeeps, ReplayKeeps DEF Menus!Next

LEMMA MenusMeant ==
  ASSUME MenusInv
  PROVE  Menus!ReplaysRecorded
<1> DEFINE s == steps[replayed.step]
           sels == replayed.selectors
           AsLearned == \A k \in DOMAIN s.route :
             Menus!Caption(s.route[k]) = [id |-> sels[k].id, text |-> sels[k].text]
           Constant == \A v, w \in worn : v[1] = w[1] /\ v[1] \in Menus!Range(s.route) => v = w
<1> SUFFICES ASSUME replayed.step > 0, Menus!Apart, s.rivals = {}, AsLearned \/ Constant
             PROVE  replayed.item = s.item
  BY DEF Menus!ReplaysRecorded
<1>1. /\ MenuOk(menu, worn) /\ LeadsInv(menu, worn, inventory, steps) /\ FiresInv(menu, worn, steps, replayed)
      /\ Alone(menu, worn)
  BY MenuIs DEF MenusInv
<1>2. s \in MenuSteps /\ Fires(menu, worn, s, replayed)
  BY <1>1 DEF LeadsInv, FiresInv
<1> HIDE DEF s, sels
<1>3. /\ s.route \in Seq(MenuParts)
      /\ \A k \in 1 .. Len(s.route) : <<s.route[k], Called(sels[k])>> \in worn
      /\ (\A k \in 1 .. Len(s.route) : Called(menu[s.route[k]]) = Called(sels[k])) => replayed.item = s.item
  BY <1>1, <1>2 DEF Fires, MenuSteps, sels
<1>4. DOMAIN s.route = 1 .. Len(s.route) /\ \A k \in 1 .. Len(s.route) : s.route[k] \in MenuParts
  BY <1>3
<1>5. ASSUME NEW k \in 1 .. Len(s.route) PROVE Called(menu[s.route[k]]) = Called(sels[k])
  <2>1. CASE AsLearned
    <3>1. Menus!Caption(s.route[k]) = [id |-> sels[k].id, text |-> sels[k].text]
      BY <1>4, <2>1
    <3> QED BY <3>1 DEF Menus!Caption, Called
  <2>2. CASE Constant
    <3> DEFINE i == s.route[k]
               v == <<i, Called(sels[k])>>
               w == <<i, Called(menu[i])>>
    <3>1. v \in worn /\ w \in worn
      BY <1>1, <1>3, <1>4, Zenon DEF MenuOk
    <3>2. v[1] = w[1] /\ v[1] \in Menus!Range(s.route)
      BY <1>4 DEF Menus!Range
    <3>3. v = w
      <4> HIDE DEF v, w
      <4> QED BY <2>2, <3>1, <3>2
    <3>4. v[2] = Called(sels[k]) /\ w[2] = Called(menu[i])
      OBVIOUS
    <3> QED BY <3>3, <3>4
  <2> QED BY <2>1, <2>2
<1> QED BY <1>3, <1>5
-----------------------------------------------------------------------------
(* A recorded selection of a menu item fires, when its step is executed,   *)
(* the item that was clicked, whatever was recorded, reviewed, relabelled  *)
(* and moved in between, for any number of selections and relabellings, as *)
(* long as no two items of one menu were ever called the same and the item *)
(* had no rival for its key in the recording.                              *)
THEOREM SelectionsReplay == Spec => []ReplaysRecorded
<1> DEFINE Kept == part = "menus recorded" => MenusInv
<1>1. Init => Kept
  BY MenusStart, Zenon DEF Init
<1>2. Kept /\ [Next]_vars => Kept'
  <2> SUFFICES ASSUME Kept, [Next]_vars PROVE Kept'
    BY Zenon
  <2>1. UNCHANGED part /\ (part = "menus recorded" => [Menus!Next]_Menus!vars)
    BY Zenon DEF Next, vars, onlyMenus, Menus!vars
  <2> QED BY <2>1, MenusKept, Zenon
<1>3. Kept => ReplaysRecorded
  BY MenusMeant, Zenon DEF ReplaysRecorded
<1> QED BY <1>1, <1>2, <1>3, PTL DEF Spec
=============================================================================
