---------------------------- MODULE ServicesProofs ----------------------------
(***************************************************************************)
(* The services, for every set of clients, windows and projects and every  *)
(* number of registry threads, sessions and runs: the native registry of   *)
(* drivers/atspi_registry.py is entered by one thread at a time and        *)
(* stopped only when nobody uses it; one window records at a time and      *)
(* leaves nothing behind; what the files of the runtime and of the batches *)
(* say is true; the desktop of a run is clear.                             *)
(***************************************************************************)
EXTENDS Services, Sequences, FiniteSetTheorems, TLAPS

-----------------------------------------------------------------------------
(* The registry *)

(* Every thread but the current one is not yet born or has ended. *)
OthersIdle == \A t \in Threads : t # thread => native[t] \in {"unborn", "ended"}

IInv == Shape /\ UsersCounted /\ OthersIdle /\ LeasesOpenAtWork

LEMMA InitIInv == Init => IInv
<1> SUFFICES ASSUME Init PROVE IInv
  OBVIOUS
<1>1. Shape
  BY DEF Init, Shape
<1>2. Using = {}
  BY DEF Init, Using
<1>3. UsersCounted
  BY <1>2, FS_EmptySet DEF Init, UsersCounted
<1>4. OthersIdle /\ LeasesOpenAtWork
  BY DEF Init, OthersIdle, LeasesOpenAtWork
<1>5. QED BY <1>1, <1>3, <1>4 DEF IInv

LEMMA TypeKept == IInv /\ [Next]_vars => Shape'
<1> SUFFICES ASSUME Shape, [Next]_vars PROVE Shape'
  BY DEF IInv
<1>1. ASSUME NEW c \in Clients, Acquire(c) PROVE Shape'
  <2>1. /\ users' = users + 1 /\ UNCHANGED <<lease, joining>>
        /\ client' = [client EXCEPT ![c] = "waiting"]
        /\ started' = FALSE \/ UNCHANGED started
    BY <1>1 DEF Acquire
  <2>2. /\ thread' \in Threads \cup {NoThread}
        /\ native' \in [Threads -> {"unborn", "spawned", "entering", "dispatching", "unwinding", "ended"}]
    BY <1>1 DEF Acquire, Unborn, Shape
  <2>3. users' \in Nat /\ client' \in [Clients -> {"away", "waiting", "working", "releasing"}]
    BY <2>1 DEF Shape
  <2>4. started' \in BOOLEAN
    BY <2>1 DEF Shape
  <2>5. QED BY <2>1, <2>2, <2>3, <2>4 DEF Shape
<1>2. ASSUME NEW c \in Clients, Granted(c) \/ AcquireTimesOut(c) \/ Close(c) PROVE Shape'
  BY <1>2 DEF Granted, AcquireTimesOut, Close, Shape
<1>3. ASSUME NEW c \in Clients, Release(c) PROVE Shape'
  BY <1>3 DEF Release, Shape
<1>4. ASSUME NEW t \in Threads, Run(t) \/ EnterLoop(t) \/ LeaveLoop(t) PROVE Shape'
  BY <1>4 DEF Run, EnterLoop, LeaveLoop, Shape
<1>5. CASE Shutdown
  BY <1>5 DEF Shutdown, RegistryStop, Shape
<1>6. CASE Joined \/ JoinTimesOut
  BY <1>6 DEF Joined, JoinTimesOut, Shape
<1>7. CASE UNCHANGED vars
  BY <1>7 DEF vars, Shape
<1>8. QED BY <1>1, <1>2, <1>3, <1>4, <1>5, <1>6, <1>7 DEF Next

LEMMA CountKept == IInv /\ [Next]_vars => UsersCounted'
<1> SUFFICES ASSUME IInv, [Next]_vars PROVE UsersCounted'
  OBVIOUS
<1> USE DEF IInv
<1>1. IsFiniteSet(Using)
  BY ClientsAssumption, FS_Subset DEF Using
<1>2. ASSUME NEW c \in Clients, Acquire(c) PROVE UsersCounted'
  <2>1. c \notin Using /\ Using' = Using \cup {c} /\ users' = users + 1
    BY <1>2 DEF Acquire, Using, Shape
  <2>2. Cardinality(Using \cup {c}) = Cardinality(Using) + 1
    BY <1>1, <2>1, FS_AddElement
  <2>3. QED BY <2>1, <2>2 DEF UsersCounted
<1>3. ASSUME NEW c \in Clients, Release(c) PROVE UsersCounted'
  <2>1. c \in Using /\ Using' = Using \ {c}
    BY <1>3 DEF Release, Using, Shape
  <2>2. Cardinality(Using \ {c}) = Cardinality(Using) - 1 /\ Cardinality(Using) \in Nat
    BY <1>1, <2>1, FS_RemoveElement, FS_CardinalityType
  <2>3. Cardinality(Using) # 0
    BY <1>1, <2>1, FS_EmptySet
  <2>4. users' = users - 1
    BY <1>3, <2>2, <2>3 DEF Release, UsersCounted
  <2>5. QED BY <2>1, <2>2, <2>4 DEF UsersCounted
<1>4. ASSUME NEW c \in Clients, Granted(c) \/ AcquireTimesOut(c) \/ Close(c)
      PROVE  Using' = Using /\ UNCHANGED users
  BY <1>4 DEF Granted, AcquireTimesOut, Close, LeasesOpenAtWork, Using, Shape
<1>5. ASSUME NEW t \in Threads, Run(t) \/ EnterLoop(t) \/ LeaveLoop(t)
      PROVE  Using' = Using /\ UNCHANGED users
  BY <1>5 DEF Run, EnterLoop, LeaveLoop, Using
<1>6. Shutdown \/ Joined \/ JoinTimesOut \/ UNCHANGED vars => Using' = Using /\ UNCHANGED users
  BY DEF Shutdown, Joined, JoinTimesOut, vars, Using
<1>7. Using' = Using /\ UNCHANGED users => UsersCounted'
  BY DEF UsersCounted
<1>8. QED BY <1>2, <1>3, <1>4, <1>5, <1>6, <1>7 DEF Next

LEMMA ThreadsKept == IInv /\ [Next]_vars => OthersIdle'
<1> SUFFICES ASSUME Shape, OthersIdle, [Next]_vars PROVE OthersIdle'
  BY DEF IInv
<1>1. ASSUME NEW c \in Clients, Acquire(c) PROVE OthersIdle'
  <2>1. CASE UNCHANGED <<thread, native>>
    BY <2>1 DEF OthersIdle
  <2>2. CASE thread = NoThread
    <3>1. PICK t \in Threads : thread' = t /\ native' = [native EXCEPT ![t] = "spawned"]
      BY <1>1, <2>2 DEF Acquire, Unborn
    <3>2. \A s \in Threads : native[s] \in {"unborn", "ended"}
      BY <2>2 DEF OthersIdle, Threads, NoThread
    <3>3. QED BY <3>1, <3>2 DEF OthersIdle, Shape
  <2>3. QED BY <1>1, <2>1, <2>2 DEF Acquire
<1>2. ASSUME NEW t \in Threads, Run(t) \/ EnterLoop(t) \/ LeaveLoop(t) PROVE OthersIdle'
  <2>1. t = thread /\ UNCHANGED thread
    BY <1>2 DEF Run, EnterLoop, LeaveLoop, OthersIdle
  <2>2. \A s \in Threads : s # t => native'[s] = native[s]
    BY <1>2 DEF Run, EnterLoop, LeaveLoop, Shape
  <2>3. QED BY <2>1, <2>2 DEF OthersIdle
<1>3. CASE Shutdown
  BY <1>3 DEF Shutdown, RegistryStop, OthersIdle
<1>4. CASE Joined
  BY <1>4 DEF Joined, OthersIdle
<1>5. ASSUME NEW c \in Clients, Granted(c) \/ AcquireTimesOut(c) \/ Close(c) \/ Release(c)
      PROVE  UNCHANGED <<thread, native>>
  BY <1>5 DEF Granted, AcquireTimesOut, Close, Release
<1>6. JoinTimesOut \/ UNCHANGED vars => UNCHANGED <<thread, native>>
  BY DEF JoinTimesOut, vars
<1>7. UNCHANGED <<thread, native>> => OthersIdle'
  BY DEF OthersIdle
<1>8. QED BY <1>1, <1>2, <1>3, <1>4, <1>5, <1>6, <1>7 DEF Next

LEMMA LeasesKept == IInv /\ [Next]_vars => LeasesOpenAtWork'
<1> SUFFICES ASSUME Shape, LeasesOpenAtWork, [Next]_vars PROVE LeasesOpenAtWork'
  BY DEF IInv
<1>1. ASSUME NEW c \in Clients,
             Acquire(c) \/ Granted(c) \/ AcquireTimesOut(c) \/ Close(c) \/ Release(c)
      PROVE  LeasesOpenAtWork'
  BY <1>1 DEF Acquire, Granted, AcquireTimesOut, Close, Release, LeasesOpenAtWork, Shape
<1>2. ASSUME NEW t \in Threads, Run(t) \/ EnterLoop(t) \/ LeaveLoop(t)
      PROVE  UNCHANGED <<client, lease>>
  BY <1>2 DEF Run, EnterLoop, LeaveLoop
<1>3. Shutdown \/ Joined \/ JoinTimesOut \/ UNCHANGED vars => UNCHANGED <<client, lease>>
  BY DEF Shutdown, Joined, JoinTimesOut, vars
<1>4. UNCHANGED <<client, lease>> => LeasesOpenAtWork'
  BY DEF LeasesOpenAtWork
<1>5. QED BY <1>1, <1>2, <1>3, <1>4 DEF Next

LEMMA NextIInv == IInv /\ [Next]_vars => IInv'
  BY TypeKept, CountKept, ThreadsKept, LeasesKept DEF IInv

(* Counter, thread, clients and leases keep their values. *)
THEOREM RegistryTypeCorrect == Spec => []TypeOK
<1>1. IInv => TypeOK
  BY DEF IInv, TypeOK
<1>2. QED BY <1>1, InitIInv, NextIInv, PTL DEF Spec

(* At most one thread at a time is inside Registry.start().                *)
THEOREM LoopIsExclusive == Spec => []OneDispatcher
<1>1. IInv => OneDispatcher
  BY DEF IInv, OthersIdle, OneDispatcher, Dispatchers
<1>2. QED BY <1>1, InitIInv, NextIInv, PTL DEF Spec

(* The reference count equals the number of clients that owe a release.    *)
THEOREM CountIsExact == Spec => []UsersCounted
<1>1. IInv => UsersCounted
  BY DEF IInv
<1>2. QED BY <1>1, InitIInv, NextIInv, PTL DEF Spec

(* The loop is stopped only when no client waits for, holds or is          *)
(* returning a lease.                                                      *)
THEOREM LeasesProtectLoop == Spec => StopsOnlyIdleLoop
<1>1. IInv /\ [Next]_vars =>
        [(\E t \in Threads : native[t] = "dispatching" /\ native'[t] = "unwinding")
           => Using = {}]_vars
  <2> SUFFICES ASSUME IInv, [Next]_vars, NEW t \in Threads,
                      native[t] = "dispatching", native'[t] = "unwinding"
               PROVE  Using = {}
    OBVIOUS
  <2>1. CASE Shutdown
    <3>1. Cardinality(Using) = 0
      BY <2>1 DEF Shutdown, IInv, UsersCounted
    <3>2. QED BY <3>1, ClientsAssumption, FS_Subset, FS_EmptySet DEF Using
  <2>2. CASE \E c \in Clients : Acquire(c)
    BY <2>2 DEF Acquire, Unborn, IInv, Shape
  <2>3. ASSUME NEW c \in Clients, Granted(c) \/ AcquireTimesOut(c) \/ Close(c) \/ Release(c)
        PROVE  FALSE
    BY <2>3 DEF Granted, AcquireTimesOut, Close, Release
  <2>4. ASSUME NEW s \in Threads, Run(s) \/ EnterLoop(s) \/ LeaveLoop(s) PROVE FALSE
    BY <2>4 DEF Run, EnterLoop, LeaveLoop, IInv, Shape
  <2>5. ~ (Joined \/ JoinTimesOut \/ UNCHANGED vars)
    BY DEF Joined, JoinTimesOut, vars
  <2>6. QED BY <2>1, <2>2, <2>3, <2>4, <2>5 DEF Next
<1>2. QED BY <1>1, InitIInv, NextIInv, PTL DEF Spec, StopsOnlyIdleLoop

-----------------------------------------------------------------------------
(* The recorder of the Test Plan windows *)

WindowRecords ==
  [session : BOOLEAN, pending : BOOLEAN, gen : Nat, watch : Nat, stop : Nat, shown : BOOLEAN,
   press : BOOLEAN, lit : BOOLEAN, suspended : SUBSET Windows]
Callbacks ==
  [kind : {"start", "stop"}, window : {NoWindow}, gen : {0}]
    \cup [kind : {"prepare", "destroy", "highlight"}, window : Windows, gen : Nat]
DialogFrames == [kind : {"message", "confirm", "review", "failed"}, window : Windows]

RecorderShape ==
  /\ owner \in Windows \cup {NoWindow} /\ active \in alive \cup {NoWindow}
  /\ win \in [Windows -> WindowRecords]
  /\ alive \subseteq Windows /\ visible \subseteq alive
  /\ dialogs \in Seq(DialogFrames)
IdleShape == idle \in Seq(Callbacks)

(* A window records or stops; one that is gone waits for nothing.          *)
Phases ==
  \A w \in Windows :
    /\ ~ (win[w].session /\ win[w].pending)
    /\ w \notin alive => win[w].watch = 0 /\ win[w].stop = 0

OwnerIsBusy == owner # NoWindow => Recorder!Busy(owner)

(* Who is hidden will be shown by the recording that hid it.               *)
HiddenForRecording ==
  \A v \in alive \ visible :
    \/ \E w \in Windows \ alive : v \in win[w].suspended
    \/ owner # NoWindow /\ v \in win[owner].suspended

Cleared(w, q) == \E i \in DOMAIN q : q[i] = Recorder!Callback("prepare", w, 0)
Highlights == \A w \in Windows : win[w].lit => win[w].session \/ Cleared(w, idle)

WindowInv ==
  /\ RecorderShape /\ Phases /\ OwnerIsBusy /\ Recorder!OneRecording
  /\ Recorder!CompletionIsCurrent /\ HiddenForRecording
QueueInv == IdleShape /\ Highlights

LEMMA PrepareCallback ==
  \A w : Recorder!Callback("prepare", w, 0).kind = "prepare" /\ Recorder!Callback("prepare", w, 0).window = w
BY DEF Recorder!Callback

LEMMA QueuedCallbacks ==
  ASSUME NEW q \in Seq(Callbacks), NEW c \in Callbacks
  PROVE  /\ Append(q, c) \in Seq(Callbacks)
         /\ \A w : Cleared(w, q) => Cleared(w, Append(q, c))
         /\ \A w : c = Recorder!Callback("prepare", w, 0) => Cleared(w, Append(q, c))
<1>1. Append(q, c) \in Seq(Callbacks)
  OBVIOUS
<1>2. /\ DOMAIN q \subseteq DOMAIN Append(q, c) /\ Len(q) + 1 \in DOMAIN Append(q, c)
      /\ \A i \in DOMAIN q : Append(q, c)[i] = q[i]
      /\ Append(q, c)[Len(q) + 1] = c
  OBVIOUS
<1>3. QED BY <1>1, <1>2 DEF Cleared

LEMMA DispatchedCallback ==
  ASSUME NEW q \in Seq(Callbacks), q # <<>>
  PROVE  /\ Head(q) \in Callbacks /\ Tail(q) \in Seq(Callbacks)
         /\ \A w : Cleared(w, q) /\ Head(q) # Recorder!Callback("prepare", w, 0) => Cleared(w, Tail(q))
<1>1. Head(q) \in Callbacks /\ Tail(q) \in Seq(Callbacks) /\ Head(q) = q[1]
  OBVIOUS
<1>2. \A i \in DOMAIN q : i # 1 => i - 1 \in DOMAIN Tail(q) /\ Tail(q)[i - 1] = q[i]
  OBVIOUS
<1>3. QED BY <1>1, <1>2 DEF Cleared

LEMMA WindowInvInit == Recorder!Init => WindowInv /\ QueueInv
<1> SUFFICES ASSUME Recorder!Init PROVE WindowInv /\ QueueInv
  OBVIOUS
<1> USE DEF Recorder!Init, Recorder!None
<1>1. RecorderShape
  BY DEF RecorderShape, WindowRecords
<1>2. idle \in Seq(Callbacks)
  OBVIOUS
<1>3. Phases /\ OwnerIsBusy /\ HiddenForRecording
  BY DEF Phases, OwnerIsBusy, HiddenForRecording
<1>4. Recorder!OneRecording /\ Recorder!CompletionIsCurrent
  BY DEF Recorder!OneRecording, Recorder!Busy, Recorder!CompletionIsCurrent
<1>5. Highlights
  BY DEF Highlights
<1>6. QED BY <1>1, <1>2, <1>3, <1>4, <1>5 DEF WindowInv, QueueInv, IdleShape

(* A step that leaves owner, windows and what the invariant says of the    *)
(* recordings alone.                                                       *)
SameRecording(r, s) ==
  /\ s.session = r.session /\ s.pending = r.pending /\ s.gen = r.gen /\ s.watch = r.watch
  /\ s.suspended = r.suspended /\ s.stop \in {r.stop, 0}

LEMMA QuietStep ==
  ASSUME WindowInv, UNCHANGED <<owner, alive, visible>>, active' \in alive \cup {NoWindow},
         win' \in [Windows -> WindowRecords], dialogs' \in Seq(DialogFrames),
         \A w \in Windows : SameRecording(win[w], win'[w])
  PROVE  WindowInv'
<1> USE DEF WindowInv, SameRecording
<1>1. RecorderShape'
  BY DEF RecorderShape
<1>2. Phases'
  BY DEF Phases
<1>3. OwnerIsBusy' /\ Recorder!OneRecording' /\ Recorder!CompletionIsCurrent'
  BY DEF OwnerIsBusy, RecorderShape, Recorder!OneRecording, Recorder!Busy, Recorder!CompletionIsCurrent
<1>4. HiddenForRecording'
  BY DEF HiddenForRecording, RecorderShape
<1>5. QED BY <1>1, <1>2, <1>3, <1>4

(* Nor what Highlights says of a window. *)
SameRun(r, s) == s.lit = r.lit /\ s.session = r.session

LEMMA StartKeeps ==
  ASSUME WindowInv, NEW w \in alive, NEW rest, Recorder!StartRecording(w, rest)
  PROVE  /\ WindowInv' /\ idle' = rest
         /\ \A v \in Windows : /\ win'[v].lit = win[v].lit
                               /\ win[v].session => win'[v].session
<1> USE DEF WindowInv
<1> DEFINE next == win[w].gen + 1
<1> HIDE DEF next
<1> DEFINE r == [win[w] EXCEPT !.session = TRUE, !.gen = next, !.stop = next,
                              !.shown = TRUE, !.suspended = visible]
<1>1. /\ ~ Recorder!Busy(w) /\ owner \in {NoWindow, w} /\ owner' = w /\ visible' = {} /\ idle' = rest
      /\ UNCHANGED <<alive, active, dialogs>>
  BY DEF Recorder!StartRecording, Recorder!Started
<1>2. w \in Windows /\ win[w] \in WindowRecords /\ visible \subseteq Windows
  BY DEF RecorderShape
<1>3. win' = [win EXCEPT ![w] = r] /\ r \in WindowRecords
  <2> DEFINE on == [win[w] EXCEPT !.session = TRUE, !.gen = next]
  <2>1. win' = [win EXCEPT ![w] = Recorder!Suspending(Recorder!WithStop(on, on.gen))]
    BY DEF Recorder!StartRecording, Recorder!Started, next
  <2>0. next \in Nat /\ visible \in SUBSET Windows
    BY <1>2 DEF WindowRecords, next
  <2>2. on \in WindowRecords /\ on.gen = next
    BY <1>2, <2>0 DEF WindowRecords
  <2>3. [[on EXCEPT !.stop = on.gen, !.shown = TRUE] EXCEPT !.suspended = visible] = r
    BY <1>2, <2>2 DEF WindowRecords
  <2>4. r \in WindowRecords
    BY <1>2, <2>0 DEF WindowRecords
  <2>5. QED BY <2>1, <2>3, <2>4 DEF Recorder!Suspending, Recorder!WithStop
<1>4. /\ r.session = TRUE /\ r.pending = win[w].pending /\ r.watch = win[w].watch
      /\ r.lit = win[w].lit /\ r.suspended = visible
  BY <1>2 DEF WindowRecords
<1>5. owner = NoWindow
  BY <1>1 DEF OwnerIsBusy
<1> HIDE DEF r
<1>6. win'[w] = r /\ \A v \in Windows : v # w => win'[v] = win[v]
  BY <1>2, <1>3 DEF RecorderShape
<1>7. RecorderShape'
  BY <1>1, <1>2, <1>3 DEF RecorderShape
<1>8. Phases'
  BY <1>1, <1>4, <1>6 DEF Phases, Recorder!Busy
<1>9. OwnerIsBusy' /\ Recorder!OneRecording' /\ Recorder!CompletionIsCurrent'
  <2>1. win[w].pending = FALSE
    BY <1>1, <1>2 DEF Recorder!Busy, WindowRecords
  <2>2. \A v \in Windows : v # w /\ v \in alive => ~Recorder!Busy(v)
    BY <1>5, RecorderAssumption DEF Recorder!OneRecording
  <2>3. QED BY <1>1, <1>2, <1>4, <1>6, <2>1, <2>2
        DEF OwnerIsBusy, RecorderShape, Recorder!OneRecording, Recorder!Busy, Recorder!CompletionIsCurrent
<1>10. HiddenForRecording'
  BY <1>1, <1>2, <1>4, <1>5, <1>6, RecorderAssumption DEF HiddenForRecording, RecorderShape
<1>11. QED BY <1>1, <1>4, <1>6, <1>7, <1>8, <1>9, <1>10

LEMMA StopKeeps ==
  ASSUME WindowInv, NEW w \in alive, NEW rest \in Seq(Callbacks), Recorder!StopRecording(w, rest)
  PROVE  /\ WindowInv' /\ idle' = Append(rest, Recorder!Callback("prepare", w, 0))
         /\ \A v \in Windows : /\ win'[v].lit = win[v].lit
                               /\ v # w => win'[v].session = win[v].session
<1> USE DEF WindowInv
<1> DEFINE r == [win[w] EXCEPT !.session = FALSE, !.pending = TRUE, !.watch = win[w].gen]
<1>1. /\ win[w].session /\ ~win[w].pending
      /\ UNCHANGED <<owner, alive, visible, active, dialogs>>
      /\ idle' = Append(rest, Recorder!Callback("prepare", w, 0))
  BY DEF Recorder!StopRecording, Recorder!desktop, Recorder!None
<1>2. w \in Windows /\ win[w] \in WindowRecords
  BY DEF RecorderShape
<1>3. win' = [win EXCEPT ![w] = r] /\ r \in WindowRecords
  BY <1>2 DEF Recorder!StopRecording, WindowRecords, RecorderShape
<1>4. /\ r.session = FALSE /\ r.pending = TRUE /\ r.watch = win[w].gen /\ r.gen = win[w].gen
      /\ r.lit = win[w].lit /\ r.suspended = win[w].suspended /\ r.stop = win[w].stop
  BY <1>2 DEF WindowRecords
<1> HIDE DEF r
<1>5. win'[w] = r /\ \A v \in Windows : v # w => win'[v] = win[v]
  BY <1>2, <1>3 DEF RecorderShape
<1>6. RecorderShape' /\ Phases'
  BY <1>1, <1>2, <1>3, <1>4, <1>5 DEF RecorderShape, Phases
<1>7. OwnerIsBusy' /\ Recorder!OneRecording' /\ Recorder!CompletionIsCurrent'
  BY <1>1, <1>2, <1>4, <1>5
     DEF OwnerIsBusy, RecorderShape, Recorder!OneRecording, Recorder!Busy, Recorder!CompletionIsCurrent
<1>8. HiddenForRecording'
  BY <1>1, <1>2, <1>4, <1>5 DEF HiddenForRecording, RecorderShape
<1>9. QED BY <1>1, <1>4, <1>5, <1>6, <1>7, <1>8

LEMMA DestroyKeeps ==
  ASSUME WindowInv, NEW w \in alive, Recorder!Destroyed(w), dialogs' \in Seq(DialogFrames)
  PROVE  WindowInv' /\ \A v \in Windows : SameRun(win[v], win'[v])
<1> USE DEF WindowInv
<1> DEFINE r == [win[w] EXCEPT !.watch = 0, !.stop = 0, !.shown = FALSE]
<1>1. /\ alive' = alive \ {w} /\ visible' = visible \ {w} /\ active' \in alive' \cup {NoWindow}
      /\ owner' = IF owner = w /\ ~ win[w].session THEN NoWindow ELSE owner
  BY DEF Recorder!Destroyed, Recorder!LastActive, Recorder!OwnerWithout, RecorderShape
<1>2. w \in Windows /\ win[w] \in WindowRecords
  BY DEF RecorderShape
<1>3. win' = [win EXCEPT ![w] = r] /\ r \in WindowRecords
  BY <1>2 DEF Recorder!Destroyed, Recorder!Unwatched, Recorder!None, WindowRecords
<1>4. /\ r.session = win[w].session /\ r.pending = win[w].pending /\ r.watch = 0 /\ r.stop = 0
      /\ r.lit = win[w].lit /\ r.suspended = win[w].suspended
  BY <1>2 DEF WindowRecords
<1> HIDE DEF r
<1>5. win'[w] = r /\ \A v \in Windows : v # w => win'[v] = win[v]
  BY <1>2, <1>3 DEF RecorderShape
<1>6. RecorderShape' /\ Phases'
  BY <1>1, <1>2, <1>3, <1>4, <1>5 DEF RecorderShape, Phases
<1>7. OwnerIsBusy' /\ Recorder!OneRecording' /\ Recorder!CompletionIsCurrent'
  BY <1>1, <1>2, <1>4, <1>5
     DEF OwnerIsBusy, RecorderShape, Recorder!OneRecording, Recorder!Busy, Recorder!CompletionIsCurrent
<1>8. HiddenForRecording'
  BY <1>1, <1>2, <1>4, <1>5 DEF HiddenForRecording, RecorderShape
<1>9. QED BY <1>4, <1>5, <1>6, <1>7, <1>8 DEF SameRun

LEMMA FinishKeeps ==
  ASSUME WindowInv, NEW w \in alive, NEW result, win[w].pending, Recorder!RecordingFinished(w, result)
  PROVE  /\ WindowInv'
         /\ \A v \in Windows : SameRun(win[v], win'[v])
         /\ \/ UNCHANGED idle
            \/ idle' = Append(idle, Recorder!Callback("destroy", w, win[w].stop))
<1> USE DEF WindowInv
<1> DEFINE r == [win[w] EXCEPT !.pending = FALSE, !.watch = 0, !.suspended = {}]
<1>1. /\ owner' = (IF owner = w THEN NoWindow ELSE owner)
      /\ visible' = visible \cup (win[w].suspended \cap alive)
      /\ UNCHANGED <<alive, active>>
  BY DEF Recorder!RecordingFinished, Recorder!Released, Recorder!Shown
<1>2. w \in Windows /\ win[w] \in WindowRecords /\ owner = w
  BY DEF RecorderShape, Recorder!OneRecording, Recorder!Busy
<1>3. win' = [win EXCEPT ![w] = r] /\ r \in WindowRecords
  BY <1>2 DEF Recorder!RecordingFinished, Recorder!Finished, Recorder!None, WindowRecords
<1>4. /\ r.session = win[w].session /\ r.pending = FALSE /\ r.watch = 0 /\ r.stop = win[w].stop
      /\ r.lit = win[w].lit /\ r.suspended = {}
  BY <1>2 DEF WindowRecords
<1> HIDE DEF r
<1>5. win'[w] = r /\ \A v \in Windows : v # w => win'[v] = win[v]
  BY <1>2, <1>3 DEF RecorderShape
<1>6. /\ dialogs' \in Seq(DialogFrames)
      /\ UNCHANGED idle \/ idle' = Append(idle, Recorder!Callback("destroy", w, win[w].stop))
  <2>1. ASSUME NEW kind \in {"review", "failed"}, Recorder!Open(kind, w)
        PROVE  dialogs' \in Seq(DialogFrames)
    BY <1>2, <2>1 DEF Recorder!Open, DialogFrames, RecorderShape
  <2>2. QED BY <2>1 DEF Recorder!RecordingFinished, Recorder!DestroyLater, RecorderShape
<1>7. RecorderShape' /\ Phases'
  BY <1>1, <1>2, <1>3, <1>4, <1>5, <1>6 DEF RecorderShape, Phases
<1>8. \A v \in alive : v # w => ~ Recorder!Busy(v)
  BY <1>2 DEF Recorder!OneRecording
<1>9. win[w].session = FALSE
  BY <1>2 DEF Phases, WindowRecords
<1>10. OwnerIsBusy' /\ Recorder!OneRecording'
  BY <1>1, <1>2, <1>4, <1>5, <1>8, <1>9 DEF OwnerIsBusy, RecorderShape, Recorder!OneRecording, Recorder!Busy
<1>11. Recorder!CompletionIsCurrent'
  BY <1>1, <1>2, <1>4, <1>5 DEF RecorderShape, Recorder!CompletionIsCurrent, Recorder!None
<1>12. HiddenForRecording'
  BY <1>1, <1>2, <1>4, <1>5, RecorderAssumption DEF HiddenForRecording, RecorderShape
<1>13. QED BY <1>4, <1>5, <1>6, <1>7, <1>10, <1>11, <1>12 DEF SameRun

LEMMA RefusedKeeps ==
  ASSUME WindowInv, NEW w \in Windows, NEW rest, Recorder!StartRefused(w, rest)
  PROVE  WindowInv' /\ UNCHANGED win /\ idle' = rest
<1>1. dialogs' \in Seq(DialogFrames)
  BY DEF WindowInv, RecorderShape, Recorder!StartRefused, Recorder!Open, DialogFrames
<1>2. /\ UNCHANGED <<owner, win, alive, visible, active>> /\ idle' = rest
      /\ win \in [Windows -> WindowRecords] /\ active \in alive \cup {NoWindow}
  BY DEF WindowInv, RecorderShape, Recorder!StartRefused, Recorder!desktop
<1>3. QED BY <1>1, <1>2, QuietStep DEF SameRecording

(* A step that changes what a window shows, not what it records.           *)
LEMMA ShownStep ==
  ASSUME WindowInv, NEW w \in Windows, NEW r \in WindowRecords, win' = [win EXCEPT ![w] = r],
         SameRecording(win[w], r), UNCHANGED <<owner, alive, visible, active, dialogs>>
  PROVE  WindowInv' /\ win'[w] = r /\ \A v \in Windows : v # w => win'[v] = win[v]
<1>1. win' \in [Windows -> WindowRecords] /\ win'[w] = r /\ \A v \in Windows : v # w => win'[v] = win[v]
  BY DEF WindowInv, RecorderShape
<1>2. \A v \in Windows : SameRecording(win[v], win'[v])
  BY <1>1 DEF SameRecording
<1>3. QED BY <1>1, <1>2, QuietStep DEF WindowInv, RecorderShape

LEMMA DispatchKeeps ==
  ASSUME WindowInv, QueueInv, idle # <<>>, Head(idle).kind \in {"start", "stop"},
         Recorder!Dispatch(Tail(idle))
  PROVE  WindowInv' /\ QueueInv'
<1> DEFINE rest == Tail(idle)
<1>1. /\ rest \in Seq(Callbacks) /\ \A w \in Windows : Cleared(w, idle) => Cleared(w, rest)
  BY DispatchedCallback, PrepareCallback DEF QueueInv, IdleShape
<1> HIDE DEF rest
<1>2. CASE Recorder!Ignored(rest)
  <2>1. UNCHANGED <<owner, win, alive, visible, active, dialogs>> /\ idle' = rest
    BY <1>2 DEF Recorder!Ignored, Recorder!desktop
  <2>2. WindowInv'
    BY <2>1, QuietStep DEF WindowInv, RecorderShape, SameRecording
  <2>3. QED BY <1>1, <2>1, <2>2 DEF QueueInv, IdleShape, Highlights
<1>3. CASE active # NoWindow /\ Recorder!StartRecording(active, rest)
  <2>1. active \in alive /\ alive \subseteq Windows
    BY <1>3 DEF WindowInv, RecorderShape
  <2>2. /\ WindowInv' /\ idle' = rest
        /\ \A v \in Windows : win'[v].lit = win[v].lit /\ (win[v].session => win'[v].session)
    BY <1>3, <2>1, StartKeeps
  <2>3. QED BY <1>1, <2>2 DEF QueueInv, IdleShape, Highlights
<1>4. CASE active # NoWindow /\ Recorder!StartRefused(active, rest)
  <2>1. active \in Windows
    BY <1>4 DEF WindowInv, RecorderShape
  <2>2. WindowInv' /\ UNCHANGED win /\ idle' = rest
    BY <1>4, <2>1, RefusedKeeps
  <2>3. QED BY <1>1, <2>2 DEF QueueInv, IdleShape, Highlights
<1>5. CASE active # NoWindow /\ Recorder!StopRecording(active, rest)
  <2>1. active \in alive /\ active \in Windows
    BY <1>5 DEF WindowInv, RecorderShape
  <2> DEFINE c == Recorder!Callback("prepare", active, 0)
  <2>2. /\ WindowInv' /\ idle' = Append(rest, c)
        /\ \A v \in Windows : win'[v].lit = win[v].lit /\ (v # active => win'[v].session = win[v].session)
    BY <1>1, <1>5, <2>1, StopKeeps
  <2>3. c \in Callbacks
    BY <2>1 DEF Callbacks, Recorder!Callback
  <2>4. /\ idle' \in Seq(Callbacks) /\ \A w : Cleared(w, rest) => Cleared(w, idle')
        /\ Cleared(active, idle')
    BY <1>1, <2>2, <2>3, QueuedCallbacks
  <2>5. QED BY <1>1, <2>2, <2>4 DEF QueueInv, IdleShape, Highlights
<1>6. QED BY <1>2, <1>3, <1>4, <1>5 DEF Recorder!Dispatch, rest

LEMMA RunIdleKeeps ==
  ASSUME WindowInv, QueueInv, Recorder!RunIdle
  PROVE  WindowInv' /\ QueueInv'
<1> DEFINE c == Head(idle)
           rest == Tail(idle)
           w == Head(idle).window
<1>1. /\ idle # <<>> /\ c \in Callbacks /\ rest \in Seq(Callbacks)
      /\ \A v : Cleared(v, idle) /\ c # Recorder!Callback("prepare", v, 0) => Cleared(v, rest)
  BY DispatchedCallback DEF Recorder!RunIdle, QueueInv, IdleShape
<1>2. CASE c.kind \in {"start", "stop"}
  BY <1>1, <1>2, DispatchKeeps DEF Recorder!RunIdle
<1>3. CASE c.kind \notin {"start", "stop"}
  <2>1. w \in Windows /\ c.kind \in {"prepare", "destroy", "highlight"} /\ win[w] \in WindowRecords
    BY <1>1, <1>3 DEF Callbacks, WindowInv, RecorderShape
  <2>2. /\ idle' = rest /\ UNCHANGED <<owner, alive, visible, active, dialogs>>
        /\ c.kind = "prepare" => win' = Recorder!Prepare(w)
        /\ c.kind = "destroy" => win' = Recorder!DestroyStop(w, c.gen)
        /\ c.kind = "highlight" => win' = Recorder!ShowHighlight(w)
    BY <1>3, <2>1 DEF Recorder!RunIdle, Recorder!desktop
  <2>3. CASE c.kind = "prepare"
    <3> DEFINE r == [win[w] EXCEPT !.lit = FALSE, !.shown = FALSE]
    <3>1. r \in WindowRecords /\ SameRecording(win[w], r) /\ r.lit = FALSE
      BY <2>1 DEF WindowRecords, SameRecording
    <3>2. win' = [win EXCEPT ![w] = r]
      BY <2>1, <2>2, <2>3 DEF Recorder!Prepare, WindowInv, RecorderShape
    <3> HIDE DEF r
    <3>3. WindowInv' /\ win'[w] = r /\ \A v \in Windows : v # w => win'[v] = win[v]
      BY <2>1, <2>2, <3>1, <3>2, ShownStep
    <3>4. \A v \in Windows : v # w /\ Cleared(v, idle) => Cleared(v, rest)
      BY <1>1, PrepareCallback
    <3>5. QED BY <1>1, <2>2, <3>1, <3>3, <3>4 DEF QueueInv, IdleShape, Highlights
  <2>4. ASSUME c.kind # "prepare" PROVE \A v \in Windows : Cleared(v, idle) => Cleared(v, rest)
    BY <1>1, <2>4, PrepareCallback
  <2>5. CASE UNCHANGED win /\ c.kind # "prepare"
    <3>1. WindowInv'
      BY <2>2, <2>5, QuietStep DEF WindowInv, RecorderShape, SameRecording
    <3>2. QED BY <1>1, <2>2, <2>4, <2>5, <3>1 DEF QueueInv, IdleShape, Highlights
  <2>6. CASE c.kind = "destroy" /\ win' # win
    <3> DEFINE r == [win[w] EXCEPT !.stop = 0, !.shown = FALSE]
    <3>1. r \in WindowRecords /\ SameRecording(win[w], r) /\ r.lit = win[w].lit
      BY <2>1 DEF WindowRecords, SameRecording
    <3>2. win' = [win EXCEPT ![w] = r]
      BY <2>1, <2>2, <2>6 DEF Recorder!DestroyStop, Recorder!None, WindowInv, RecorderShape
    <3>3. win[w].session = r.session
      BY <2>1 DEF WindowRecords
    <3> HIDE DEF r
    <3>4. WindowInv' /\ win'[w] = r /\ \A v \in Windows : v # w => win'[v] = win[v]
      BY <2>1, <2>2, <3>1, <3>2, ShownStep
    <3>5. QED BY <1>1, <2>2, <2>4, <2>6, <3>1, <3>3, <3>4 DEF QueueInv, IdleShape, Highlights
  <2>7. CASE c.kind = "highlight" /\ win' # win
    <3> DEFINE r == [win[w] EXCEPT !.lit = TRUE]
    <3>1. r \in WindowRecords /\ SameRecording(win[w], r) /\ r.session = win[w].session
      BY <2>1 DEF WindowRecords, SameRecording
    <3>2. win' = [win EXCEPT ![w] = r] /\ win[w].session
      BY <2>1, <2>2, <2>7 DEF Recorder!ShowHighlight, WindowInv, RecorderShape
    <3> HIDE DEF r
    <3>4. WindowInv' /\ win'[w] = r /\ \A v \in Windows : v # w => win'[v] = win[v]
      BY <2>1, <2>2, <3>1, <3>2, ShownStep
    <3>5. QED BY <1>1, <2>2, <2>4, <2>7, <3>1, <3>2, <3>4 DEF QueueInv, IdleShape, Highlights
  <2>8. QED BY <2>1, <2>3, <2>5, <2>6, <2>7
<1>4. QED BY <1>2, <1>3

LEMMA WindowInvStep ==
  WindowInv /\ QueueInv /\ [Recorder!Next]_onlyRecorder => WindowInv' /\ QueueInv'
<1> SUFFICES ASSUME WindowInv, QueueInv, [Recorder!Next]_onlyRecorder PROVE WindowInv' /\ QueueInv'
  OBVIOUS
<1>1. /\ idle \in Seq(Callbacks) /\ alive \subseteq Windows /\ visible \subseteq alive
      /\ dialogs \in Seq(DialogFrames) /\ \A w \in Windows : win[w] \in WindowRecords
  BY DEF QueueInv, IdleShape, WindowInv, RecorderShape
(* A step that changes neither window nor recording, with a callback more. *)
<1>2. ASSUME UNCHANGED <<owner, win, alive, visible>>, active' \in alive \cup {NoWindow},
             dialogs' \in Seq(DialogFrames),
             UNCHANGED idle \/ \E c \in Callbacks : idle' = Append(idle, c)
      PROVE  WindowInv' /\ QueueInv'
  <2>1. WindowInv'
    BY <1>2, QuietStep DEF WindowInv, RecorderShape, SameRecording
  <2>2. idle' \in Seq(Callbacks) /\ \A w : Cleared(w, idle) => Cleared(w, idle')
    BY <1>1, <1>2, QueuedCallbacks
  <2>3. QED BY <1>2, <2>1, <2>2 DEF QueueInv, IdleShape, Highlights
<1>3. active \in alive \cup {NoWindow}
  BY DEF WindowInv, RecorderShape
<1>4. ASSUME NEW w \in Windows, Recorder!Toggle(w) PROVE WindowInv' /\ QueueInv'
  <2>1. w \in alive
    BY <1>1, <1>4 DEF Recorder!Toggle
  <2>2. CASE Recorder!StartRecording(w, idle)
    <3>1. /\ WindowInv' /\ idle' = idle
          /\ \A v \in Windows : win'[v].lit = win[v].lit /\ (win[v].session => win'[v].session)
      BY <2>1, <2>2, StartKeeps
    <3>2. QED BY <1>1, <3>1 DEF QueueInv, IdleShape, Highlights
  <2>3. CASE Recorder!StartRefused(w, idle)
    <3>1. WindowInv' /\ UNCHANGED win /\ idle' = idle
      BY <2>3, RefusedKeeps
    <3>2. QED BY <1>1, <3>1 DEF QueueInv, IdleShape, Highlights
  <2>4. QED BY <1>4, <2>2, <2>3 DEF Recorder!Toggle
<1>5. ASSUME NEW w \in Windows, Recorder!ClickStop(w) PROVE WindowInv' /\ QueueInv'
  <2> DEFINE c == Recorder!Callback("prepare", w, 0)
  <2>1. w \in alive /\ Recorder!StopRecording(w, idle)
    BY <1>5 DEF Recorder!ClickStop, Recorder!None, WindowInv, Phases
  <2>2. /\ WindowInv' /\ idle' = Append(idle, c)
        /\ \A v \in Windows : win'[v].lit = win[v].lit /\ (v # w => win'[v].session = win[v].session)
    BY <1>1, <2>1, StopKeeps
  <2>3. c \in Callbacks
    BY DEF Callbacks, Recorder!Callback
  <2>4. /\ idle' \in Seq(Callbacks) /\ \A v : Cleared(v, idle) => Cleared(v, idle')
        /\ Cleared(w, idle')
    BY <1>1, <2>2, <2>3, QueuedCallbacks
  <2>5. QED BY <2>2, <2>4 DEF QueueInv, IdleShape, Highlights
<1>6. ASSUME NEW w \in Windows, Recorder!Focus(w) \/ Recorder!RequestClose(w)
      PROVE  WindowInv' /\ QueueInv'
  BY <1>1, <1>2, <1>3, <1>6 DEF Recorder!Focus, Recorder!RequestClose
<1>7. ASSUME NEW kind \in {"start", "stop"}, Recorder!Hotkey(kind) PROVE WindowInv' /\ QueueInv'
  <2>1. Recorder!Callback(kind, NoWindow, 0) \in Callbacks
    BY DEF Callbacks, Recorder!Callback
  <2>2. QED BY <1>1, <1>2, <1>3, <1>7, <2>1 DEF Recorder!Hotkey, Recorder!None, Recorder!desktop
<1>8. ASSUME NEW w \in Windows, NEW r, r \in WindowRecords,
             SameRecording(win[w], r), SameRun(win[w], r) \/ r.lit = FALSE,
             win' = [win EXCEPT ![w] = r], UNCHANGED <<owner, alive, visible, active, dialogs>>,
             UNCHANGED idle \/ \E c \in Callbacks : idle' = Append(idle, c)
      PROVE  WindowInv' /\ QueueInv'
  <2>1. WindowInv' /\ win'[w] = r /\ \A v \in Windows : v # w => win'[v] = win[v]
    BY <1>8, ShownStep
  <2>2. idle' \in Seq(Callbacks) /\ \A v : Cleared(v, idle) => Cleared(v, idle')
    BY <1>1, <1>8, QueuedCallbacks
  <2>3. QED BY <1>8, <2>1, <2>2 DEF QueueInv, IdleShape, Highlights, SameRun
<1>9. ASSUME NEW w \in Windows, Recorder!TargetResolved(w) PROVE WindowInv' /\ QueueInv'
  <2> DEFINE r == [win[w] EXCEPT !.press = TRUE]
  <2>0. win[w] \in WindowRecords
    BY <1>1
  <2>1. r \in WindowRecords /\ SameRecording(win[w], r) /\ SameRun(win[w], r)
    BY <2>0 DEF WindowRecords, SameRecording, SameRun
  <2>2. win' = [win EXCEPT ![w] = r] /\ UNCHANGED <<owner, alive, visible, active, dialogs, idle>>
    BY <1>9 DEF Recorder!TargetResolved, Recorder!desktop, WindowInv, RecorderShape
  <2> HIDE DEF r
  <2>3. QED BY <1>8, <2>1, <2>2
<1>10. ASSUME NEW w \in Windows, Recorder!QueueHighlight(w) PROVE WindowInv' /\ QueueInv'
  <2> DEFINE r == [win[w] EXCEPT !.press = FALSE]
  <2>0. win[w] \in WindowRecords
    BY <1>1
  <2>1. r \in WindowRecords /\ SameRecording(win[w], r) /\ SameRun(win[w], r)
    BY <2>0 DEF WindowRecords, SameRecording, SameRun
  <2>2. /\ win' = [win EXCEPT ![w] = r] /\ UNCHANGED <<owner, alive, visible, active, dialogs>>
        /\ idle' = Append(idle, Recorder!Callback("highlight", w, 0))
    BY <1>10 DEF Recorder!QueueHighlight, Recorder!desktop, Recorder!None, WindowInv, RecorderShape
  <2>3. Recorder!Callback("highlight", w, 0) \in Callbacks
    BY DEF Callbacks, Recorder!Callback
  <2> HIDE DEF r
  <2>4. QED BY <1>8, <2>1, <2>2, <2>3
<1>11. ASSUME NEW w \in Windows, Recorder!HighlightExpires(w) PROVE WindowInv' /\ QueueInv'
  <2> DEFINE r == [win[w] EXCEPT !.lit = FALSE]
  <2>0. win[w] \in WindowRecords
    BY <1>1
  <2>1. r \in WindowRecords /\ SameRecording(win[w], r) /\ r.lit = FALSE
    BY <2>0 DEF WindowRecords, SameRecording
  <2>2. win' = [win EXCEPT ![w] = r] /\ UNCHANGED <<owner, alive, visible, active, dialogs, idle>>
    BY <1>11 DEF Recorder!HighlightExpires, Recorder!desktop, WindowInv, RecorderShape
  <2> HIDE DEF r
  <2>3. QED BY <1>8, <2>1, <2>2
<1>12. ASSUME NEW w \in alive, Recorder!Destroyed(w), dialogs' \in Seq(DialogFrames)
       PROVE  WindowInv' /\ QueueInv'
  <2>1. WindowInv' /\ (\A v \in Windows : SameRun(win[v], win'[v])) /\ UNCHANGED idle
    BY <1>12, DestroyKeeps DEF Recorder!Destroyed
  <2>2. QED BY <2>1 DEF QueueInv, IdleShape, Highlights, SameRun
<1>13. ASSUME NEW w \in Windows, Recorder!DeliverClose(w) PROVE WindowInv' /\ QueueInv'
  <2>1. ASSUME Recorder!Open("confirm", w) PROVE dialogs' \in Seq(DialogFrames)
    BY <1>1, <2>1 DEF Recorder!Open, DialogFrames
  <2>2. QED BY <1>1, <1>2, <1>3, <1>12, <1>13, <2>1 DEF Recorder!DeliverClose
<1>14. ASSUME NEW w \in Windows, Recorder!CompletionReady(w) PROVE WindowInv' /\ QueueInv'
  <2>1. w \in alive /\ win[w].watch # 0
    BY <1>14 DEF Recorder!CompletionReady, Recorder!None, WindowInv, Phases
  <2>2. win[w].pending /\ win[w].watch = win[w].gen
    BY <2>1 DEF WindowInv, Recorder!CompletionIsCurrent, Recorder!None
  <2>3. PICK k \in workers : Recorder!RecordingFinished(w, k.result)
    BY <1>14, <2>2 DEF Recorder!CompletionReady
  <2>4. /\ WindowInv' /\ (\A v \in Windows : SameRun(win[v], win'[v]))
        /\ UNCHANGED idle \/ idle' = Append(idle, Recorder!Callback("destroy", w, win[w].stop))
    BY <2>1, <2>2, <2>3, FinishKeeps
  <2>5. Recorder!Callback("destroy", w, win[w].stop) \in Callbacks
    BY <1>1 DEF Callbacks, Recorder!Callback, WindowRecords
  <2>6. idle' \in Seq(Callbacks) /\ \A v : Cleared(v, idle) => Cleared(v, idle')
    BY <1>1, <2>4, <2>5, QueuedCallbacks
  <2>7. QED BY <2>4, <2>6 DEF QueueInv, IdleShape, Highlights, SameRun
<1>15. ASSUME Recorder!DialogCloses PROVE WindowInv' /\ QueueInv'
  <2> DEFINE frame == dialogs[Len(dialogs)]
             w == frame.window
  <2>1. /\ frame \in DialogFrames /\ Recorder!Last(dialogs) = frame
        /\ dialogs' = SubSeq(dialogs, 1, Len(dialogs) - 1)
    BY <1>1, <1>15 DEF Recorder!DialogCloses, Recorder!Front, Recorder!Last
  <2>2. dialogs' \in Seq(DialogFrames)
    <3>1. \A n \in 0 .. Len(dialogs) : SubSeq(dialogs, 1, n) \in Seq(DialogFrames)
      BY <1>1
    <3>2. dialogs # <<>> /\ Len(dialogs) - 1 \in 0 .. Len(dialogs)
      BY <1>1, <1>15 DEF Recorder!DialogCloses
    <3>3. QED BY <2>1, <3>1, <3>2
  <2>3. w \in Windows
    BY <2>1 DEF DialogFrames
  <2>4. CASE Recorder!DestroyLater(w) /\ UNCHANGED <<owner, win, alive, visible, active>>
    <3>1. Recorder!Callback("destroy", w, win[w].stop) \in Callbacks
      BY <1>1, <2>3 DEF Callbacks, Recorder!Callback, WindowRecords
    <3>2. QED BY <1>2, <1>3, <2>2, <2>4, <3>1 DEF Recorder!DestroyLater
  <2>5. CASE w \in alive /\ Recorder!Destroyed(w)
    BY <1>12, <2>2, <2>5, <2>3
  <2>6. CASE UNCHANGED <<owner, win, alive, visible, active, idle>>
    BY <1>2, <1>3, <2>2, <2>6
  <2>7. QED BY <1>15, <2>1, <2>4, <2>5, <2>6 DEF Recorder!DialogCloses, Recorder!desktop
<1>16. ASSUME NEW k, Recorder!WorkerEnds(k) PROVE WindowInv' /\ QueueInv'
  BY <1>1, <1>2, <1>3, <1>16 DEF Recorder!WorkerEnds, Recorder!desktop
<1>17. CASE UNCHANGED onlyRecorder
  BY <1>1, <1>2, <1>3, <1>17 DEF onlyRecorder
<1>18. CASE Recorder!RunIdle
  BY <1>18, RunIdleKeeps
<1>19. CASE Recorder!Next
  BY <1>4, <1>5, <1>6, <1>7, <1>9, <1>10, <1>11, <1>13, <1>14, <1>15, <1>16, <1>18, <1>19
     DEF Recorder!Next, Recorder!User, Recorder!MainLoop
<1>20. QED BY <1>17, <1>19

-----------------------------------------------------------------------------
(* The runtime *)

Stages == {"none", "starting", "refused", "spawned", "announcing", "loop", "finishing", "finished",
           "ended", "dead"}
States == Runtime!Final \cup {"none", "running"}
FileRecords == [of : 0 .. MaxSessions, state : States]
Places == {"idle", "read", "check", "fail_session", "fail_active", "decide", "await"}
CommandRecords ==
  [does : {"nothing", "launch", "status", "stop"}, at : Places, sees : FileRecords]

RuntimeShape ==
  /\ activeFile \in FileRecords
  /\ manifest \in [Runtime!Sessions -> States]
  /\ supervisor \in [Runtime!Sessions -> Stages]
  /\ app \in [Runtime!Sessions -> {"none", "running", "zombie", "gone"}]
  /\ command \in [Runtime!Shells -> CommandRecords]

(* What the place of a supervisor says of its application and manifest.    *)
Consistent(at, of, file) ==
  /\ at \in {"none", "starting"} => of = "none" /\ file = "none"
  /\ at = "refused" => of = "none"
  /\ at \in {"spawned", "announcing", "loop"} => of \in {"running", "zombie"}
  /\ at \in {"finishing", "finished"} => of = "gone"
  /\ at = "ended" => of \in {"none", "gone"}
  /\ at = "dead" => of # "zombie"
  /\ file \in Runtime!Final => of \in {"none", "gone"}

(* A manifest that is read as running is of an application that started,   *)
(* and who gives up on a session knows that its application is gone.       *)
Begun(file) == file.state = "running" => file.of \in Runtime!Sessions /\ app[file.of] # "none"
Reader(r) ==
  /\ Begun(r.sees)
  /\ r.at = "check" => r.sees.state = "running"
  /\ r.at = "fail_session" => r.sees.of \in Runtime!Sessions /\ app[r.sees.of] = "gone"
  /\ r.at = "fail_active" => r.sees.of \in Runtime!Sessions

FilesInv ==
  /\ RuntimeShape
  /\ \A s \in Runtime!Sessions : Consistent(supervisor[s], app[s], manifest[s])
  /\ Begun(activeFile)
  /\ \A c \in Runtime!Shells : Reader(command[c])

LEMMA FilesInvInit == Runtime!Init => FilesInv
<1> SUFFICES ASSUME Runtime!Init PROVE FilesInv
  OBVIOUS
<1> USE DEF Runtime!Init, Runtime!NoManifest, Runtime!Idle
<1>1. Runtime!NoManifest \in FileRecords /\ Runtime!Idle \in CommandRecords
  BY RuntimeAssumption DEF FileRecords, CommandRecords, States, Places
<1>2. RuntimeShape
  BY <1>1 DEF RuntimeShape, Stages, States
<1>3. \A s \in Runtime!Sessions : Consistent(supervisor[s], app[s], manifest[s])
  BY DEF Consistent, Runtime!Final
<1>4. Begun(activeFile) /\ \A c \in Runtime!Shells : Reader(command[c])
  BY DEF Begun, Reader
<1>5. QED BY <1>2, <1>3, <1>4 DEF FilesInv

(* A step of one session.                                                  *)
SessionMoves(s, at, of, file) ==
  /\ supervisor' = [supervisor EXCEPT ![s] = at] /\ app' = [app EXCEPT ![s] = of]
  /\ manifest' = [manifest EXCEPT ![s] = file] /\ UNCHANGED command
  /\ activeFile' \in FileRecords
  /\ UNCHANGED activeFile \/ (activeFile'.of = s /\ (activeFile'.state = "running" => of # "none"))

LEMMA SessionKeeps ==
  ASSUME FilesInv, NEW s \in Runtime!Sessions, NEW at \in Stages,
         NEW of \in {"none", "running", "zombie", "gone"}, NEW file \in States,
         SessionMoves(s, at, of, file),
         Consistent(at, of, file), app[s] # "none" => of # "none", app[s] = "gone" => of = "gone"
  PROVE  FilesInv'
<1> USE DEF FilesInv, SessionMoves
<1>1. RuntimeShape'
  BY DEF RuntimeShape
<1>2. \A t \in Runtime!Sessions : Consistent(supervisor'[t], app'[t], manifest'[t])
  BY DEF RuntimeShape
<1>3. /\ \A t \in Runtime!Sessions : app[t] # "none" => app'[t] # "none"
      /\ \A t \in Runtime!Sessions : app[t] = "gone" => app'[t] = "gone"
      /\ app'[s] = of
  BY DEF RuntimeShape
<1>4. Begun(activeFile)'
  BY <1>3 DEF Begun
<1>5. \A c \in Runtime!Shells : Reader(command[c])'
  BY <1>3 DEF Reader, Begun
<1>6. QED BY <1>1, <1>2, <1>4, <1>5

(* A step of one command.                                                  *)
LEMMA CommandKeeps ==
  ASSUME FilesInv, NEW c \in Runtime!Shells, NEW r \in CommandRecords,
         command' = [command EXCEPT ![c] = r], UNCHANGED app, Reader(r),
         RuntimeShape', Begun(activeFile'),
         \A s \in Runtime!Sessions : Consistent(supervisor'[s], app'[s], manifest'[s])
  PROVE  FilesInv'
<1>1. \A d \in Runtime!Shells : command'[d] = IF d = c THEN r ELSE command[d]
  BY DEF FilesInv, RuntimeShape
<1>2. \A d \in Runtime!Shells : Reader(command[d])'
  BY <1>1 DEF FilesInv, Reader, Begun
<1>3. QED BY <1>2 DEF FilesInv, Begun

LEMMA SupervisorKeeps ==
  ASSUME FilesInv, NEW s \in Runtime!Sessions, Runtime!Supervisor(s)
  PROVE  FilesInv'
<1>1. /\ supervisor[s] \in Stages /\ app[s] \in {"none", "running", "zombie", "gone"} /\ manifest[s] \in States
      /\ supervisor = [supervisor EXCEPT ![s] = supervisor[s]] /\ app = [app EXCEPT ![s] = app[s]]
      /\ manifest = [manifest EXCEPT ![s] = manifest[s]] /\ activeFile \in FileRecords
      /\ Consistent(supervisor[s], app[s], manifest[s])
  BY DEF FilesInv, RuntimeShape
<1>2. UNCHANGED command
  BY DEF Runtime!Supervisor
<1>3. \A state \in States : [of |-> s, state |-> state] \in FileRecords
  BY RuntimeAssumption DEF FileRecords, Runtime!Sessions
<1> USE DEF Runtime!Supervise, Runtime!WriteManifest, Runtime!WriteActive, Runtime!filesOf,
            Consistent, Stages, States, Runtime!Final
<1>4. CASE Runtime!StartFails(s)
  <2>1. CASE supervisor[s] = "starting"
    <3>1. /\ supervisor' = [supervisor EXCEPT ![s] = "refused"] /\ UNCHANGED <<app, activeFile>>
          /\ manifest' = [manifest EXCEPT ![s] = "not_started"]
      BY <1>4, <2>1 DEF Runtime!StartFails
    <3>2. Consistent("refused", app[s], "not_started")
      BY <1>1, <2>1
    <3>3. SessionMoves(s, "refused", app[s], "not_started")
      BY <1>1, <1>2, <3>1, <3>2 DEF SessionMoves
    <3>4. QED BY <1>1, <3>2, <3>3, SessionKeeps
  <2>2. CASE supervisor[s] = "refused"
    <3>1. /\ supervisor' = [supervisor EXCEPT ![s] = "ended"] /\ UNCHANGED <<app, manifest>>
          /\ activeFile' = [of |-> s, state |-> "not_started"]
      BY <1>4, <2>2 DEF Runtime!StartFails
    <3>2. /\ Consistent("ended", app[s], manifest[s]) /\ activeFile' \in FileRecords
          /\ activeFile'.of = s /\ activeFile'.state # "running"
      BY <1>1, <1>3, <2>2, <3>1
    <3>3. SessionMoves(s, "ended", app[s], manifest[s])
      BY <1>1, <1>2, <3>1, <3>2 DEF SessionMoves
    <3>4. QED BY <1>1, <3>2, <3>3, SessionKeeps
  <2>3. QED BY <1>4, <2>1, <2>2 DEF Runtime!StartFails
<1>5. CASE Runtime!Spawn(s)
  <2>1. /\ supervisor' = [supervisor EXCEPT ![s] = "spawned"] /\ app' = [app EXCEPT ![s] = "running"]
        /\ UNCHANGED <<manifest, activeFile>> /\ supervisor[s] = "starting"
    BY <1>5 DEF Runtime!Spawn
  <2>2. Consistent("spawned", "running", manifest[s]) /\ app[s] = "none"
    BY <1>1, <2>1
  <2>3. SessionMoves(s, "spawned", "running", manifest[s])
    BY <1>1, <1>2, <2>1, <2>2 DEF SessionMoves
  <2>4. QED BY <1>1, <2>2, <2>3, SessionKeeps
<1>6. CASE Runtime!Announce(s)
  <2>1. CASE supervisor[s] = "spawned"
    <3>1. /\ supervisor' = [supervisor EXCEPT ![s] = "announcing"] /\ UNCHANGED <<app, activeFile>>
          /\ manifest' = [manifest EXCEPT ![s] = "running"]
      BY <1>6, <2>1 DEF Runtime!Announce
    <3>2. Consistent("announcing", app[s], "running")
      BY <1>1, <2>1
    <3>3. SessionMoves(s, "announcing", app[s], "running")
      BY <1>1, <1>2, <3>1, <3>2 DEF SessionMoves
    <3>4. QED BY <1>1, <3>2, <3>3, SessionKeeps
  <2>2. CASE supervisor[s] = "announcing"
    <3>1. /\ supervisor' = [supervisor EXCEPT ![s] = "loop"] /\ UNCHANGED <<app, manifest>>
          /\ activeFile' = [of |-> s, state |-> "running"]
      BY <1>6, <2>2 DEF Runtime!Announce
    <3>2. /\ Consistent("loop", app[s], manifest[s]) /\ activeFile' \in FileRecords /\ app[s] # "none"
          /\ activeFile'.of = s
      BY <1>1, <1>3, <2>2, <3>1
    <3>3. SessionMoves(s, "loop", app[s], manifest[s])
      BY <1>1, <1>2, <3>1, <3>2 DEF SessionMoves
    <3>4. QED BY <1>1, <3>2, <3>3, SessionKeeps
  <2>3. QED BY <1>6, <2>1, <2>2 DEF Runtime!Announce
<1>7. CASE Runtime!SendStop(s)
  <2>1. UNCHANGED <<supervisor, app, manifest, activeFile>>
    BY <1>7 DEF Runtime!SendStop
  <2>2. SessionMoves(s, supervisor[s], app[s], manifest[s])
    BY <1>1, <1>2, <2>1 DEF SessionMoves
  <2>3. QED BY <1>1, <2>2, SessionKeeps
<1>8. CASE Runtime!Poll(s)
  <2>1. /\ supervisor' = [supervisor EXCEPT ![s] = "finishing"] /\ app' = [app EXCEPT ![s] = "gone"]
        /\ UNCHANGED <<manifest, activeFile>> /\ app[s] = "zombie"
    BY <1>8 DEF Runtime!Poll
  <2>2. Consistent("finishing", "gone", manifest[s])
    BY <1>1, <2>1
  <2>3. SessionMoves(s, "finishing", "gone", manifest[s])
    BY <1>1, <1>2, <2>1, <2>2 DEF SessionMoves
  <2>4. QED BY <1>1, <2>2, <2>3, SessionKeeps
<1>9. CASE Runtime!Finish(s)
  <2>1. CASE supervisor[s] = "finishing"
    <3>1. /\ supervisor' = [supervisor EXCEPT ![s] = "finished"] /\ UNCHANGED <<app, activeFile>>
          /\ manifest' = [manifest EXCEPT ![s] = "exited"]
      BY <1>9, <2>1 DEF Runtime!Finish
    <3>2. Consistent("finished", app[s], "exited")
      BY <1>1, <2>1
    <3>3. SessionMoves(s, "finished", app[s], "exited")
      BY <1>1, <1>2, <3>1, <3>2 DEF SessionMoves
    <3>4. QED BY <1>1, <3>2, <3>3, SessionKeeps
  <2>2. CASE supervisor[s] = "finished"
    <3>1. /\ supervisor' = [supervisor EXCEPT ![s] = "ended"] /\ UNCHANGED <<app, manifest>>
          /\ activeFile' = [of |-> s, state |-> "exited"]
      BY <1>9, <2>2 DEF Runtime!Finish
    <3>2. /\ Consistent("ended", app[s], manifest[s]) /\ activeFile' \in FileRecords
          /\ activeFile'.of = s /\ activeFile'.state # "running"
      BY <1>1, <1>3, <2>2, <3>1
    <3>3. SessionMoves(s, "ended", app[s], manifest[s])
      BY <1>1, <1>2, <3>1, <3>2 DEF SessionMoves
    <3>4. QED BY <1>1, <3>2, <3>3, SessionKeeps
  <2>3. QED BY <1>9, <2>1, <2>2 DEF Runtime!Finish
<1>10. QED BY <1>4, <1>5, <1>6, <1>7, <1>8, <1>9 DEF Runtime!Supervisor

LEMMA ApplicationKeeps ==
  ASSUME FilesInv, NEW s \in Runtime!Sessions, Runtime!AppEnds(s) \/ Runtime!Crash(s)
  PROVE  FilesInv'
<1>1. /\ supervisor[s] \in Stages /\ app[s] \in {"none", "running", "zombie", "gone"} /\ manifest[s] \in States
      /\ supervisor = [supervisor EXCEPT ![s] = supervisor[s]]
      /\ manifest = [manifest EXCEPT ![s] = manifest[s]] /\ activeFile \in FileRecords
      /\ Consistent(supervisor[s], app[s], manifest[s])
  BY DEF FilesInv, RuntimeShape
<1>2. UNCHANGED <<command, manifest, activeFile>>
  BY DEF Runtime!AppEnds, Runtime!Crash, Runtime!filesOf
<1>3. CASE Runtime!AppEnds(s)
  <2> DEFINE of == IF supervisor[s] = "dead" THEN "gone" ELSE "zombie"
  <2>1. app[s] = "running" /\ app' = [app EXCEPT ![s] = of] /\ UNCHANGED supervisor
    BY <1>3 DEF Runtime!AppEnds
  <2>2. /\ Consistent(supervisor[s], of, manifest[s])
        /\ of # "none" /\ of \in {"none", "running", "zombie", "gone"}
    BY <1>1, <2>1 DEF Consistent, Stages
  <2> HIDE DEF of
  <2>3. SessionMoves(s, supervisor[s], of, manifest[s])
    BY <1>1, <1>2, <2>1, <2>2 DEF SessionMoves
  <2>4. QED BY <1>1, <2>1, <2>2, <2>3, SessionKeeps
<1>4. CASE Runtime!Crash(s)
  <2> DEFINE of == IF app[s] = "zombie" THEN "gone" ELSE app[s]
  <2>1. app' = [app EXCEPT ![s] = of] /\ supervisor' = [supervisor EXCEPT ![s] = "dead"]
    BY <1>4 DEF Runtime!Crash
  <2>2. /\ Consistent("dead", of, manifest[s]) /\ (app[s] # "none" => of # "none")
        /\ (app[s] = "gone" => of = "gone") /\ of \in {"none", "running", "zombie", "gone"} /\ "dead" \in Stages
    BY <1>1 DEF Consistent, Stages
  <2> HIDE DEF of
  <2>3. SessionMoves(s, "dead", of, manifest[s])
    BY <1>1, <1>2, <2>1, <2>2 DEF SessionMoves
  <2>4. QED BY <1>1, <2>2, <2>3, SessionKeeps
<1>5. QED BY <1>3, <1>4

LEMMA CommandStep ==
  ASSUME FilesInv, NEW c \in Runtime!Shells, Runtime!Command(c)
  PROVE  FilesInv'
<1> DEFINE r == command[c]
<1>1. /\ r \in CommandRecords /\ Reader(r) /\ RuntimeShape
      /\ \A t \in Runtime!Sessions : Consistent(supervisor[t], app[t], manifest[t])
      /\ Begun(activeFile) /\ activeFile \in FileRecords
  BY DEF FilesInv, RuntimeShape
<1>2. ASSUME NEW x \in CommandRecords, command' = [command EXCEPT ![c] = x], Reader(x),
             UNCHANGED <<supervisor, app, manifest, activeFile>>
      PROVE  FilesInv'
  <2>1. RuntimeShape'
    BY <1>1, <1>2 DEF RuntimeShape
  <2>2. QED BY <1>1, <1>2, <2>1, CommandKeeps
<1>3. Runtime!Idle \in CommandRecords /\ Reader(Runtime!Idle)
  BY RuntimeAssumption
     DEF FileRecords, CommandRecords, States, Places, Reader, Begun, Runtime!Idle, Runtime!NoManifest
<1>4. CASE Runtime!Type(c)
  <2>1. PICK what \in {"launch", "status", "stop"} :
          command' = [command EXCEPT ![c] = [does |-> what, at |-> "read", sees |-> Runtime!NoManifest]]
    BY <1>4 DEF Runtime!Type
  <2> DEFINE x == [does |-> what, at |-> "read", sees |-> Runtime!NoManifest]
  <2>2. x \in CommandRecords /\ Reader(x)
    BY RuntimeAssumption DEF FileRecords, CommandRecords, States, Places, Reader, Begun, Runtime!NoManifest
  <2>3. UNCHANGED <<supervisor, app, manifest, activeFile>>
    BY <1>4 DEF Runtime!Type, Runtime!filesOf, Runtime!processes
  <2> HIDE DEF x
  <2>4. QED BY <1>2, <2>1, <2>2, <2>3 DEF x
<1>5. CASE Runtime!ReadActive(c)
  <2> DEFINE x == [r EXCEPT !.sees = activeFile,
                            !.at = IF activeFile.state = "running" THEN "check" ELSE "decide"]
  <2>1. command' = [command EXCEPT ![c] = x] /\ UNCHANGED <<supervisor, app, manifest, activeFile>>
    BY <1>5 DEF Runtime!ReadActive, Runtime!filesOf, Runtime!processes
  <2>2. x \in CommandRecords /\ x.sees = activeFile /\ (x.at = "check" => activeFile.state = "running")
        /\ x.at \in {"check", "decide"}
    BY <1>1 DEF CommandRecords, Places
  <2> HIDE DEF x
  <2>3. QED BY <1>1, <1>2, <2>1, <2>2 DEF Reader
<1>6. CASE Runtime!Reconcile(c) /\ UNCHANGED Runtime!processes
  <2>1. UNCHANGED <<supervisor, app>>
    BY <1>6 DEF Runtime!processes
  <2>2. CASE r.at = "check"
    <3> DEFINE x == [r EXCEPT !.at = IF Runtime!Alive(r.sees.of) THEN "decide" ELSE "fail_session"]
    <3>1. command' = [command EXCEPT ![c] = x] /\ UNCHANGED <<manifest, activeFile>>
      BY <1>6, <2>2 DEF Runtime!Reconcile, Runtime!At, Runtime!filesOf
    <3>2. x \in CommandRecords /\ x.sees = r.sees /\ x.at \in {"decide", "fail_session"}
          /\ (x.at = "fail_session" => ~Runtime!Alive(r.sees.of))
      BY <1>1 DEF CommandRecords, Places
    <3> HIDE DEF x
    <3>3. r.sees.of \in Runtime!Sessions /\ app[r.sees.of] \in {"running", "zombie", "gone"}
      BY <1>1, <2>2 DEF Reader, Begun, RuntimeShape
    <3>4. Reader(x)
      BY <1>1, <3>2, <3>3 DEF Reader, Runtime!Alive
    <3>5. QED BY <1>2, <2>1, <3>1, <3>2, <3>4
  <2>3. CASE r.at = "fail_session"
    <3> DEFINE x == [r EXCEPT !.at = "fail_active"]
               s == r.sees.of
    <3>1. /\ command' = [command EXCEPT ![c] = x] /\ UNCHANGED activeFile
          /\ manifest' = [manifest EXCEPT ![s] = "failed"]
      BY <1>6, <2>3 DEF Runtime!Reconcile, Runtime!At, Runtime!WriteManifest
    <3>2. x \in CommandRecords /\ x.sees = r.sees /\ x.at = "fail_active"
      BY <1>1 DEF CommandRecords, Places
    <3> HIDE DEF x
    <3>3. s \in Runtime!Sessions /\ app[s] = "gone"
      BY <1>1, <2>3 DEF Reader
    <3>4. Reader(x)
      BY <1>1, <3>2, <3>3 DEF Reader
    <3>5. RuntimeShape'
      BY <1>1, <2>1, <3>1, <3>2, <3>3 DEF RuntimeShape, States, Runtime!Final
    <3>6. \A t \in Runtime!Sessions : Consistent(supervisor'[t], app'[t], manifest'[t])
      BY <1>1, <2>1, <3>1, <3>3 DEF RuntimeShape, Consistent
    <3>7. QED BY <1>1, <2>1, <3>1, <3>2, <3>4, <3>5, <3>6, CommandKeeps
  <2>4. CASE r.at = "fail_active"
    <3> DEFINE x == [r EXCEPT !.at = "decide", !.sees.state = "failed"]
               s == r.sees.of
    <3>1. /\ command' = [command EXCEPT ![c] = x] /\ UNCHANGED manifest
          /\ activeFile' = [of |-> s, state |-> "failed"]
      BY <1>6, <2>4 DEF Runtime!Reconcile, Runtime!WriteActive
    <3>2. x \in CommandRecords /\ x.sees.state = "failed" /\ x.at = "decide"
      BY <1>1 DEF CommandRecords, FileRecords, Places, States, Runtime!Final
    <3> HIDE DEF x
    <3>3. activeFile' \in FileRecords /\ activeFile'.state = "failed"
      BY <1>1, <3>1 DEF CommandRecords, FileRecords, States, Runtime!Final
    <3>4. RuntimeShape'
      BY <1>1, <2>1, <3>1, <3>2, <3>3 DEF RuntimeShape
    <3>5. Reader(x) /\ Begun(activeFile')
      BY <3>2, <3>3 DEF Reader, Begun
    <3>6. QED BY <1>1, <2>1, <3>1, <3>2, <3>4, <3>5, CommandKeeps
  <2>5. QED BY <1>6, <2>2, <2>3, <2>4 DEF Runtime!Reconcile
<1>7. CASE Runtime!Done(c) /\ UNCHANGED <<activeFile, manifest, supervisor, app>>
  BY <1>2, <1>3, <1>7 DEF Runtime!Done
<1>8. CASE Runtime!Status(c) \/ Runtime!Stop(c) \/ Runtime!Awaited(c)
  BY <1>7, <1>8 DEF Runtime!Status, Runtime!Stop, Runtime!Awaited, Runtime!filesOf, Runtime!processes
<1>9. CASE Runtime!Launch(c)
  <2>1. CASE Runtime!Done(c) /\ UNCHANGED Runtime!processes
    BY <1>7, <1>9, <2>1 DEF Runtime!Launch, Runtime!filesOf, Runtime!processes
  <2>2. ASSUME NEW s \in Runtime!Sessions, supervisor[s] = "none",
               supervisor' = [supervisor EXCEPT ![s] = "starting"],
               command' = [command EXCEPT
                 ![c] = [does |-> "launch", at |-> "await", sees |-> [of |-> s, state |-> "none"]]],
               UNCHANGED app
        PROVE  FilesInv'
    <3> DEFINE x == [does |-> "launch", at |-> "await", sees |-> [of |-> s, state |-> "none"]]
    <3>1. x \in CommandRecords /\ Reader(x)
      BY RuntimeAssumption DEF FileRecords, CommandRecords, States, Places, Reader, Begun, Runtime!Sessions
    <3> HIDE DEF x
    <3>2. UNCHANGED <<manifest, activeFile>>
      BY <1>9 DEF Runtime!Launch, Runtime!filesOf
    <3>3. RuntimeShape'
      BY <1>1, <2>2, <3>1, <3>2 DEF RuntimeShape, Stages, x
    <3>4. \A t \in Runtime!Sessions : Consistent(supervisor'[t], app'[t], manifest'[t])
      BY <1>1, <2>2, <3>2 DEF RuntimeShape, Consistent
    <3>5. QED BY <1>1, <2>2, <3>1, <3>2, <3>3, <3>4, CommandKeeps DEF x
  <2>3. QED BY <1>9, <2>1, <2>2 DEF Runtime!Launch
<1>10. QED BY <1>4, <1>5, <1>6, <1>8, <1>9 DEF Runtime!Command

LEMMA FilesInvStep ==
  FilesInv /\ [Runtime!Next]_onlyRuntime => FilesInv'
<1> SUFFICES ASSUME FilesInv, [Runtime!Next]_onlyRuntime PROVE FilesInv'
  OBVIOUS
<1>1. CASE Runtime!Next
  BY <1>1, SupervisorKeeps, ApplicationKeeps, CommandStep DEF Runtime!Next
<1>2. CASE UNCHANGED onlyRuntime
  BY <1>2 DEF onlyRuntime, FilesInv, RuntimeShape, Begun, Reader
<1>3. QED BY <1>1, <1>2

(* A session that has nothing to start, to supervise or to finish, and the *)
(* facts that keep two applications apart when commands keep out of the    *)
(* way: only one session is not quiet, active.json names it while its      *)
(* application runs, one command is at work, it stands alone while it      *)
(* decides, and what it has read still holds.                              *)
Quiet(s) == supervisor[s] \in {"none", "ended"} \/ (supervisor[s] = "dead" /\ app[s] # "running")
Deciding(c) == command[c].at \notin {"idle", "await"}

OneAtWork == \A s, t \in Runtime!Sessions : s = t \/ Quiet(s) \/ Quiet(t)
Announced ==
  \A s \in Runtime!Sessions : app[s] = "running" /\ supervisor[s] \in {"loop", "dead"} =>
    activeFile.of = s /\ activeFile.state = "running"
OneCommand ==
  \A c, d \in Runtime!Shells : c = d \/ command[c].at = "idle" \/ command[d].at = "idle"
DecidesAlone ==
  \A c \in Runtime!Shells : Deciding(c) =>
    \A s \in Runtime!Sessions :
      supervisor[s] \in {"none", "loop", "ended", "dead"} /\ app[s] # "zombie"
Informed ==
  \A c \in Runtime!Shells : Deciding(c) /\ command[c].at # "read" =>
    \A s \in Runtime!Sessions : app[s] = "running" =>
      /\ command[c].at \in {"check", "decide"}
      /\ command[c].sees.of = s /\ command[c].sees.state = "running"

Apart == OneAtWork /\ Announced /\ OneCommand /\ DecidesAlone /\ Informed
AloneInv == "hasty" \notin hazards => Apart

LEMMA AloneInvInit == Runtime!Init => AloneInv
BY DEF Runtime!Init, Runtime!Idle, AloneInv, Apart, OneAtWork, Announced, OneCommand, DecidesAlone, Informed,
       Quiet, Deciding

LEMMA SupervisorAlone ==
  ASSUME FilesInv, Apart, NEW s \in Runtime!Sessions, Runtime!Supervisor(s)
  PROVE  Apart'
<1>1. /\ \A t \in Runtime!Sessions : Consistent(supervisor[t], app[t], manifest[t])
      /\ supervisor \in [Runtime!Sessions -> Stages] /\ DOMAIN app = Runtime!Sessions
      /\ UNCHANGED command
  BY DEF FilesInv, RuntimeShape, Runtime!Supervisor
<1>2. CASE Runtime!SendStop(s)
  BY <1>1, <1>2 DEF Runtime!SendStop, Runtime!filesOf, Apart, OneAtWork, Announced, OneCommand,
       DecidesAlone, Informed, Quiet, Deciding
<1>3. CASE ~ Runtime!SendStop(s)
  <2>1. /\ supervisor[s] \in {"starting", "refused", "spawned", "announcing", "finishing", "finished"}
           \/ (supervisor[s] = "loop" /\ app[s] = "zombie")
        /\ \A t \in Runtime!Sessions : t # s => supervisor'[t] = supervisor[t] /\ app'[t] = app[t]
        /\ supervisor'[s] = "loop" => activeFile'.of = s /\ activeFile'.state = "running"
        /\ supervisor'[s] # "dead"
    <3> USE DEF Runtime!Supervise, Runtime!WriteActive, Runtime!WriteManifest
    <3>1. CASE Runtime!StartFails(s)
      BY <1>1, <3>1 DEF Runtime!StartFails
    <3>2. CASE Runtime!Spawn(s)
      BY <1>1, <3>2 DEF Runtime!Spawn
    <3>3. CASE Runtime!Announce(s)
      BY <1>1, <3>3 DEF Runtime!Announce
    <3>4. CASE Runtime!Poll(s)
      BY <1>1, <3>4 DEF Runtime!Poll
    <3>5. CASE Runtime!Finish(s)
      BY <1>1, <3>5 DEF Runtime!Finish
    <3>6. QED BY <1>3, <3>1, <3>2, <3>3, <3>4, <3>5 DEF Runtime!Supervisor
  <2>2. ~ Quiet(s)
    BY <2>1 DEF Quiet
  <2>3. \A t \in Runtime!Sessions : t # s => Quiet(t)
    BY <2>2 DEF Apart, OneAtWork
  <2>4. \A c \in Runtime!Shells : ~ Deciding(c)
    BY <2>1 DEF Apart, DecidesAlone
  <2>5. \A c \in Runtime!Shells : ~ Deciding(c)'
    BY <1>1, <2>4 DEF Deciding
  <2>6. OneAtWork'
    BY <2>1, <2>3 DEF OneAtWork, Quiet
  <2>7. Announced'
    BY <2>1, <2>3 DEF Announced, Quiet
  <2>8. OneCommand' /\ DecidesAlone' /\ Informed'
    BY <1>1, <2>5 DEF Apart, OneCommand, DecidesAlone, Informed
  <2>9. QED BY <2>6, <2>7, <2>8 DEF Apart
<1>4. QED BY <1>2, <1>3

LEMMA ApplicationAlone ==
  ASSUME FilesInv, Apart, "hasty" \notin hazards, NEW s \in Runtime!Sessions,
         Runtime!AppEnds(s) \/ Runtime!Crash(s)
  PROVE  Apart'
<1>1. /\ \A t \in Runtime!Sessions : Consistent(supervisor[t], app[t], manifest[t])
      /\ supervisor \in [Runtime!Sessions -> Stages] /\ DOMAIN app = Runtime!Sessions
  BY DEF FilesInv, RuntimeShape
<1>2. UNCHANGED <<command, activeFile>>
  BY DEF Runtime!AppEnds, Runtime!Crash, Runtime!filesOf
<1>3. CASE Runtime!AppEnds(s)
  <2>1. /\ UNCHANGED supervisor /\ app'[s] # "running"
        /\ \A t \in Runtime!Sessions : t # s => app'[t] = app[t]
        /\ \A c \in Runtime!Shells : ~ Deciding(c)
    BY <1>1, <1>3 DEF Runtime!AppEnds, Runtime!Undisturbed, Deciding
  <2>2. QED BY <1>2, <2>1
        DEF Apart, OneAtWork, Announced, OneCommand, DecidesAlone, Informed, Quiet, Deciding
<1>4. CASE Runtime!Crash(s)
  <2>1. /\ supervisor[s] = "loop" /\ supervisor'[s] = "dead"
        /\ \A t \in Runtime!Sessions : t # s => supervisor'[t] = supervisor[t]
        /\ \A t \in Runtime!Sessions : app'[t] = app[t] \/ (app[t] = "zombie" /\ app'[t] = "gone")
    BY <1>1, <1>4 DEF Runtime!Crash
  <2>2. QED BY <1>2, <2>1
        DEF Apart, OneAtWork, Announced, OneCommand, DecidesAlone, Informed, Quiet, Deciding
<1>5. QED BY <1>3, <1>4

(* A step of a command that starts nothing. *)
CommandMoves(c, r) ==
  /\ command' = [command EXCEPT ![c] = r] /\ UNCHANGED <<supervisor, app>>
  /\ \/ r.at = "idle" \/ command[c].at # "idle"
     \/ \A d \in Runtime!Shells : command[d].at = "idle"
  /\ r.at \notin {"idle", "await"} =>
       Deciding(c) \/ \A s \in Runtime!Sessions :
         supervisor[s] \in {"none", "loop", "ended", "dead"} /\ app[s] # "zombie"
  /\ \A s \in Runtime!Sessions : app[s] = "running" =>
       /\ r.at \in {"idle", "await", "read", "check", "decide"}
       /\ r.at \in {"check", "decide"} => r.sees.of = s /\ r.sees.state = "running"
  /\ UNCHANGED activeFile \/ \A s \in Runtime!Sessions : app[s] # "running"

LEMMA CommandMovesAlone ==
  ASSUME FilesInv, Apart, NEW c \in Runtime!Shells, NEW r \in CommandRecords, CommandMoves(c, r)
  PROVE  Apart'
<1> USE DEF CommandMoves
<1>1. command'[c] = r /\ \A d \in Runtime!Shells : d # c => command'[d] = command[d]
  BY DEF FilesInv, RuntimeShape
<1> USE DEF Apart
<1>2. OneAtWork'
  BY DEF OneAtWork, Quiet
<1>3. Announced'
  BY DEF Announced
<1>4. OneCommand'
  BY <1>1 DEF OneCommand
<1>5. DecidesAlone'
  BY <1>1 DEF DecidesAlone, Deciding
<1>6. Informed'
  <2>1. r.at \in Places
    BY DEF CommandRecords
  <2>2. QED BY <1>1, <2>1 DEF Informed, Deciding, Places
<1>7. QED BY <1>2, <1>3, <1>4, <1>5, <1>6

LEMMA CommandAlone ==
  ASSUME FilesInv, Apart, "hasty" \notin hazards, NEW c \in Runtime!Shells, Runtime!Command(c)
  PROVE  Apart'
<1> DEFINE r == command[c]
<1>1. /\ r \in CommandRecords /\ Reader(r) /\ activeFile \in FileRecords
      /\ \A t \in Runtime!Sessions : Consistent(supervisor[t], app[t], manifest[t])
      /\ supervisor \in [Runtime!Sessions -> Stages] /\ DOMAIN app = Runtime!Sessions
      /\ DOMAIN command = Runtime!Shells
  BY DEF FilesInv, RuntimeShape
<1>2. /\ Runtime!Idle \in CommandRecords /\ Runtime!Idle.at = "idle"
      /\ Runtime!NoManifest \in FileRecords
  BY RuntimeAssumption DEF FileRecords, CommandRecords, States, Places, Runtime!Idle, Runtime!NoManifest
<1>3. CASE Runtime!Type(c)
  <2>1. PICK what \in {"launch", "status", "stop"} :
          command' = [command EXCEPT ![c] = [does |-> what, at |-> "read", sees |-> Runtime!NoManifest]]
    BY <1>3 DEF Runtime!Type
  <2> DEFINE x == [does |-> what, at |-> "read", sees |-> Runtime!NoManifest]
  <2>2. x \in CommandRecords /\ x.at = "read"
    BY <1>2 DEF CommandRecords, Places
  <2>3. UNCHANGED <<supervisor, app, activeFile>> /\ Runtime!Settled
    BY <1>3 DEF Runtime!Type, Runtime!filesOf, Runtime!processes
  <2>4. CommandMoves(c, x)
    BY <1>2, <2>1, <2>2, <2>3 DEF CommandMoves, Runtime!Settled
  <2> HIDE DEF x
  <2>5. QED BY <2>2, <2>4, CommandMovesAlone
<1>4. CASE Runtime!ReadActive(c)
  <2> DEFINE x == [r EXCEPT !.sees = activeFile,
                            !.at = IF activeFile.state = "running" THEN "check" ELSE "decide"]
  <2>1. command' = [command EXCEPT ![c] = x] /\ UNCHANGED <<supervisor, app, activeFile>> /\ r.at = "read"
    BY <1>4 DEF Runtime!ReadActive, Runtime!filesOf, Runtime!processes
  <2>2. x \in CommandRecords /\ x.sees = activeFile /\ x.at \in {"check", "decide"}
    BY <1>1 DEF CommandRecords, Places
  <2> HIDE DEF x
  <2>3. Deciding(c)
    BY <2>1 DEF Deciding
  <2>4. \A s \in Runtime!Sessions : supervisor[s] \in {"none", "loop", "ended", "dead"}
    BY <2>3 DEF Apart, DecidesAlone
  <2>5. \A s \in Runtime!Sessions : app[s] = "running" => activeFile.of = s /\ activeFile.state = "running"
    BY <1>1, <2>4 DEF Apart, Announced, Consistent
  <2>6. CommandMoves(c, x)
    BY <2>1, <2>2, <2>3, <2>5 DEF CommandMoves
  <2>7. QED BY <2>2, <2>6, CommandMovesAlone
<1>5. CASE Runtime!Reconcile(c) /\ UNCHANGED Runtime!processes
  <2>1. UNCHANGED <<supervisor, app>>
    BY <1>5 DEF Runtime!processes
  <2>2. Deciding(c) /\ r.at # "read" /\ r.at # "idle"
    BY <1>5 DEF Runtime!Reconcile, Deciding
  <2>3. \A s \in Runtime!Sessions : app[s] = "running" =>
          r.at \in {"check", "decide"} /\ r.sees.of = s /\ r.sees.state = "running"
    BY <2>2 DEF Apart, Informed
  <2>4. CASE r.at = "check"
    <3> DEFINE x == [r EXCEPT !.at = IF Runtime!Alive(r.sees.of) THEN "decide" ELSE "fail_session"]
    <3>1. command' = [command EXCEPT ![c] = x] /\ UNCHANGED activeFile
      BY <1>5, <2>4 DEF Runtime!Reconcile, Runtime!At, Runtime!filesOf
    <3>2. x \in CommandRecords /\ x.sees = r.sees /\ x.at \in {"decide", "fail_session"}
          /\ (x.at = "fail_session" => ~Runtime!Alive(r.sees.of))
      BY <1>1 DEF CommandRecords, Places
    <3> HIDE DEF x
    <3>3. CommandMoves(c, x)
      BY <2>1, <2>2, <2>3, <3>1, <3>2 DEF CommandMoves, Runtime!Alive
    <3>4. QED BY <3>2, <3>3, CommandMovesAlone
  <2>5. CASE r.at = "fail_session"
    <3> DEFINE x == [r EXCEPT !.at = "fail_active"]
    <3>1. command' = [command EXCEPT ![c] = x] /\ UNCHANGED activeFile
      BY <1>5, <2>5 DEF Runtime!Reconcile, Runtime!At, Runtime!WriteManifest
    <3>2. x \in CommandRecords
      BY <1>1 DEF CommandRecords, Places
    <3> HIDE DEF x
    <3>3. CommandMoves(c, x)
      BY <2>1, <2>2, <2>3, <2>5, <3>1 DEF CommandMoves
    <3>4. QED BY <3>2, <3>3, CommandMovesAlone
  <2>6. CASE r.at = "fail_active"
    <3> DEFINE x == [r EXCEPT !.at = "decide", !.sees.state = "failed"]
    <3>1. command' = [command EXCEPT ![c] = x]
      BY <1>5, <2>6 DEF Runtime!Reconcile
    <3>2. x \in CommandRecords
      BY <1>1 DEF CommandRecords, FileRecords, Places, States, Runtime!Final
    <3> HIDE DEF x
    <3>3. CommandMoves(c, x)
      BY <2>1, <2>2, <2>3, <2>6, <3>1 DEF CommandMoves
    <3>4. QED BY <3>2, <3>3, CommandMovesAlone
  <2>7. QED BY <1>5, <2>4, <2>5, <2>6 DEF Runtime!Reconcile
<1>6. CASE Runtime!Done(c) /\ UNCHANGED <<activeFile, supervisor, app>>
  <2>1. CommandMoves(c, Runtime!Idle)
    BY <1>2, <1>6 DEF CommandMoves, Runtime!Done
  <2>2. QED BY <1>2, <2>1, CommandMovesAlone
<1>7. CASE Runtime!Status(c) \/ Runtime!Stop(c) \/ Runtime!Awaited(c)
  BY <1>6, <1>7 DEF Runtime!Status, Runtime!Stop, Runtime!Awaited, Runtime!filesOf, Runtime!processes
<1>8. CASE Runtime!Launch(c)
  <2>1. CASE Runtime!Done(c) /\ UNCHANGED Runtime!processes
    BY <1>6, <1>8, <2>1 DEF Runtime!Launch, Runtime!filesOf, Runtime!processes
  <2>2. ASSUME NEW s \in Runtime!Sessions, supervisor[s] = "none",
               ~ (r.sees.state = "running" /\ Runtime!Alive(r.sees.of)),
               supervisor' = [supervisor EXCEPT ![s] = "starting"],
               command' = [command EXCEPT
                 ![c] = [does |-> "launch", at |-> "await", sees |-> [of |-> s, state |-> "none"]]],
               UNCHANGED app
        PROVE  Apart'
    <3>1. UNCHANGED activeFile /\ Deciding(c) /\ r.at = "decide"
      BY <1>8 DEF Runtime!Launch, Runtime!Deciding, Runtime!filesOf, Deciding
    <3>2. \A t \in Runtime!Sessions : app[t] # "running"
      BY <2>2, <3>1 DEF Apart, Informed, Runtime!Alive
    <3>3. \A t \in Runtime!Sessions : Quiet(t)
      BY <1>1, <3>1, <3>2 DEF Apart, DecidesAlone, Consistent, Quiet
    <3>4. \A d \in Runtime!Shells : d # c => command'[d] = command[d] /\ command[d].at = "idle"
      BY <2>2, <3>1 DEF Apart, OneCommand
    <3>5. command'[c].at = "await"
      BY <1>1, <2>2
    <3>6. OneAtWork' /\ Announced'
      BY <1>1, <2>2, <3>2, <3>3 DEF OneAtWork, Announced, Quiet
    <3>7. OneCommand' /\ DecidesAlone' /\ Informed'
      BY <3>4, <3>5 DEF OneCommand, DecidesAlone, Informed, Deciding
    <3>8. QED BY <3>6, <3>7 DEF Apart
  <2>3. QED BY <1>8, <2>1, <2>2 DEF Runtime!Launch, Runtime!Sees
<1>9. QED BY <1>3, <1>4, <1>5, <1>7, <1>8 DEF Runtime!Command

LEMMA AloneInvStep ==
  FilesInv /\ AloneInv /\ [Runtime!Next]_onlyRuntime => AloneInv'
<1> SUFFICES ASSUME FilesInv, AloneInv, [Runtime!Next]_onlyRuntime PROVE AloneInv'
  OBVIOUS
<1>1. CASE Runtime!Next
  <2>1. UNCHANGED hazards
    BY <1>1 DEF Runtime!Next, Runtime!Supervisor, Runtime!AppEnds, Runtime!Crash, Runtime!Command
  <2>2. "hasty" \notin hazards => Apart'
    BY <1>1, SupervisorAlone, ApplicationAlone, CommandAlone DEF AloneInv, Runtime!Next
  <2>3. QED BY <2>1, <2>2 DEF AloneInv
<1>2. CASE UNCHANGED onlyRuntime
  BY <1>2 DEF onlyRuntime, AloneInv, Apart, OneAtWork, Announced, OneCommand, DecidesAlone, Informed,
       Quiet, Deciding
<1>3. QED BY <1>1, <1>2

LEMMA SameCardinality == \A S : Runtime!Cardinality(S) = Cardinality(S)
BY DEF Runtime!Cardinality, Cardinality

LEMMA RuntimeIsTrue ==
  FilesInv /\ AloneInv => Runtime!OneApplication /\ Runtime!FinalIsOver
<1> SUFFICES ASSUME FilesInv, AloneInv PROVE Runtime!OneApplication /\ Runtime!FinalIsOver
  OBVIOUS
<1>1. Runtime!FinalIsOver
  BY DEF FilesInv, Consistent, Runtime!FinalIsOver
<1>2. ASSUME "hasty" \notin hazards PROVE Cardinality({s \in Runtime!Sessions : app[s] = "running"}) <= 1
  <2> DEFINE on == {s \in Runtime!Sessions : app[s] = "running"}
  <2>1. \A s, t \in on : s = t
    BY <1>2 DEF AloneInv, Apart, OneAtWork, Quiet, FilesInv, Consistent
  <2> HIDE DEF on
  <2>2. ASSUME on = {} PROVE Cardinality(on) <= 1
    BY <2>2, FS_EmptySet
  <2>3. ASSUME on # {} PROVE Cardinality(on) <= 1
    <3>1. PICK s \in on : TRUE
      BY <2>3
    <3>2. on = {s}
      BY <2>1, <3>1
    <3>3. Cardinality({s}) = 1
      BY FS_Singleton
    <3>4. QED BY <3>2, <3>3
  <2>4. Cardinality(on) <= 1
    BY <2>2, <2>3
  <2>5. QED BY <2>4 DEF on
<1>3. QED BY <1>1, <1>2, SameCardinality DEF Runtime!OneApplication

-----------------------------------------------------------------------------
(* The runs of the desktop: the windows *)

RunPlaces == {"idle", "settling", "opening", "plan", "saving", "closing", "calling"}
RunRecords ==
  [pc : RunPlaces, run : 0 .. MaxRuns, total : Nat, index : Nat, done : Seq(Runs!Results), error : BOOLEAN]
RunNumbers == 1 .. MaxRuns
BatchFiles == [plans : Seq(Runs!Results), finished : BOOLEAN, saved : BOOLEAN]

RunsShape ==
  /\ running \in [Runs!Runners -> RunRecords]
  /\ history \in [RunNumbers -> BatchFiles]
  /\ ran \in [RunNumbers -> Seq(Runs!Results)] /\ asked \in [RunNumbers -> Nat]
  /\ runs \in 0 .. MaxRuns

(* A window that runs knows every window that there is, and covers none    *)
(* unless somebody brought one back.                                       *)
WindowsAway ==
  /\ minimized \subseteq open /\ DOMAIN restore = Runs!Runners /\ DOMAIN excused = Runs!Runners
  /\ \A w \in Runs!Runners : running[w].pc # "idle" =>
       open \subseteq restore[w] /\ (~ excused[w] => open \subseteq minimized)
  /\ (\A w \in Runs!Runners : running[w].pc = "idle") => minimized \subseteq {Starter}

LEMMA WindowsAwayInit == Runs!Init => WindowsAway
BY DEF Runs!Init, Runs!NoRun, Runs!Frames, WindowsAway

(* A step of a run that goes on. *)
LEMMA RunGoesOn ==
  ASSUME WindowsAway, NEW w \in Runs!Runners, running[w].pc # "idle",
         \A v \in Runs!Runners : v # w => running'[v] = running[v],
         UNCHANGED <<open, minimized, restore, excused>>, running'[w].pc # "idle"
  PROVE  WindowsAway'
BY DEF WindowsAway

LEMMA WindowsAwayStep ==
  RunsShape /\ WindowsAway /\ [Runs!Next]_onlyRuns => WindowsAway'
<1> SUFFICES ASSUME RunsShape, WindowsAway, [Runs!Next]_onlyRuns PROVE WindowsAway'
  OBVIOUS
<1>1. DOMAIN running = Runs!Runners /\ \A w \in Runs!Runners : running[w] \in RunRecords
  BY DEF RunsShape
<1>2. ASSUME NEW w \in Runs!Runners,
             Runs!StartWorker(w) \/ Runs!Open(w) \/ Runs!Save(w) \/ Runs!Close(w)
               \/ \E result \in Runs!Results : Runs!Execute(w, result)
      PROVE  WindowsAway'
  <2>1. UNCHANGED <<open, minimized, restore, excused>> /\ running[w].pc # "idle"
    BY <1>2 DEF Runs!StartWorker, Runs!Open, Runs!Save, Runs!Close, Runs!Execute, Runs!At
  <2>2. running'[w].pc # "idle" /\ \A v \in Runs!Runners : v # w => running'[v] = running[v]
    <3>1. CASE Runs!StartWorker(w)
      BY <1>1, <3>1 DEF Runs!StartWorker, Runs!Goto, RunRecords
    <3>2. CASE Runs!Open(w)
      BY <1>1, <3>2 DEF Runs!Open, Runs!Goto, RunRecords
    <3>3. CASE Runs!Save(w)
      BY <1>1, <3>3 DEF Runs!Save, Runs!Goto, RunRecords
    <3>4. CASE Runs!Close(w)
      BY <1>1, <3>4 DEF Runs!Close, Runs!Goto, RunRecords
    <3>5. ASSUME NEW result, Runs!Execute(w, result)
          PROVE  running'[w].pc # "idle" /\ \A v \in Runs!Runners : v # w => running'[v] = running[v]
      BY <1>1, <3>5 DEF Runs!Execute, RunRecords
    <3>6. QED BY <1>2, <3>1, <3>2, <3>3, <3>4, <3>5
  <2>3. QED BY <2>1, <2>2, RunGoesOn
<1>3. ASSUME NEW w \in Runs!Runners, Runs!Finished(w) PROVE WindowsAway'
  <2>1. /\ running[w].pc = "calling" /\ running'[w].pc = "idle" /\ UNCHANGED open
        /\ \A v \in Runs!Runners : v # w => running'[v] = running[v]
        /\ minimized' = minimized \ (restore[w] \cup {w})
        /\ restore' = [restore EXCEPT ![w] = {}]
        /\ excused' = [x \in Runs!Runners |-> excused[x] \/ (x # w /\ running[x].pc # "idle")]
    BY <1>1, <1>3 DEF Runs!Finished, Runs!Goto, Runs!Restore, Runs!At, RunRecords
  <2>2. minimized' = {}
    BY <2>1 DEF WindowsAway
  <2>3. QED BY <2>1, <2>2 DEF WindowsAway
<1>4. ASSUME NEW w \in Runs!Runners, NEW n, Runs!Run(w, n) PROVE WindowsAway'
  <2>1. /\ running[w].pc = "idle" /\ running'[w].pc = "settling" /\ UNCHANGED open
        /\ \A v \in Runs!Runners : v # w => running'[v] = running[v]
        /\ minimized' = open /\ restore' = [restore EXCEPT ![w] = open]
        /\ excused' = [excused EXCEPT ![w] = FALSE]
    BY <1>1, <1>4 DEF Runs!Run, Runs!Suspend, Runs!NoRun
  <2>2. QED BY <2>1 DEF WindowsAway
<1>5. ASSUME NEW w \in Runs!Frames, Runs!Raise(w) PROVE WindowsAway'
  BY <1>5 DEF Runs!Raise, WindowsAway
<1>6. ASSUME NEW w \in Runs!Frames, Runs!CloseWindow(w) PROVE WindowsAway'
  <2>1. /\ open' = open \ {w} /\ minimized' = minimized \ Runs!Comeback(w)
        /\ excused' = [x \in Runs!Runners |-> excused[x] \/ (running[x].pc # "idle" /\ w \in Projects)]
        /\ UNCHANGED <<running, restore>>
    BY <1>6 DEF Runs!CloseWindow
  <2>2. w \in Runs!Comeback(w) /\ (w \notin Projects => Runs!Comeback(w) = {w})
    BY DEF Runs!Comeback
  <2>3. QED BY <2>1, <2>2 DEF WindowsAway
<1>7. Runs!Crash \/ UNCHANGED onlyRuns => WindowsAway'
  BY DEF Runs!Crash, onlyRuns, WindowsAway
<1>8. QED BY <1>2, <1>3, <1>4, <1>5, <1>6, <1>7 DEF Runs!Next, Runs!Worker

-----------------------------------------------------------------------------
(* The runs of the desktop: the files *)

Prefix(p, q) == Len(p) <= Len(q) /\ \A i \in DOMAIN p : p[i] = q[i]

(* What the run record of a project window, the file of its batch, what    *)
(* its plans came to and how many were asked for say of one another.       *)
Batch(x, file, came, total) ==
  /\ x.done = came /\ x.total = total /\ x.index = Len(came) /\ x.index <= total
  /\ x.pc \in {"settling", "opening"} => ~ file.saved /\ x.index < total
  /\ x.pc = "plan" => x.index < total
  /\ x.error => x.pc \in {"closing", "calling", "idle"}
  /\ x.pc = "closing" /\ ~ x.error => x.index = total
  /\ file.saved /\ file.finished =>
       x.pc \in {"calling", "idle"} /\ file.plans = came /\ (x.error \/ x.index = total)
  /\ file.saved /\ ~ file.finished =>
       Prefix(file.plans, came) /\ (x.pc \in {"calling", "idle"} => x.error)

(* The same of a run that its window has forgotten.                        *)
Past(r) ==
  history[r].saved =>
    /\ Prefix(history[r].plans, ran[r])
    /\ history[r].finished => history[r].plans = ran[r] /\ (r \in warned \/ Len(ran[r]) = asked[r])
    /\ ~ history[r].finished => r \in warned

Numbered ==
  /\ \A w \in Runs!Runners : running[w].run <= runs /\ (running[w].pc # "idle" => running[w].run # 0)
  /\ \A v, w \in Runs!Runners : running[v].run # 0 /\ running[v].run = running[w].run => v = w
  /\ \A r \in RunNumbers : r > runs => history[r].saved = FALSE /\ ran[r] = <<>>

BatchesFiled ==
  \A w \in Projects : running[w].run # 0 =>
    /\ Batch(running[w], history[running[w].run], ran[running[w].run], asked[running[w].run])
    /\ running[w].pc = "idle" /\ running[w].error => running[w].run \in warned
PlansUnfiled ==
  \A w \in Plans :
    /\ running[w].pc \in {"idle", "settling", "plan", "calling"}
    /\ running[w].run # 0 => history[running[w].run].saved = FALSE
PastFiled == \A r \in RunNumbers : (\A w \in Projects : running[w].run # r) => Past(r)

FilesTrue == Numbered /\ BatchesFiled /\ PlansUnfiled /\ PastFiled

LEMMA RunsInit == Runs!Init => RunsShape /\ FilesTrue
<1> SUFFICES ASSUME Runs!Init PROVE RunsShape /\ FilesTrue
  OBVIOUS
<1> USE DEF Runs!Init, Runs!NoRun, Runs!NoFile
<1>1. <<>> \in Seq(Runs!Results)
  OBVIOUS
<1>2. Runs!NoRun \in RunRecords /\ Runs!NoFile \in BatchFiles
  BY <1>1, RunsAssumption DEF RunRecords, BatchFiles, RunPlaces
<1>3. RunsShape
  BY <1>1, <1>2, RunsAssumption DEF RunsShape, RunNumbers
<1>4. FilesTrue
  BY DEF FilesTrue, Numbered, BatchesFiled, PlansUnfiled, PastFiled, Past, RunNumbers, Runs!Runners
<1>5. QED BY <1>3, <1>4

(* A step that leaves runs and files alone.                                *)
LEMMA FilesIdle ==
  ASSUME RunsShape, FilesTrue, UNCHANGED <<running, history, runs, ran, asked, warned>>
  PROVE  RunsShape' /\ FilesTrue'
BY DEF RunsShape, FilesTrue, Numbered, BatchesFiled, PlansUnfiled, PastFiled, Past

(* A step of the batch of a project window.                                *)
BatchMoves(w, x, file, came) ==
  /\ running' = [running EXCEPT ![w] = x]
  /\ history' = [history EXCEPT ![running[w].run] = file]
  /\ ran' = [ran EXCEPT ![running[w].run] = came]
  /\ UNCHANGED <<runs, asked>> /\ warned \subseteq warned'
  /\ x.run = running[w].run

LEMMA BatchKeeps ==
  ASSUME RunsShape, FilesTrue, NEW w \in Projects, NEW x \in RunRecords, NEW file \in BatchFiles,
         NEW came \in Seq(Runs!Results), BatchMoves(w, x, file, came), running[w].run # 0,
         Batch(x, file, came, asked[running[w].run]),
         x.pc = "idle" /\ x.error => running[w].run \in warned'
  PROVE  RunsShape' /\ FilesTrue'
<1> DEFINE r == running[w].run
<1>1. /\ w \in Runs!Runners /\ r \in RunNumbers /\ running[w] \in RunRecords /\ r <= runs /\ w \notin Plans
  BY RunsAssumption DEF Runs!Runners, RunsShape, RunRecords, RunNumbers, FilesTrue, Numbered
<1>2. RunsShape'
  BY <1>1 DEF RunsShape, BatchMoves
<1>3. /\ \A v \in Runs!Runners : running'[v] = IF v = w THEN x ELSE running[v]
      /\ \A n \in RunNumbers : history'[n] = IF n = r THEN file ELSE history[n]
      /\ \A n \in RunNumbers : ran'[n] = IF n = r THEN came ELSE ran[n]
      /\ runs' = runs /\ asked' = asked /\ warned \subseteq warned' /\ x.run = r
  BY <1>1 DEF RunsShape, BatchMoves
<1>4. \A v \in Runs!Runners : running'[v].run = running[v].run
  BY <1>1, <1>3
<1>5. \A v \in Runs!Runners : v # w => running[v].run # r
  BY <1>1 DEF FilesTrue, Numbered
<1>6. \A v \in Runs!Runners : running[v].run # 0 => running[v].run \in RunNumbers
  BY DEF RunsShape, RunRecords, RunNumbers
<1> HIDE DEF r
<1>7. Numbered'
  <2>1. r # 0 /\ runs \in Int /\ \A n \in RunNumbers : n > runs => n # r
    BY <1>1 DEF RunsShape, RunNumbers, r
  <2>2. \A v \in Runs!Runners : running'[v].run <= runs' /\ (running'[v].pc # "idle" => running'[v].run # 0)
    BY <1>3, <1>4, <2>1 DEF FilesTrue, Numbered
  <2>3. \A n \in RunNumbers : n > runs' => history'[n].saved = FALSE /\ ran'[n] = <<>>
    BY <1>3, <2>1 DEF FilesTrue, Numbered
  <2>4. QED BY <1>3, <1>4, <2>2, <2>3 DEF FilesTrue, Numbered
<1>8. BatchesFiled'
  <2> SUFFICES ASSUME NEW v \in Projects, running'[v].run # 0
               PROVE  /\ Batch(running'[v], history'[running'[v].run], ran'[running'[v].run],
                               asked'[running'[v].run])
                      /\ running'[v].pc = "idle" /\ running'[v].error => running'[v].run \in warned'
    BY DEF BatchesFiled
  <2>1. v \in Runs!Runners
    BY DEF Runs!Runners
  <2>2. CASE v = w
    BY <1>1, <1>3, <2>2 DEF r
  <2>3. CASE v # w
    BY <1>3, <1>4, <1>5, <1>6, <2>1, <2>3 DEF FilesTrue, BatchesFiled
  <2>4. QED BY <2>2, <2>3
<1>9. PlansUnfiled'
  BY <1>1, <1>3, <1>4, <1>5, <1>6 DEF FilesTrue, PlansUnfiled, Runs!Runners
<1>10. PastFiled'
  BY <1>1, <1>3, <1>4 DEF FilesTrue, PastFiled, Past, Runs!Runners, r
<1>11. QED BY <1>2, <1>7, <1>8, <1>9, <1>10 DEF FilesTrue

(* A step of the run of a plan window.                                     *)
PlanMoves(w, x, came) ==
  /\ running' = [running EXCEPT ![w] = x]
  /\ ran' = [ran EXCEPT ![running[w].run] = came]
  /\ UNCHANGED <<history, runs, asked>> /\ warned \subseteq warned'
  /\ x.run = running[w].run

LEMMA PlanKeeps ==
  ASSUME RunsShape, FilesTrue, NEW w \in Plans, NEW x \in RunRecords,
         NEW came \in Seq(Runs!Results), PlanMoves(w, x, came), running[w].run # 0,
         x.pc \in {"idle", "settling", "plan", "calling"}
  PROVE  RunsShape' /\ FilesTrue'
<1> DEFINE r == running[w].run
<1>1. /\ w \in Runs!Runners /\ r \in RunNumbers /\ running[w] \in RunRecords /\ r <= runs /\ w \notin Projects
  BY RunsAssumption DEF Runs!Runners, RunsShape, RunRecords, RunNumbers, FilesTrue, Numbered
<1>2. RunsShape'
  BY <1>1 DEF RunsShape, PlanMoves
<1>3. /\ \A v \in Runs!Runners : running'[v] = IF v = w THEN x ELSE running[v]
      /\ \A n \in RunNumbers : ran'[n] = IF n = r THEN came ELSE ran[n]
      /\ history' = history /\ runs' = runs /\ asked' = asked /\ warned \subseteq warned' /\ x.run = r
  BY <1>1 DEF RunsShape, PlanMoves
<1>4. \A v \in Runs!Runners : running'[v].run = running[v].run
  BY <1>1, <1>3
<1>5. \A v \in Runs!Runners : v # w => running[v].run # r
  BY <1>1 DEF FilesTrue, Numbered
<1>6. \A v \in Runs!Runners : running[v].run # 0 => running[v].run \in RunNumbers
  BY DEF RunsShape, RunRecords, RunNumbers
<1>7. history[r].saved = FALSE
  BY <1>1 DEF FilesTrue, PlansUnfiled
<1> HIDE DEF r
<1>8. Numbered'
  <2>1. r # 0 /\ runs \in Int /\ \A n \in RunNumbers : n > runs => n # r
    BY <1>1 DEF RunsShape, RunNumbers, r
  <2>2. \A v \in Runs!Runners : running'[v].run <= runs' /\ (running'[v].pc # "idle" => running'[v].run # 0)
    BY <1>3, <1>4, <2>1 DEF FilesTrue, Numbered
  <2>3. \A n \in RunNumbers : n > runs' => history'[n].saved = FALSE /\ ran'[n] = <<>>
    BY <1>3, <2>1 DEF FilesTrue, Numbered
  <2>4. QED BY <1>3, <1>4, <2>2, <2>3 DEF FilesTrue, Numbered
<1>9. BatchesFiled'
  BY <1>1, <1>3, <1>4, <1>5, <1>6 DEF FilesTrue, BatchesFiled, Runs!Runners
<1>10. PlansUnfiled'
  BY <1>1, <1>3, <1>4 DEF FilesTrue, PlansUnfiled, Runs!Runners
<1>11. PastFiled'
  BY <1>1, <1>3, <1>4, <1>7 DEF FilesTrue, PastFiled, Past, Runs!Runners
<1>12. QED BY <1>2, <1>8, <1>9, <1>10, <1>11 DEF FilesTrue

LEMMA RunBegins ==
  ASSUME RunsShape, FilesTrue, NEW w \in Runs!Runners, NEW n \in 1 .. MaxPlans, Runs!Run(w, n)
  PROVE  RunsShape' /\ FilesTrue'
<1> DEFINE x == [Runs!NoRun EXCEPT !.pc = "settling", !.run = runs + 1, !.total = n]
           r == running[w].run
<1>1. /\ running[w].pc = "idle" /\ n \in Nat /\ n > 0
      /\ runs < MaxRuns /\ runs \in Nat /\ runs + 1 \in RunNumbers
      /\ running[w] \in RunRecords /\ \A v \in Runs!Runners : running[v].run \in 0 .. MaxRuns
  BY RunsAssumption DEF Runs!Run, RunsShape, RunNumbers, RunRecords
<1>2. /\ running' = [running EXCEPT ![w] = x] /\ asked' = [asked EXCEPT ![runs + 1] = n]
      /\ runs' = runs + 1 /\ UNCHANGED <<history, ran, warned>>
  BY DEF Runs!Run
<1>3. <<>> \in Seq(Runs!Results)
  OBVIOUS
<1>4. x \in RunRecords
  <2>1. Runs!NoRun \in RunRecords
    BY <1>1, <1>3, RunsAssumption DEF RunRecords, RunPlaces, Runs!NoRun
  <2>2. runs + 1 \in 0 .. MaxRuns
    BY <1>1 DEF RunNumbers
  <2>3. QED BY <1>1, <2>1, <2>2 DEF RunRecords, RunPlaces
<1>5. RunsShape'
  BY <1>1, <1>2, <1>4 DEF RunsShape, RunNumbers
<1>6. /\ x.pc = "settling" /\ x.run = runs + 1 /\ x.total = n /\ x.index = 0 /\ x.done = <<>> /\ x.error = FALSE
  BY DEF Runs!NoRun
<1> HIDE DEF x
<1>7. /\ \A v \in Runs!Runners : running'[v] = IF v = w THEN x ELSE running[v]
      /\ \A m \in RunNumbers : asked'[m] = IF m = runs + 1 THEN n ELSE asked[m]
      /\ history[runs + 1].saved = FALSE /\ ran[runs + 1] = <<>>
      /\ \A v \in Runs!Runners : running[v].run <= runs
  BY <1>1, <1>2 DEF RunsShape, FilesTrue, Numbered
<1>8. \A v \in Runs!Runners : running[v].run # runs + 1
  BY <1>1, <1>7
<1>9. \A v \in Runs!Runners : running[v].run # 0 => running[v].run \in RunNumbers
  BY <1>1 DEF RunNumbers
<1>10. Numbered'
  <2>1. \A v \in Runs!Runners : running'[v].run <= runs' /\ (running'[v].pc # "idle" => running'[v].run # 0)
    <3> SUFFICES ASSUME NEW v \in Runs!Runners
                 PROVE  running'[v].run <= runs' /\ (running'[v].pc # "idle" => running'[v].run # 0)
      OBVIOUS
    <3>1. CASE v = w
      BY <1>1, <1>2, <1>6, <1>7, <3>1
    <3>2. CASE v # w
      BY <1>1, <1>2, <1>7, <3>2 DEF FilesTrue, Numbered
    <3>3. QED BY <3>1, <3>2
  <2>2. \A m \in RunNumbers : m > runs' => history'[m].saved = FALSE /\ ran'[m] = <<>>
    <3>1. \A m \in RunNumbers : m > runs + 1 => m > runs
      BY <1>1 DEF RunNumbers
    <3>2. QED BY <1>2, <3>1 DEF FilesTrue, Numbered
  <2>3. \A u, v \in Runs!Runners : running'[v].run # 0 /\ running'[v].run = running'[u].run => v = u
    BY <1>6, <1>7, <1>8 DEF FilesTrue, Numbered
  <2>4. QED BY <2>1, <2>2, <2>3 DEF Numbered
<1>11. BatchesFiled'
  <2> SUFFICES ASSUME NEW v \in Projects, running'[v].run # 0
               PROVE  /\ Batch(running'[v], history'[running'[v].run], ran'[running'[v].run],
                               asked'[running'[v].run])
                      /\ running'[v].pc = "idle" /\ running'[v].error => running'[v].run \in warned'
    BY DEF BatchesFiled
  <2>1. v \in Runs!Runners
    BY DEF Runs!Runners
  <2>2. CASE v = w
    <3>1. /\ running'[v] = x /\ history'[runs + 1].saved = FALSE
          /\ ran'[runs + 1] = <<>> /\ asked'[runs + 1] = n
      BY <1>1, <1>2, <1>7, <2>1, <2>2
    <3>2. Len(<<>>) = 0 /\ 0 < n /\ 0 <= n
      BY <1>1
    <3>3. QED BY <1>6, <3>1, <3>2 DEF Batch
  <2>3. CASE v # w
    <3>1. /\ running'[v] = running[v] /\ running[v].run \in RunNumbers /\ running[v].run # runs + 1
      BY <1>7, <1>8, <1>9, <2>1, <2>3
    <3>2. QED BY <1>2, <1>7, <3>1 DEF FilesTrue, BatchesFiled
  <2>4. QED BY <2>2, <2>3
<1>12. PlansUnfiled'
  BY <1>2, <1>6, <1>7, <1>8 DEF FilesTrue, PlansUnfiled, Runs!Runners
(* The run that the window forgets was over. *)
<1>13. ASSUME w \in Projects, r # 0 PROVE Past(r)
  <2>1. Batch(running[w], history[r], ran[r], asked[r]) /\ (running[w].error => r \in warned)
    BY <1>1, <1>13 DEF FilesTrue, BatchesFiled
  <2>2. history[r].plans \in Seq(Runs!Results) /\ history[r].finished \in BOOLEAN
    BY <1>9, <1>13 DEF RunsShape, BatchFiles
  <2>3. \A p \in Seq(Runs!Results) : Prefix(p, p)
    BY DEF Prefix
  <2>4. QED BY <1>1, <2>1, <2>2, <2>3 DEF Batch, Past
<1>14. PastFiled'
  <2> SUFFICES ASSUME NEW m \in RunNumbers, \A v \in Projects : running'[v].run # m PROVE Past(m)'
    BY DEF PastFiled
  <2>1. CASE m = runs + 1
    BY <1>2, <1>7, <2>1 DEF Past
  <2>2. CASE m # runs + 1
    <3>1. Past(m)
      <4>1. CASE \A v \in Projects : running[v].run # m
        BY <4>1 DEF FilesTrue, PastFiled
      <4>2. ASSUME NEW v \in Projects, running[v].run = m PROVE Past(m)
        <5>1. v = w
          BY <1>7, <4>2 DEF Runs!Runners
        <5>2. m # 0
          BY DEF RunNumbers
        <5>3. QED BY <1>13, <4>2, <5>1, <5>2
      <4>3. QED BY <4>1, <4>2
    <3>2. QED BY <1>2, <1>7, <2>2, <3>1 DEF Past
  <2>3. QED BY <2>1, <2>2
<1>15. QED BY <1>5, <1>10, <1>11, <1>12, <1>14 DEF FilesTrue

LEMMA WorkerFiles ==
  ASSUME RunsShape, FilesTrue, NEW w \in Runs!Runners, Runs!Worker(w)
  PROVE  RunsShape' /\ FilesTrue'
<1> DEFINE r == running[w].run
           x == running[w]
           file == history[r]
           came == ran[r]
<1>1. x \in RunRecords /\ x.pc # "idle" /\ r # 0 /\ r \in RunNumbers
  <2>1. x \in RunRecords
    BY DEF RunsShape
  <2>2. x.pc # "idle"
    BY DEF Runs!Worker, Runs!StartWorker, Runs!Open, Runs!Save, Runs!Close, Runs!Finished, Runs!Execute, Runs!At
  <2>3. r # 0
    BY <2>2 DEF FilesTrue, Numbered
  <2>4. QED BY <2>1, <2>2, <2>3 DEF RunRecords, RunNumbers
<1>2. /\ x.pc \in RunPlaces /\ x.total \in Nat /\ x.index \in Nat /\ x.done \in Seq(Runs!Results)
      /\ x.error \in BOOLEAN
  BY <1>1 DEF RunRecords
<1>3. /\ file \in BatchFiles /\ came \in Seq(Runs!Results) /\ asked[r] \in Nat
      /\ history = [history EXCEPT ![r] = file] /\ ran = [ran EXCEPT ![r] = came]
  BY <1>1 DEF RunsShape
(* What the records that the steps leave hold. *)
<1>4. ASSUME NEW pc \in RunPlaces
      PROVE  /\ [x EXCEPT !.pc = pc] \in RunRecords /\ [x EXCEPT !.pc = pc].run = r
             /\ [x EXCEPT !.pc = pc].pc = pc /\ [x EXCEPT !.pc = pc].done = x.done
             /\ [x EXCEPT !.pc = pc].total = x.total /\ [x EXCEPT !.pc = pc].index = x.index
             /\ [x EXCEPT !.pc = pc].error = x.error
  BY <1>1, <1>4 DEF RunRecords
<1>5. ASSUME NEW pc \in RunPlaces
      PROVE  /\ [x EXCEPT !.pc = pc, !.error = TRUE] \in RunRecords
             /\ [x EXCEPT !.pc = pc, !.error = TRUE].run = r
             /\ [x EXCEPT !.pc = pc, !.error = TRUE].pc = pc
             /\ [x EXCEPT !.pc = pc, !.error = TRUE].done = x.done
             /\ [x EXCEPT !.pc = pc, !.error = TRUE].total = x.total
             /\ [x EXCEPT !.pc = pc, !.error = TRUE].index = x.index
             /\ [x EXCEPT !.pc = pc, !.error = TRUE].error = TRUE
  BY <1>1, <1>5 DEF RunRecords
<1>6. ASSUME NEW result \in Runs!Results, NEW pc \in RunPlaces
      PROVE  LET y == [x EXCEPT !.pc = pc, !.done = Append(x.done, result), !.index = x.index + 1]
             IN /\ y \in RunRecords /\ y.run = r /\ y.pc = pc /\ y.done = Append(x.done, result)
                /\ y.total = x.total /\ y.index = x.index + 1 /\ y.error = x.error
  <2>1. Append(x.done, result) \in Seq(Runs!Results) /\ x.index + 1 \in Nat
    BY <1>2
  <2>2. QED BY <1>1, <2>1, <1>6 DEF RunRecords
<1>7. CASE w \in Projects
  <2>1. Batch(x, file, came, asked[r])
    BY <1>1, <1>7 DEF FilesTrue, BatchesFiled
  <2>2. CASE Runs!StartWorker(w)
    <3> DEFINE y == [x EXCEPT !.pc = "opening"]
    <3>1. /\ x.pc = "settling" /\ running' = [running EXCEPT ![w] = y]
          /\ UNCHANGED <<history, ran, runs, asked, warned>>
      BY <1>7, <2>2 DEF Runs!StartWorker, Runs!At, Runs!Goto
    <3>2. y \in RunRecords /\ y.run = r /\ y.pc = "opening" /\ y.done = x.done /\ y.total = x.total
          /\ y.index = x.index /\ y.error = x.error
      BY <1>4 DEF RunPlaces
    <3> HIDE DEF y
    <3>3. BatchMoves(w, y, file, came)
      BY <1>3, <3>1, <3>2 DEF BatchMoves
    <3>4. Batch(y, file, came, asked[r])
      BY <2>1, <3>1, <3>2 DEF Batch
    <3>5. QED BY <1>1, <1>3, <1>7, <3>2, <3>3, <3>4, BatchKeeps
  <2>3. CASE Runs!Open(w)
    <3>1. x.pc = "opening" /\ UNCHANGED <<ran, runs, asked, warned>>
      BY <2>3 DEF Runs!Open, Runs!At
    <3>2. CASE Runs!Saved(w, FALSE) /\ Runs!Goto(w, "plan")
      <4> DEFINE y == [x EXCEPT !.pc = "plan"]
                 saved == [plans |-> x.done, finished |-> FALSE, saved |-> TRUE]
      <4>1. running' = [running EXCEPT ![w] = y] /\ history' = [history EXCEPT ![r] = saved]
        BY <3>2 DEF Runs!Saved, Runs!Goto
      <4>2. y \in RunRecords /\ y.run = r /\ y.pc = "plan" /\ y.done = x.done /\ y.total = x.total
            /\ y.index = x.index /\ y.error = x.error
        BY <1>4 DEF RunPlaces
      <4>3. saved \in BatchFiles /\ saved.plans = x.done /\ saved.saved = TRUE /\ saved.finished = FALSE
        BY <1>2 DEF BatchFiles
      <4> HIDE DEF y, saved
      <4>4. BatchMoves(w, y, saved, came)
        BY <1>3, <3>1, <4>1, <4>2 DEF BatchMoves
      <4>5. Batch(y, saved, came, asked[r])
        BY <1>3, <2>1, <3>1, <4>2, <4>3 DEF Batch, Prefix
      <4>6. QED BY <1>1, <1>3, <1>7, <4>2, <4>3, <4>4, <4>5, BatchKeeps
    <3>3. CASE running' = [running EXCEPT ![w].pc = "calling", ![w].error = TRUE] /\ UNCHANGED history
      <4> DEFINE y == [x EXCEPT !.pc = "calling", !.error = TRUE]
      <4>1. running' = [running EXCEPT ![w] = y]
        BY <3>3 DEF RunsShape
      <4>2. y \in RunRecords /\ y.run = r /\ y.pc = "calling" /\ y.done = x.done /\ y.total = x.total
            /\ y.index = x.index /\ y.error = TRUE
        BY <1>5 DEF RunPlaces
      <4> HIDE DEF y
      <4>3. BatchMoves(w, y, file, came)
        BY <1>3, <3>1, <3>3, <4>1, <4>2 DEF BatchMoves
      <4>4. Batch(y, file, came, asked[r])
        BY <2>1, <3>1, <4>2 DEF Batch
      <4>5. QED BY <1>1, <1>3, <1>7, <4>2, <4>3, <4>4, BatchKeeps
    <3>4. QED BY <2>3, <3>2, <3>3 DEF Runs!Open
  <2>4. ASSUME NEW result \in Runs!Results, Runs!Execute(w, result) PROVE RunsShape' /\ FilesTrue'
    <3> DEFINE y == [x EXCEPT !.pc = "saving", !.done = Append(x.done, result), !.index = x.index + 1]
               now == Append(came, result)
    <3>1. /\ x.pc = "plan" /\ running' = [running EXCEPT ![w] = y] /\ ran' = [ran EXCEPT ![r] = now]
          /\ UNCHANGED <<history, runs, asked, warned>>
      BY <1>7, <2>4, RunsAssumption DEF Runs!Execute, Runs!At, Runs!Record
    <3>2. y \in RunRecords /\ y.run = r /\ y.pc = "saving" /\ y.done = Append(x.done, result)
          /\ y.total = x.total /\ y.index = x.index + 1 /\ y.error = x.error
      BY <1>6 DEF RunPlaces
    <3> HIDE DEF y
    <3>3. /\ now \in Seq(Runs!Results) /\ Len(now) = Len(came) + 1
          /\ \A p \in Seq(Runs!Results) : Prefix(p, came) => Prefix(p, now)
      BY <1>3 DEF Prefix
    <3>4. x.done = came /\ x.index = Len(came) /\ x.index < asked[r] /\ x.total = asked[r] /\ x.error = FALSE
      BY <1>2, <2>1, <3>1 DEF Batch
    <3>5. file.plans \in Seq(Runs!Results)
      BY <1>3 DEF BatchFiles
    <3> HIDE DEF now
    <3>6. BatchMoves(w, y, file, now)
      BY <1>3, <3>1, <3>2 DEF BatchMoves
    <3>7. Batch(y, file, now, asked[r])
      <4>1. y.done = now /\ y.index <= asked[r] /\ y.index = Len(now) /\ y.error = FALSE
        BY <1>2, <1>3, <3>2, <3>3, <3>4 DEF now
      <4>2. QED BY <2>1, <3>1, <3>2, <3>3, <3>4, <3>5, <4>1 DEF Batch
    <3>8. QED BY <1>1, <1>3, <1>7, <3>2, <3>3, <3>6, <3>7, BatchKeeps
  <2>5. CASE Runs!Save(w)
    <3>1. x.pc = "saving" /\ UNCHANGED <<ran, runs, asked, warned>>
      BY <2>5 DEF Runs!Save, Runs!At
    <3>2. x.error = FALSE
      BY <1>2, <2>1, <3>1 DEF Batch
    <3>3. CASE /\ Runs!Saved(w, FALSE)
               /\ Runs!Goto(w, IF running[w].index < running[w].total THEN "plan" ELSE "closing")
      <4> DEFINE next == IF x.index < x.total THEN "plan" ELSE "closing"
                 y == [x EXCEPT !.pc = next]
                 saved == [plans |-> x.done, finished |-> FALSE, saved |-> TRUE]
      <4>1. running' = [running EXCEPT ![w] = y] /\ history' = [history EXCEPT ![r] = saved]
        BY <3>3 DEF Runs!Saved, Runs!Goto
      <4>2. y \in RunRecords /\ y.run = r /\ y.pc = next /\ y.done = x.done /\ y.total = x.total
            /\ y.index = x.index /\ y.error = x.error
        BY <1>4 DEF RunPlaces
      <4>3. saved \in BatchFiles /\ saved.plans = x.done /\ saved.saved = TRUE /\ saved.finished = FALSE
        BY <1>2 DEF BatchFiles
      <4> HIDE DEF y, saved
      <4>4. BatchMoves(w, y, saved, came)
        BY <1>3, <3>1, <4>1, <4>2 DEF BatchMoves
      <4>5. Batch(y, saved, came, asked[r])
        <5>1. y.pc = "plan" => x.index < asked[r]
          BY <2>1, <4>2 DEF Batch
        <5>2. y.pc = "closing" => x.index = asked[r]
          BY <1>2, <1>3, <2>1, <4>2 DEF Batch
        <5>3. y.pc \in {"plan", "closing"}
          BY <4>2
        <5>4. Prefix(came, came)
          BY <1>3 DEF Prefix
        <5>5. QED BY <2>1, <3>1, <3>2, <4>2, <4>3, <5>1, <5>2, <5>3, <5>4 DEF Batch
      <4>6. QED BY <1>1, <1>3, <1>7, <3>2, <4>2, <4>3, <4>4, <4>5, BatchKeeps
    <3>4. CASE running' = [running EXCEPT ![w].pc = "closing", ![w].error = TRUE] /\ UNCHANGED history
      <4> DEFINE y == [x EXCEPT !.pc = "closing", !.error = TRUE]
      <4>1. running' = [running EXCEPT ![w] = y]
        BY <3>4 DEF RunsShape
      <4>2. y \in RunRecords /\ y.run = r /\ y.pc = "closing" /\ y.done = x.done /\ y.total = x.total
            /\ y.index = x.index /\ y.error = TRUE
        BY <1>5 DEF RunPlaces
      <4> HIDE DEF y
      <4>3. BatchMoves(w, y, file, came)
        BY <1>3, <3>1, <3>4, <4>1, <4>2 DEF BatchMoves
      <4>4. Batch(y, file, came, asked[r])
        BY <2>1, <3>1, <4>2 DEF Batch
      <4>5. QED BY <1>1, <1>3, <1>7, <4>2, <4>3, <4>4, BatchKeeps
    <3>5. QED BY <2>5, <3>3, <3>4 DEF Runs!Save
  <2>6. CASE Runs!Close(w)
    <3>1. x.pc = "closing" /\ UNCHANGED <<ran, runs, asked, warned>>
      BY <2>6 DEF Runs!Close, Runs!At
    <3>2. CASE Runs!Saved(w, TRUE) /\ Runs!Goto(w, "calling")
      <4> DEFINE y == [x EXCEPT !.pc = "calling"]
                 saved == [plans |-> x.done, finished |-> TRUE, saved |-> TRUE]
      <4>1. running' = [running EXCEPT ![w] = y] /\ history' = [history EXCEPT ![r] = saved]
        BY <3>2 DEF Runs!Saved, Runs!Goto
      <4>2. y \in RunRecords /\ y.run = r /\ y.pc = "calling" /\ y.done = x.done /\ y.total = x.total
            /\ y.index = x.index /\ y.error = x.error
        BY <1>4 DEF RunPlaces
      <4>3. saved \in BatchFiles /\ saved.plans = x.done /\ saved.saved = TRUE /\ saved.finished = TRUE
        BY <1>2 DEF BatchFiles
      <4> HIDE DEF y, saved
      <4>4. BatchMoves(w, y, saved, came)
        BY <1>3, <3>1, <4>1, <4>2 DEF BatchMoves
      <4>5. Batch(y, saved, came, asked[r])
        BY <2>1, <3>1, <4>2, <4>3 DEF Batch
      <4>6. QED BY <1>1, <1>3, <1>7, <4>2, <4>3, <4>4, <4>5, BatchKeeps
    <3>3. CASE running' = [running EXCEPT ![w].pc = "calling", ![w].error = TRUE] /\ UNCHANGED history
      <4> DEFINE y == [x EXCEPT !.pc = "calling", !.error = TRUE]
      <4>1. running' = [running EXCEPT ![w] = y]
        BY <3>3 DEF RunsShape
      <4>2. y \in RunRecords /\ y.run = r /\ y.pc = "calling" /\ y.done = x.done /\ y.total = x.total
            /\ y.index = x.index /\ y.error = TRUE
        BY <1>5 DEF RunPlaces
      <4> HIDE DEF y
      <4>3. BatchMoves(w, y, file, came)
        BY <1>3, <3>1, <3>3, <4>1, <4>2 DEF BatchMoves
      <4>4. Batch(y, file, came, asked[r])
        BY <2>1, <3>1, <4>2 DEF Batch
      <4>5. QED BY <1>1, <1>3, <1>7, <4>2, <4>3, <4>4, BatchKeeps
    <3>4. QED BY <2>6, <3>2, <3>3 DEF Runs!Close
  <2>7. CASE Runs!Finished(w)
    <3> DEFINE y == [x EXCEPT !.pc = "idle"]
    <3>1. /\ x.pc = "calling" /\ running' = [running EXCEPT ![w] = y] /\ UNCHANGED <<history, ran, runs, asked>>
          /\ warned' = IF x.error THEN warned \cup {r} ELSE warned
      BY <2>7 DEF Runs!Finished, Runs!At, Runs!Goto
    <3>2. y \in RunRecords /\ y.run = r /\ y.pc = "idle" /\ y.done = x.done /\ y.total = x.total
          /\ y.index = x.index /\ y.error = x.error
      BY <1>4 DEF RunPlaces
    <3> HIDE DEF y
    <3>3. BatchMoves(w, y, file, came)
      BY <1>3, <3>1, <3>2 DEF BatchMoves
    <3>4. Batch(y, file, came, asked[r])
      BY <2>1, <3>1, <3>2 DEF Batch
    <3>5. y.error => r \in warned'
      BY <3>1, <3>2
    <3>6. QED BY <1>1, <1>3, <1>7, <3>2, <3>3, <3>4, <3>5, BatchKeeps
  <2>8. QED BY <2>2, <2>3, <2>4, <2>5, <2>6, <2>7 DEF Runs!Worker
<1>8. CASE w \in Plans
  <2>1. w \notin Projects /\ x.pc \in {"idle", "settling", "plan", "calling"}
    BY <1>8, RunsAssumption DEF FilesTrue, PlansUnfiled
  <2>2. ASSUME NEW pc \in {"idle", "plan", "calling"}, Runs!Goto(w, pc),
               UNCHANGED <<history, ran, runs, asked>>, warned \subseteq warned'
        PROVE  RunsShape' /\ FilesTrue'
    <3> DEFINE y == [x EXCEPT !.pc = pc]
    <3>1. y \in RunRecords /\ y.run = r /\ y.pc = pc
      BY <1>4, <2>2 DEF RunPlaces
    <3>2. PlanMoves(w, y, came)
      BY <1>3, <2>2, <3>1 DEF PlanMoves, Runs!Goto
    <3> HIDE DEF y
    <3>3. QED BY <1>1, <1>3, <1>8, <2>2, <3>1, <3>2, PlanKeeps
  <2>3. CASE Runs!StartWorker(w)
    <3>1. Runs!Goto(w, "plan") /\ UNCHANGED <<history, ran, runs, asked, warned>>
      BY <2>1, <2>3 DEF Runs!StartWorker
    <3>2. QED BY <2>2, <3>1
  <2>4. CASE Runs!Finished(w)
    <3>1. Runs!Goto(w, "idle") /\ UNCHANGED <<history, ran, runs, asked>> /\ warned \subseteq warned'
      BY <2>4 DEF Runs!Finished
    <3>2. QED BY <2>2, <3>1
  <2>5. ASSUME NEW result \in Runs!Results, Runs!Execute(w, result) PROVE RunsShape' /\ FilesTrue'
    <3> DEFINE now == Append(came, result)
    <3>1. ran' = [ran EXCEPT ![r] = now] /\ UNCHANGED <<history, runs, asked, warned>>
      BY <2>5 DEF Runs!Execute
    <3>2. now \in Seq(Runs!Results)
      BY <1>3
    <3>3. PICK y \in RunRecords : y.run = r /\ y.pc = "calling" /\ running' = [running EXCEPT ![w] = y]
      <4>1. CASE running' = [running EXCEPT ![w].pc = "calling", ![w].error = TRUE]
        <5> DEFINE z == [x EXCEPT !.pc = "calling", !.error = TRUE]
        <5>1. running' = [running EXCEPT ![w] = z]
          BY <4>1 DEF RunsShape
        <5>2. z \in RunRecords /\ z.run = r /\ z.pc = "calling"
          BY <1>5 DEF RunPlaces
        <5> HIDE DEF z
        <5>3. QED BY <5>1, <5>2
      <4>2. CASE running' = [running EXCEPT ![w].pc = IF w \in Projects THEN "saving" ELSE "calling",
                                           ![w].done = Runs!Record(@, result), ![w].index = @ + 1]
        <5> DEFINE z == [x EXCEPT !.pc = "calling", !.done = Append(x.done, result), !.index = x.index + 1]
        <5>1. running' = [running EXCEPT ![w] = z]
          BY <2>1, <4>2 DEF RunsShape, Runs!Record
        <5>2. z \in RunRecords /\ z.run = r /\ z.pc = "calling"
          BY <1>6 DEF RunPlaces
        <5> HIDE DEF z
        <5>3. QED BY <5>1, <5>2
      <4>3. QED BY <2>5, <4>1, <4>2 DEF Runs!Execute
    <3>4. PlanMoves(w, y, now)
      BY <3>1, <3>3 DEF PlanMoves
    <3> HIDE DEF now
    <3>5. QED BY <1>1, <1>8, <3>2, <3>3, <3>4, PlanKeeps
  <2>6. QED BY <1>1, <2>1, <2>3, <2>4, <2>5 DEF Runs!Worker, Runs!Open, Runs!Save, Runs!Close, Runs!At
<1>9. QED BY <1>7, <1>8 DEF Runs!Runners

LEMMA RunsStep ==
  RunsShape /\ FilesTrue /\ [Runs!Next]_onlyRuns => RunsShape' /\ FilesTrue'
<1> SUFFICES ASSUME RunsShape, FilesTrue, [Runs!Next]_onlyRuns PROVE RunsShape' /\ FilesTrue'
  OBVIOUS
<1>1. ASSUME NEW w \in Runs!Frames, Runs!Raise(w) \/ Runs!CloseWindow(w) PROVE RunsShape' /\ FilesTrue'
  BY <1>1, FilesIdle DEF Runs!Raise, Runs!CloseWindow
<1>2. Runs!Crash \/ UNCHANGED onlyRuns => RunsShape' /\ FilesTrue'
  BY FilesIdle DEF Runs!Crash, onlyRuns
<1>3. QED BY <1>1, <1>2, WorkerFiles, RunBegins DEF Runs!Next

LEMMA FilesAreTruthful == RunsShape /\ FilesTrue => Runs!BatchTruthful
<1> SUFFICES ASSUME RunsShape, FilesTrue, NEW r \in RunNumbers, history[r].saved
             PROVE  /\ Len(history[r].plans) <= Len(ran[r])
                    /\ \A i \in DOMAIN history[r].plans : history[r].plans[i] = ran[r][i]
                    /\ history[r].finished =>
                         /\ history[r].plans = ran[r]
                         /\ ~ Runs!Executing(r)
                         /\ Runs!Verdict(history[r].plans) = "passed" =>
                              Runs!Reported(r) \/ Len(ran[r]) = asked[r]
                    /\ ~ history[r].finished => Runs!Executing(r) \/ ended \/ Runs!Reported(r)
  BY DEF Runs!BatchTruthful, RunNumbers
<1>1. /\ history[r].plans \in Seq(Runs!Results) /\ ran[r] \in Seq(Runs!Results)
      /\ r # 0 /\ history[r].finished \in BOOLEAN
  BY DEF RunsShape, BatchFiles, RunNumbers
<1>2. \A p \in Seq(Runs!Results) : Prefix(p, p)
  BY DEF Prefix
<1>3. CASE \A w \in Projects : running[w].run # r
  <2>1. Past(r) /\ ~ Runs!Executing(r)
    BY <1>3 DEF FilesTrue, PastFiled, Runs!Executing
  <2>2. QED BY <1>1, <1>2, <2>1 DEF Past, Prefix, Runs!Reported
<1>4. ASSUME NEW w \in Projects, running[w].run = r
      PROVE  /\ Prefix(history[r].plans, ran[r])
             /\ history[r].finished =>
                  /\ history[r].plans = ran[r]
                  /\ ~ Runs!Executing(r)
                  /\ Runs!Reported(r) \/ Len(ran[r]) = asked[r]
             /\ ~ history[r].finished => Runs!Executing(r) \/ Runs!Reported(r)
  <2>1. Batch(running[w], history[r], ran[r], asked[r])
    BY <1>1, <1>4 DEF FilesTrue, BatchesFiled
  <2>2. \A v \in Projects : running[v].run = r => v = w
    BY <1>1, <1>4 DEF FilesTrue, Numbered, Runs!Runners
  <2>3. QED BY <1>1, <1>2, <1>4, <2>1, <2>2 DEF Batch, Runs!Executing, Runs!Reported
<1>5. QED BY <1>3, <1>4 DEF Prefix

-----------------------------------------------------------------------------
(* The services *)

ServicesInv ==
  /\ part = "window" => WindowInv /\ QueueInv
  /\ part = "runtime" => FilesInv /\ AloneInv
  /\ part = "runs" => RunsShape /\ FilesTrue /\ WindowsAway

LEMMA ServicesInvInit == ServicesInit => ServicesInv
BY WindowInvInit, FilesInvInit, AloneInvInit, RunsInit, WindowsAwayInit DEF ServicesInit, ServicesInv

LEMMA ServicesInvStep == ServicesInv /\ [ServicesNext]_all => ServicesInv'
<1> SUFFICES ASSUME ServicesInv, [ServicesNext]_all PROVE ServicesInv'
  OBVIOUS
<1>1. /\ UNCHANGED part
      /\ part = "window" => [Recorder!Next]_onlyRecorder
      /\ part = "runtime" => [Runtime!Next]_onlyRuntime
      /\ part = "runs" => [Runs!Next]_onlyRuns
  BY DEF ServicesNext, all
<1>2. part = "window" => WindowInv' /\ QueueInv'
  BY <1>1, WindowInvStep DEF ServicesInv
<1>3. part = "runtime" => FilesInv' /\ AloneInv'
  BY <1>1, FilesInvStep, AloneInvStep DEF ServicesInv
<1>4. part = "runs" => RunsShape' /\ FilesTrue' /\ WindowsAway'
  BY <1>1, RunsStep, WindowsAwayStep DEF ServicesInv
<1>5. QED BY <1>1, <1>2, <1>3, <1>4 DEF ServicesInv

(* However clicks, hotkeys, dialogs and closing windows interleave, a      *)
(* window of the process that records, or waits for its stop, holds the    *)
(* recorder: two never record at a time.                                   *)
THEOREM OneWindowRecords == ServicesSpec => []OneRecording
<1>1. ServicesInv => OneRecording
  BY DEF ServicesInv, WindowInv, OneRecording
<1>2. QED BY <1>1, ServicesInvInit, ServicesInvStep, PTL DEF ServicesSpec

(* A pending stop watches for its own generation, hidden windows and       *)
(* highlights will be brought back and cleared, and the desktop of a run   *)
(* is clear of the windows it minimized, which are back after it.          *)
THEOREM NothingIsLeft == ServicesSpec => []StopLeavesNothing
<1>1. WindowInv /\ QueueInv =>
        Recorder!CompletionIsCurrent /\ Recorder!NothingStaysHidden /\ Recorder!HighlightsAreCleared
  <2>1. WindowInv => Recorder!NothingStaysHidden
    BY DEF WindowInv, HiddenForRecording, Recorder!NothingStaysHidden
  <2>2. QueueInv => Recorder!HighlightsAreCleared
    BY DEF QueueInv, Highlights, Cleared, Recorder!HighlightsAreCleared, Recorder!None
  <2>3. QED BY <2>1, <2>2 DEF WindowInv
<1>2. WindowsAway => Runs!DesktopIsClear
  BY DEF WindowsAway, Runs!DesktopIsClear
<1>3. ServicesInv => StopLeavesNothing
  BY <1>1, <1>2 DEF ServicesInv, StopLeavesNothing
<1>4. QED BY <1>3, ServicesInvInit, ServicesInvStep, PTL DEF ServicesSpec

(* Two applications are never supervised at a time when commands keep out  *)
(* of one another's way, a manifest never gives up on a running            *)
(* application, and the history of a batch is what its plans came to.      *)
THEOREM FilesTellTheTruth == ServicesSpec => []StatusIsTrue
<1>1. ServicesInv => StatusIsTrue
  BY RuntimeIsTrue, FilesAreTruthful DEF ServicesInv, StatusIsTrue
<1>2. QED BY <1>1, ServicesInvInit, ServicesInvStep, PTL DEF ServicesSpec
=============================================================================
