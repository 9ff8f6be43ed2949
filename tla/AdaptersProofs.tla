---------------------------- MODULE AdaptersProofs ----------------------------
(***************************************************************************)
(* Proofs about the recorders that MCAdapters checks side by side. Each    *)
(* has an inductive invariant over its own variables; that a behaviour of  *)
(* the sum belongs to one of them carries it over to the whole.            *)
(***************************************************************************)
EXTENDS MCAdapters, Integers, FiniteSetTheorems, TLAPS

-----------------------------------------------------------------------------
(* SwingRecording: a release names the component that was clicked, and     *)
(* comes after everything that was clicked before it.                      *)

Observations == [phase : {"pressed", "released"}, of : Nat, on : Spots]
Jobs == [does : {"press", "release", "process"}, of : Nat]
Items == [seen : Observations, during : Nat]

(* What the harness got, and where an observation may be.                  *)
Got == [i \in DOMAIN taken |-> taken[i].seen]
Elements(s) == {s[i] : i \in DOMAIN s}
Seen == Elements(Got) \cup Elements(buffer) \cup Elements(offering)

SwingTyped ==
  /\ under \in Spots /\ clicks \in Seq(Spots) /\ holding \in BOOLEAN
  /\ edt \in Seq(Jobs) /\ \A i \in DOMAIN edt : edt[i].of \in DOMAIN clicks
  /\ offering \in Seq(Observations) /\ Len(offering) <= 1
  /\ buffer \in Seq(Observations) /\ taken \in Seq(Items) /\ recording \in Nat
  /\ \A o \in Seen : o.of \in DOMAIN clicks
  /\ holding => clicks # <<>>

(* A release stands before whatever belongs to a later click only.         *)
Precedes(o, p) == o.phase = "released" => o.of < p.of
Sorted(s) == \A i, j \in DOMAIN s : i < j => Precedes(s[i], s[j])
Ahead(s, t) == \A i \in DOMAIN s : \A j \in DOMAIN t : Precedes(s[i], t[j])

PipeInOrder ==
  /\ Sorted(Got) /\ Sorted(buffer) /\ Ahead(Got, buffer)
  /\ Ahead(Got, offering) /\ Ahead(buffer, offering)

QueueInOrder ==
  \A i, j \in DOMAIN edt :
    /\ edt[i].does = "process" /\ (edt[j].does # "process" \/ i < j) => edt[i].of < edt[j].of
    /\ edt[i].does = "release" /\ edt[j].does # "process" /\ i < j => edt[i].of < edt[j].of
QueueBehind == \A o \in Seen : \A i \in DOMAIN edt : Precedes(o, edt[i])

(* While the button is down, its release is still to come.                 *)
HeldIsLast ==
  holding =>
    /\ \A o \in Seen : o.phase = "released" => o.of < Len(clicks)
    /\ \A i \in DOMAIN edt : edt[i].does # "press" => edt[i].of < Len(clicks)

(* What was clicked and not looked at yet is still there, or has moved.    *)
NamesClicked ==
  /\ \A o \in Seen : o.phase = "released" /\ o.of \notin moved => o.on = clicks[o.of]
  /\ \A n \in Swing!Unread : n \notin moved => under = clicks[n]

SwingInv ==
  SwingTyped /\ PipeInOrder /\ QueueInOrder /\ QueueBehind /\ HeldIsLast /\ NamesClicked

USE DEF Swing!NoOffer

LEMMA SwingStarts == Swing!Init => SwingInv
<1> SUFFICES ASSUME Swing!Init PROVE SwingInv
  OBVIOUS
<1>1. /\ taken = <<>> /\ buffer = <<>> /\ offering = <<>> /\ edt = <<>> /\ clicks = <<>>
      /\ under \in Spots /\ holding = FALSE /\ recording = 0
  BY DEF Swing!Init
<1>2. DOMAIN Got = {} /\ Seen = {}
  BY <1>1 DEF Seen, Got, Elements
<1>3. PipeInOrder
  BY <1>1, <1>2 DEF PipeInOrder, Sorted, Ahead
<1>4. SwingTyped
  <2>1. edt \in Seq(Jobs) /\ DOMAIN edt = {} /\ clicks \in Seq(Spots) /\ buffer \in Seq(Observations)
    BY <1>1
  <2>2. offering \in Seq(Observations) /\ Len(offering) <= 1 /\ taken \in Seq(Items)
    BY <1>1
  <2> QED BY <1>1, <1>2, <2>1, <2>2 DEF SwingTyped
<1>5. QueueInOrder /\ QueueBehind /\ HeldIsLast /\ NamesClicked
  BY <1>1, <1>2 DEF QueueInOrder, QueueBehind, HeldIsLast, NamesClicked, Swing!Unread
<1> QED BY <1>3, <1>4, <1>5 DEF SwingInv

(* What does not touch the observations under way.                         *)
LEMMA PipeKept ==
  ASSUME PipeInOrder, UNCHANGED <<offering, buffer, taken>>
  PROVE  PipeInOrder' /\ Seen' = Seen
<1>1. Got' = Got
  BY DEF Got
<1> QED BY <1>1 DEF PipeInOrder, Seen, Elements, Sorted, Ahead, Precedes

LEMMA Clicked ==
  ASSUME clicks \in Seq(Spots), under \in Spots, clicks' = Append(clicks, under)
  PROVE  /\ clicks' \in Seq(Spots)
         /\ Len(clicks') = Len(clicks) + 1 /\ DOMAIN clicks' = 1 .. Len(clicks) + 1
         /\ \A n \in DOMAIN clicks : clicks'[n] = clicks[n] /\ n \in DOMAIN clicks'
         /\ clicks'[Len(clicks) + 1] = under /\ DOMAIN clicks = 1 .. Len(clicks)
         /\ Len(clicks) \in Nat /\ clicks' # <<>> /\ Len(clicks) + 1 \in DOMAIN clicks'
OBVIOUS

LEMMA Queued ==
  ASSUME NEW s \in Seq(Jobs), NEW j \in Jobs, NEW t, t = Append(s, j)
  PROVE  /\ t \in Seq(Jobs) /\ DOMAIN t = DOMAIN s \cup {Len(s) + 1}
         /\ \A i \in DOMAIN s : t[i] = s[i] /\ i < Len(s) + 1 /\ s[i] \in Jobs
         /\ t[Len(s) + 1] = j /\ DOMAIN s \subseteq Nat /\ Len(s) \in Nat
OBVIOUS

LEMMA UserKept ==
  ASSUME SwingInv, Swing!User \/ Swing!ChangeUnder
  PROVE  SwingInv'
<1>1. PipeInOrder' /\ Seen' = Seen
  BY PipeKept DEF SwingInv, Swing!User, Swing!Press, Swing!Release, Swing!ChangeUnder
<1>2. CASE Swing!Press
  <2>1. /\ clicks' \in Seq(Spots)
        /\ Len(clicks') = Len(clicks) + 1 /\ DOMAIN clicks' = 1 .. Len(clicks) + 1
        /\ \A n \in DOMAIN clicks : clicks'[n] = clicks[n] /\ n \in DOMAIN clicks'
        /\ clicks'[Len(clicks) + 1] = under /\ DOMAIN clicks = 1 .. Len(clicks)
        /\ Len(clicks) \in Nat /\ clicks' # <<>> /\ Len(clicks) + 1 \in DOMAIN clicks'
    BY <1>2, Clicked DEF Swing!Press, SwingInv, SwingTyped
  <2>2. PICK press \in Jobs :
          press.does = "press" /\ press.of = Len(clicks) + 1 /\ edt' = Append(edt, press)
    BY <1>2, <2>1 DEF Swing!Press, Swing!Event, Jobs
  <2>3. /\ edt' \in Seq(Jobs) /\ DOMAIN edt' = DOMAIN edt \cup {Len(edt) + 1}
        /\ \A i \in DOMAIN edt : edt'[i] = edt[i] /\ i < Len(edt) + 1 /\ edt[i] \in Jobs
        /\ edt'[Len(edt) + 1] = press /\ DOMAIN edt \subseteq Nat /\ Len(edt) \in Nat
    BY <2>2, Queued DEF SwingInv, SwingTyped
  <2>4. \A i \in DOMAIN edt : edt[i].of \in DOMAIN clicks /\ edt[i].of < Len(clicks) + 1
    BY <2>1 DEF SwingInv, SwingTyped
  <2>5. \A o \in Seen : o.of \in DOMAIN clicks /\ o.of < Len(clicks) + 1
    BY <2>1 DEF SwingInv, SwingTyped
  <2>6. SwingTyped'
    <3>1. \A i \in DOMAIN edt' : edt'[i].of \in DOMAIN clicks'
      BY <2>1, <2>2, <2>3, <2>4
    <3>2. UNCHANGED <<under, offering, buffer, taken, recording>> /\ holding'
      BY <1>2 DEF Swing!Press, Swing!serverVars
    <3> QED BY <1>1, <2>1, <2>3, <2>5, <3>1, <3>2 DEF SwingInv, SwingTyped
  <2>7. QueueInOrder'
    BY <2>2, <2>3, <2>4 DEF SwingInv, QueueInOrder
  <2>8. QueueBehind'
    BY <1>1, <2>2, <2>3, <2>5 DEF SwingInv, QueueBehind, Precedes
  <2>9. HeldIsLast'
    BY <1>1, <2>1, <2>2, <2>3, <2>4, <2>5 DEF HeldIsLast
  <2>10. NamesClicked'
    <3>1. Swing!Unread' \subseteq Swing!Unread \cup {Len(clicks) + 1}
      BY <1>2, <2>1, <2>2, <2>3 DEF Swing!Unread, Swing!Press
    <3>2. \A n \in Swing!Unread : n \in DOMAIN clicks
      BY <1>2, <2>4 DEF Swing!Unread, Swing!Press
    <3>3. under' = under /\ moved' = moved
      BY <1>2 DEF Swing!Press
    <3> QED BY <1>1, <2>1, <2>5, <3>1, <3>2, <3>3 DEF SwingInv, NamesClicked
  <2> QED BY <1>1, <2>6, <2>7, <2>8, <2>9, <2>10 DEF SwingInv
<1>3. CASE Swing!Release
  <2>1. /\ clicks' = clicks /\ holding /\ holding' = FALSE /\ clicks # <<>> /\ Len(clicks) \in DOMAIN clicks
        /\ Len(clicks) \in Nat
        /\ UNCHANGED <<under, moved, offering, buffer, taken, recording>>
    BY <1>3 DEF SwingInv, SwingTyped, Swing!Release, Swing!serverVars
  <2>2. PICK release \in Jobs :
          release.does = "release" /\ release.of = Len(clicks) /\ edt' = Append(edt, release)
    BY <1>3, <2>1 DEF Swing!Release, Swing!Event, Jobs
  <2>3. /\ edt' \in Seq(Jobs) /\ DOMAIN edt' = DOMAIN edt \cup {Len(edt) + 1}
        /\ \A i \in DOMAIN edt : edt'[i] = edt[i] /\ i < Len(edt) + 1 /\ edt[i] \in Jobs
        /\ edt'[Len(edt) + 1] = release /\ DOMAIN edt \subseteq Nat /\ Len(edt) \in Nat
    BY <2>2, Queued DEF SwingInv, SwingTyped
  <2>4. SwingTyped'
    <3>1. \A i \in DOMAIN edt' : edt'[i].of \in DOMAIN clicks
      BY <2>1, <2>2, <2>3 DEF SwingInv, SwingTyped
    <3> QED BY <1>1, <2>1, <2>3, <3>1 DEF SwingInv, SwingTyped
  <2>5. QueueInOrder'
    BY <2>1, <2>2, <2>3 DEF SwingInv, QueueInOrder, HeldIsLast
  <2>6. QueueBehind'
    BY <1>1, <2>1, <2>2, <2>3 DEF SwingInv, QueueBehind, HeldIsLast, Precedes
  <2>7. HeldIsLast'
    BY <2>1 DEF HeldIsLast
  <2>8. Swing!Unread' \subseteq Swing!Unread
    BY <2>1, <2>2, <2>3 DEF Swing!Unread
  <2>9. NamesClicked'
    BY <1>1, <2>1, <2>8 DEF SwingInv, NamesClicked
  <2> QED BY <1>1, <2>4, <2>5, <2>6, <2>7, <2>9 DEF SwingInv
<1>4. CASE Swing!ChangeUnder
  <2>1. UNCHANGED <<edt, holding, clicks, offering, buffer, taken, recording>> /\ under' \in Spots
        /\ moved' = moved \cup Swing!Unread
    BY <1>4 DEF Swing!ChangeUnder, Swing!queueVars, Swing!serverVars
  <2>2. Swing!Unread' = Swing!Unread
    BY <2>1 DEF Swing!Unread
  <2>3. SwingTyped' /\ QueueInOrder' /\ QueueBehind' /\ HeldIsLast'
    BY <1>1, <2>1 DEF SwingInv, SwingTyped, QueueInOrder, QueueBehind, HeldIsLast, Precedes
  <2>4. NamesClicked'
    BY <1>1, <2>1, <2>2 DEF SwingInv, NamesClicked
  <2> QED BY <1>1, <2>3, <2>4 DEF SwingInv
<1> QED BY <1>2, <1>3, <1>4 DEF Swing!User

LEMMA Taken ==
  ASSUME edt \in Seq(Jobs), edt # <<>>
  PROVE  /\ 1 \in DOMAIN edt /\ Head(edt) = edt[1] /\ Tail(edt) \in Seq(Jobs)
         /\ Len(Tail(edt)) + 1 = Len(edt) /\ DOMAIN Tail(edt) \subseteq Nat
         /\ \A i \in DOMAIN Tail(edt) :
              i \in Nat /\ i + 1 \in DOMAIN edt /\ Tail(edt)[i] = edt[i + 1]
OBVIOUS

(* A job that describes a component leaves an observation of the click it  *)
(* is about, or none.                                                      *)
LEMMA DescribeKept ==
  ASSUME SwingInv, edt # <<>>, edt' = Tail(edt), offering = <<>>,
         edt[1].does \in {"press", "process"},
         NEW o \in Observations, o.of = edt[1].of, o.on = under,
         o.phase = "released" => edt[1].does = "process",
         offering' \in {<<>>, <<o>>},
         UNCHANGED <<under, holding, clicks, moved, buffer, taken, recording>>
  PROVE  SwingInv'
<1>1. /\ 1 \in DOMAIN edt /\ edt' \in Seq(Jobs) /\ DOMAIN edt' \subseteq Nat
      /\ \A i \in DOMAIN edt' : i \in Nat /\ i + 1 \in DOMAIN edt /\ edt'[i] = edt[i + 1]
  BY Taken DEF SwingInv, SwingTyped
<1>2. Got' = Got /\ buffer' = buffer
  BY DEF Got
<1>3. Seen' \subseteq Seen \cup {o} /\ \A i \in DOMAIN offering' : offering'[i] = o
  <2>1. \A i \in DOMAIN offering' : offering'[i] = o
    OBVIOUS
  <2> QED BY <1>2, <2>1 DEF Seen, Elements
<1>4. SwingTyped'
  <2>1. offering' \in Seq(Observations) /\ Len(offering') <= 1
    <3>1. CASE offering' = <<>> BY <3>1
    <3>2. CASE offering' = <<o>> BY <3>2
    <3> QED BY <3>1, <3>2
  <2>2. \A i \in DOMAIN edt' : edt'[i].of \in DOMAIN clicks
    BY <1>1 DEF SwingInv, SwingTyped
  <2>3. \A p \in Seen' : p.of \in DOMAIN clicks
    BY <1>1, <1>3 DEF SwingInv, SwingTyped
  <2> QED BY <1>1, <2>1, <2>2, <2>3 DEF SwingInv, SwingTyped
<1>5. PipeInOrder'
  <2>1. \A p \in Seen : Precedes(p, o)
    BY <1>1 DEF SwingInv, QueueBehind, Precedes
  <2>2. Ahead(Got, offering') /\ Ahead(buffer, offering')
    BY <1>3, <2>1 DEF Ahead, Seen, Elements
  <2> QED BY <1>2, <2>2 DEF SwingInv, PipeInOrder, Ahead, Sorted, Precedes
<1>6. QueueInOrder'
  BY <1>1 DEF SwingInv, QueueInOrder
<1>7. QueueBehind'
  <2>1. \A i \in DOMAIN edt' : Precedes(o, edt'[i])
    BY <1>1 DEF SwingInv, QueueInOrder, Precedes
  <2> QED BY <1>1, <1>3, <2>1 DEF SwingInv, QueueBehind, Precedes
<1>8. HeldIsLast'
  BY <1>1, <1>3 DEF SwingInv, HeldIsLast
<1>9. NamesClicked'
  <2>1. Swing!Unread' \subseteq Swing!Unread /\ o.of \in Swing!Unread
    BY <1>1 DEF Swing!Unread
  <2> QED BY <1>3, <2>1 DEF SwingInv, NamesClicked
<1> QED BY <1>4, <1>5, <1>6, <1>7, <1>8, <1>9 DEF SwingInv

LEMMA HearReleaseKept ==
  ASSUME SwingInv, Swing!HearRelease
  PROVE  SwingInv'
<1>1. /\ edt # <<>> /\ edt[1].does = "release"
      /\ UNCHANGED <<under, holding, clicks, moved, offering, buffer, taken, recording>>
  BY Taken DEF SwingInv, SwingTyped, Swing!HearRelease, Swing!Coming, Swing!serverVars
<1>2. /\ 1 \in DOMAIN edt /\ Head(edt) = edt[1] /\ Tail(edt) \in Seq(Jobs)
      /\ Len(Tail(edt)) + 1 = Len(edt) /\ DOMAIN Tail(edt) \subseteq Nat
      /\ \A i \in DOMAIN Tail(edt) : i \in Nat /\ i + 1 \in DOMAIN edt /\ Tail(edt)[i] = edt[i + 1]
      /\ edt[1] \in Jobs /\ Len(edt) \in Nat
  BY <1>1, Taken DEF SwingInv, SwingTyped
<1>3. PICK process \in Jobs :
        /\ process.does = "process" /\ process.of = edt[1].of
        /\ edt' = Append(Tail(edt), process)
  BY <1>1, <1>2 DEF Swing!HearRelease, Swing!Event, Swing!Coming, Jobs
<1>4. /\ edt' \in Seq(Jobs) /\ edt'[Len(edt)] = process
      /\ \A i \in DOMAIN edt' :
           /\ i \in Nat
           /\ i = Len(edt) \/ (i < Len(edt) /\ i + 1 \in DOMAIN edt /\ edt'[i] = edt[i + 1])
  <2>1. /\ edt' \in Seq(Jobs) /\ DOMAIN edt' = DOMAIN Tail(edt) \cup {Len(Tail(edt)) + 1}
        /\ \A i \in DOMAIN Tail(edt) : edt'[i] = Tail(edt)[i] /\ i < Len(Tail(edt)) + 1
        /\ edt'[Len(Tail(edt)) + 1] = process
    BY <1>2, <1>3, Queued
  <2> QED BY <1>2, <2>1
<1>5. PipeInOrder' /\ Seen' = Seen
  BY <1>1, PipeKept DEF SwingInv
<1>6. SwingTyped'
  <2>1. \A i \in DOMAIN edt' : edt'[i].of \in DOMAIN clicks
    BY <1>2, <1>3, <1>4 DEF SwingInv, SwingTyped
  <2> QED BY <1>1, <1>4, <1>5, <2>1 DEF SwingInv, SwingTyped
<1>7. QueueInOrder'
  <2>1. \A i \in DOMAIN edt :
          /\ edt[i].does = "process" => edt[i].of < process.of
          /\ edt[i].does # "process" /\ 1 < i => process.of < edt[i].of
    BY <1>1, <1>2, <1>3 DEF SwingInv, QueueInOrder
  <2>2. \A i \in DOMAIN Tail(edt) : i >= 1
    BY <1>2
  <2> QED BY <1>2, <1>3, <1>4, <2>1, <2>2 DEF SwingInv, QueueInOrder
<1>8. QueueBehind'
  BY <1>2, <1>3, <1>4, <1>5 DEF SwingInv, QueueBehind, Precedes
<1>9. HeldIsLast'
  BY <1>1, <1>2, <1>3, <1>4, <1>5 DEF SwingInv, HeldIsLast
<1>10. NamesClicked'
  <2>1. Swing!Unread' \subseteq Swing!Unread
    BY <1>1, <1>2, <1>3, <1>4 DEF Swing!Unread
  <2> QED BY <1>1, <1>5, <2>1 DEF SwingInv, NamesClicked
<1> QED BY <1>5, <1>6, <1>7, <1>8, <1>9, <1>10 DEF SwingInv

(* What happens behind the event queue forgets observations or hands them  *)
(* on in their order.                                                      *)
LEMMA HandedOnKept ==
  ASSUME SwingInv, UNCHANGED <<under, edt, holding, clicks, moved>>, Seen' \subseteq Seen, PipeInOrder',
         offering' \in Seq(Observations), Len(offering') <= 1, buffer' \in Seq(Observations),
         taken' \in Seq(Items), recording' \in Nat
  PROVE  SwingInv'
<1>1. SwingTyped' /\ QueueInOrder'
  BY DEF SwingInv, SwingTyped, QueueInOrder
<1>2. QueueBehind' /\ HeldIsLast'
  BY DEF SwingInv, QueueBehind, HeldIsLast, Precedes
<1>3. NamesClicked'
  BY DEF SwingInv, NamesClicked, Swing!Unread
<1> QED BY <1>1, <1>2, <1>3 DEF SwingInv

LEMMA Joined ==
  ASSUME NEW S, NEW s \in Seq(S), NEW t \in Seq(S)
  PROVE  /\ s \o t \in Seq(S) /\ DOMAIN s \subseteq Nat /\ DOMAIN t \subseteq Nat
         /\ Len(s) \in Nat /\ DOMAIN (s \o t) \subseteq Nat
         /\ \A i \in DOMAIN (s \o t) :
              \/ i \in DOMAIN s /\ i <= Len(s) /\ (s \o t)[i] = s[i]
              \/ i > Len(s) /\ i - Len(s) \in DOMAIN t /\ (s \o t)[i] = t[i - Len(s)]
OBVIOUS

LEMMA JoinedInOrder ==
  ASSUME NEW s, NEW t, NEW u, NEW n \in Nat, DOMAIN s \subseteq Nat, DOMAIN t \subseteq Nat,
         \A i \in DOMAIN u :
           \/ i \in DOMAIN s /\ i <= n /\ u[i] = s[i]
           \/ i \in Nat /\ i > n /\ i - n \in DOMAIN t /\ u[i] = t[i - n],
         Sorted(s), Sorted(t), Ahead(s, t)
  PROVE  Sorted(u) /\ Elements(u) \subseteq Elements(s) \cup Elements(t)
BY DEF Sorted, Ahead, Elements

LEMMA Mapped ==
  ASSUME NEW S, NEW T, NEW s \in Seq(S), NEW f, DOMAIN f = DOMAIN s, \A i \in DOMAIN s : f[i] \in T,
         f = [i \in DOMAIN s |-> f[i]]
  PROVE  f \in Seq(T) /\ Len(f) = Len(s)
<1>1. DOMAIN s = 1 .. Len(s) /\ Len(s) \in Nat
  OBVIOUS
<1>2. f \in [1 .. Len(s) -> T]
  BY <1>1
<1> QED BY <1>1, <1>2

LEMMA EndOfferKept ==
  ASSUME SwingInv, Swing!EndOffer
  PROVE  SwingInv'
<1>1. /\ UNCHANGED <<under, edt, holding, clicks, moved, recording, taken>> /\ Got' = Got
      /\ offering' = <<>> /\ buffer' \in {buffer \o offering, buffer}
  BY DEF Swing!EndOffer, Swing!queueVars, Swing!serverVars, Got
<1>2. Sorted(offering) /\ buffer \in Seq(Observations) /\ offering \in Seq(Observations)
  BY DEF SwingInv, SwingTyped, Sorted
<1>3. /\ Sorted(buffer \o offering)
      /\ Elements(buffer \o offering) \subseteq Elements(buffer) \cup Elements(offering)
  <2>1. PICK grown : grown = buffer \o offering
    OBVIOUS
  <2>2. /\ DOMAIN buffer \subseteq Nat /\ DOMAIN offering \subseteq Nat /\ Len(buffer) \in Nat
        /\ \A i \in DOMAIN grown :
             \/ i \in DOMAIN buffer /\ i <= Len(buffer) /\ grown[i] = buffer[i]
             \/ i \in Nat /\ i > Len(buffer) /\ i - Len(buffer) \in DOMAIN offering
                /\ grown[i] = offering[i - Len(buffer)]
    BY <1>2, <2>1, Joined
  <2> QED BY <1>2, <2>1, <2>2, JoinedInOrder DEF SwingInv, PipeInOrder
<1>4. \A i \in DOMAIN Got, x \in Elements(buffer') : Precedes(Got[i], x)
  BY <1>1, <1>3 DEF SwingInv, PipeInOrder, Ahead, Elements
<1>5. PipeInOrder'
  <2>1. Sorted(buffer') /\ Ahead(Got, buffer')
    BY <1>1, <1>3, <1>4 DEF SwingInv, PipeInOrder, Ahead, Elements
  <2>2. Ahead(Got, offering') /\ Ahead(buffer', offering')
    BY <1>1 DEF Ahead
  <2> QED BY <1>1, <2>1, <2>2 DEF SwingInv, PipeInOrder, Ahead, Sorted, Precedes
<1>6. Seen' \subseteq Seen
  <2>1. Elements(offering') = {}
    BY <1>1 DEF Elements
  <2>2. Elements(buffer') \subseteq Elements(buffer) \cup Elements(offering)
    BY <1>1, <1>3
  <2> QED BY <1>1, <2>1, <2>2 DEF Seen, Elements
<1>7. offering' \in Seq(Observations) /\ Len(offering') <= 1 /\ buffer' \in Seq(Observations)
  <2>1. buffer \o offering \in Seq(Observations)
    BY <1>2, Joined
  <2>2. offering' \in Seq(Observations) /\ Len(offering') <= 1
    BY <1>1
  <2> QED BY <1>1, <1>2, <2>1, <2>2
<1> QED BY <1>1, <1>5, <1>6, <1>7, HandedOnKept DEF SwingInv, SwingTyped

LEMMA DrainKept ==
  ASSUME SwingInv, Swing!Drain, UNCHANGED <<under, edt, holding, clicks, moved, recording, offering>>
  PROVE  SwingInv'
<1> DEFINE read == [i \in DOMAIN buffer |-> [seen |-> buffer[i], during |-> recording]]
<1>1. buffer' = <<>> /\ taken' = taken \o read
  BY DEF Swing!Drain
<1>2. buffer \in Seq(Observations) /\ taken \in Seq(Items) /\ recording \in Nat
  BY DEF SwingInv, SwingTyped
<1>3. DOMAIN read = DOMAIN buffer /\ \A i \in DOMAIN buffer : read[i] \in Items /\ read[i].seen = buffer[i]
  BY <1>2 DEF Items
<1>4. read \in Seq(Items)
  BY <1>2, <1>3, Mapped
<1> HIDE DEF read
<1>5. /\ taken' \in Seq(Items) /\ Len(taken) \in Nat /\ DOMAIN taken \subseteq Nat /\ DOMAIN buffer \subseteq Nat
      /\ \A i \in DOMAIN taken' :
           \/ i \in DOMAIN taken /\ i <= Len(taken) /\ taken'[i] = taken[i]
           \/ i \in Nat /\ i > Len(taken) /\ i - Len(taken) \in DOMAIN read
              /\ taken'[i] = read[i - Len(taken)]
  BY <1>1, <1>2, <1>4, Joined
<1>6. Sorted(Got') /\ Elements(Got') \subseteq Elements(Got) \cup Elements(buffer)
  <2>1. \A i \in DOMAIN Got' :
          \/ i \in DOMAIN Got /\ i <= Len(taken) /\ Got'[i] = Got[i]
          \/ i \in Nat /\ i > Len(taken) /\ i - Len(taken) \in DOMAIN buffer
             /\ Got'[i] = buffer[i - Len(taken)]
    BY <1>3, <1>5 DEF Got
  <2>2. DOMAIN Got \subseteq Nat
    BY <1>5 DEF Got
  <2> QED BY <1>5, <2>1, <2>2, JoinedInOrder DEF SwingInv, PipeInOrder
<1>7. PipeInOrder'
  <2>1. Sorted(buffer') /\ Ahead(Got', buffer') /\ Ahead(buffer', offering')
    BY <1>1 DEF Sorted, Ahead
  <2>2. \A x \in Elements(Got) \cup Elements(buffer) : \A j \in DOMAIN offering : Precedes(x, offering[j])
    BY DEF Elements, SwingInv, PipeInOrder, Ahead
  <2>3. Ahead(Got', offering')
    BY <1>6, <2>2 DEF Ahead, Elements
  <2> QED BY <1>6, <2>1, <2>3 DEF PipeInOrder, Sorted, Ahead, Precedes
<1>8. Seen' \subseteq Seen
  <2>1. Elements(buffer') = {} /\ Elements(offering') = Elements(offering)
    BY <1>1 DEF Elements
  <2> QED BY <1>6, <2>1 DEF Seen, Elements
<1> QED BY <1>1, <1>2, <1>5, <1>7, <1>8, HandedOnKept DEF SwingInv, SwingTyped

LEMMA SwingKept ==
  ASSUME SwingInv, [Swing!Next]_Swing!vars
  PROVE  SwingInv'
<1>1. CASE Swing!HearPress
  <2>1. PICK o \in Observations :
          /\ o.of = edt[1].of /\ o.on = under /\ o.phase = "pressed" /\ offering' \in {<<>>, <<o>>}
    <3>1. Swing!Observation("pressed", edt[1].of, under) \in Observations
      <4>1. edt[1] \in Jobs /\ under \in Spots
        BY <1>1, Taken DEF Swing!HearPress, SwingInv, SwingTyped
      <4> QED BY <4>1 DEF Swing!Observation, Observations, Jobs
    <3>2. \/ offering' = <<Swing!Observation("pressed", edt[1].of, under)>>
          \/ offering' = <<>>
      BY <1>1, Taken DEF Swing!HearPress, Swing!Offer, Swing!Coming, SwingInv, SwingTyped
    <3> QED BY <3>1, <3>2 DEF Swing!Observation
  <2> QED BY <1>1, <2>1, Taken, DescribeKept
      DEF Swing!HearPress, Swing!Coming, Swing!serverVars, SwingInv, SwingTyped
<1>2. CASE Swing!ProcessRelease
  <2>1. PICK o \in Observations :
          /\ o.of = edt[1].of /\ o.on = under /\ o.phase = "released" /\ offering' \in {<<>>, <<o>>}
    <3>1. Swing!Observation("released", edt[1].of, under) \in Observations
      <4>1. edt[1] \in Jobs /\ under \in Spots
        BY <1>2, Taken DEF Swing!ProcessRelease, SwingInv, SwingTyped
      <4> QED BY <4>1 DEF Swing!Observation, Observations, Jobs
    <3>2. \/ offering' = <<Swing!Observation("released", edt[1].of, under)>>
          \/ offering' = <<>>
      BY <1>2, Taken DEF Swing!ProcessRelease, Swing!Offer, Swing!Coming, SwingInv, SwingTyped
    <3> QED BY <3>1, <3>2 DEF Swing!Observation
  <2> QED BY <1>2, <2>1, Taken, DescribeKept
      DEF Swing!ProcessRelease, Swing!Coming, Swing!serverVars, SwingInv, SwingTyped
<1>3. CASE Swing!StartBuffer
  <2>1. /\ UNCHANGED <<under, edt, holding, clicks, moved, offering, taken>> /\ Got' = Got
        /\ buffer' = <<>> /\ recording' = recording + 1
    BY <1>3 DEF Swing!StartBuffer, Swing!queueVars, Got
  <2>2. Seen' \subseteq Seen
    BY <2>1 DEF Seen, Elements
  <2>3. PipeInOrder'
    BY <2>1 DEF SwingInv, PipeInOrder, Sorted, Ahead, Precedes
  <2> QED BY <2>1, <2>2, <2>3, HandedOnKept DEF SwingInv, SwingTyped
<1>4. CASE UNCHANGED <<under, edt, holding, clicks, moved, offering, buffer, taken, recording>>
  <2>1. PipeInOrder' /\ Seen' = Seen
    BY <1>4, PipeKept DEF SwingInv
  <2> QED BY <1>4, <2>1, HandedOnKept DEF SwingInv, SwingTyped
<1>5. CASE Swing!Read \/ Swing!StopBuffer
  BY <1>5, DrainKept DEF Swing!Read, Swing!StopBuffer, Swing!queueVars, Swing!serverVars
<1> QED BY <1>1, <1>2, <1>3, <1>4, <1>5, UserKept, HearReleaseKept, EndOfferKept
    DEF Swing!Next, Swing!DispatchThread, Swing!Server, Swing!StartRecorder, Swing!StopRecorder,
        Swing!vars, Swing!queueVars, Swing!serverVars

(* A recorded release names the component that was clicked, unless         *)
(* something else came there since; releases are recorded at most once, in *)
(* the order of the clicks and after their presses, for any number of      *)
(* clicks and recordings (SwingRecorder.event, processRelease;             *)
(* RecordingBuffer; AgentServer.record_start, record_read, record_stop).   *)
THEOREM SwingReleases == AdaptersSpec => []ReleasesRecorded
<1> DEFINE Kept == part = "swing" => SwingInv
<1>1. AdaptersInit => Kept
  BY SwingStarts DEF AdaptersInit
<1>2. Kept /\ [AdaptersNext]_all => Kept'
  <2> SUFFICES ASSUME Kept, [AdaptersNext]_all, part' = "swing" PROVE SwingInv'
    OBVIOUS
  <2>1. part = "swing" /\ [Swing!Next]_Swing!vars
    BY DEF AdaptersNext, all, onlySwing, Swing!vars
  <2> QED BY <2>1, SwingKept
<1>3. Kept => ReleasesRecorded
  <2> SUFFICES ASSUME SwingInv PROVE Swing!ReleaseNamesClicked /\ Swing!ReleasesInOrder
    BY DEF ReleasesRecorded
  <2>1. \A i \in DOMAIN taken : Got[i] = taken[i].seen /\ Got[i] \in Seen /\ i \in DOMAIN Got
    BY DEF Got, Seen, Elements
  <2>2. Swing!ReleaseNamesClicked
    BY <2>1 DEF SwingInv, NamesClicked, Swing!ReleaseNamesClicked, Swing!Released
  <2>3. DOMAIN taken \subseteq Nat /\ \A i \in DOMAIN taken : taken[i].seen.of \in Nat
    <3>1. DOMAIN taken \subseteq Nat /\ \A i \in DOMAIN taken : taken[i] \in Items
      BY DEF SwingInv, SwingTyped
    <3> QED BY <3>1 DEF Items, Observations
  <2>4. Swing!ReleasesInOrder
    BY <2>1, <2>3 DEF SwingInv, PipeInOrder, Sorted, Precedes, Swing!ReleasesInOrder, Swing!Released
  <2> QED BY <2>2, <2>4
<1> QED BY <1>1, <1>2, <1>3, PTL DEF AdaptersSpec

-----------------------------------------------------------------------------
(* JavaFxRecording: which adapter may touch the agent, when.               *)

Recs == Fx!Recordings
Silent == {"new", "starting", "started"}
Live == {"live", "joining"}

(* Whom an observation is heard for.                                       *)
Hears(g) == phase[g] \notin Fx!Over \cup {"new", "starting"} /\ (phase[g] = "started" => tabs)

PhaseInv ==
  /\ \A g, h \in Recs : h < g /\ phase[g] # "new" => phase[h] \in Fx!Over
  /\ \A g \in Recs :
       /\ phase[g] \in Silent => reader[g] = "off"
       /\ phase[g] \in Live => reader[g] # "off"
       /\ batch[g] # <<>> => reader[g] = "emitting"
       /\ phase[g] = "stopped" => ~ emit[g]
       /\ phase[g] \notin {"new", "stopped"} => emit[g]
       /\ "slow" \notin faults /\ phase[g] \notin Silent \cup Live => reader[g] \in {"off", "ended"}
       /\ phase[g] = "closing" /\ reader[g] = "off" => tabs \/ "failing" \in faults
       /\ phase[g] = "draining" => ~ sink /\ ~ (tabs /\ offering)
  /\ rest # <<>> => \E g \in Recs : phase[g] = "draining"
  /\ straggler => "failing" \in faults

(* Every observation is in one place at most, and the one being offered in *)
(* none yet.                                                               *)
Out == {emitted[i].of : i \in DOMAIN emitted}
Settled(n) == n < happened \/ (n = happened /\ ~ offering)
Increasing(s) == \A i, j \in DOMAIN s : i < j => s[i] < s[j]

PlaceInv ==
  /\ Increasing(buffer) /\ Increasing(rest) /\ \A g \in Recs : Increasing(batch[g])
  /\ \A i, j \in DOMAIN emitted : i # j => emitted[i].of # emitted[j].of
  /\ \A n \in Elements(buffer) :
       n \notin Out \cup Elements(rest) /\ \A g \in Recs : n \notin Elements(batch[g])
  /\ \A n \in Elements(rest) : n \notin Out /\ \A g \in Recs : n \notin Elements(batch[g])
  /\ \A g \in Recs : \A n \in Elements(batch[g]) :
       n \notin Out /\ \A h \in Recs : h # g => n \notin Elements(batch[h])
  /\ \A n \in Out \cup Elements(buffer) \cup Elements(rest) : Settled(n)
  /\ \A g \in Recs : \A n \in Elements(batch[g]) : Settled(n)
  /\ \A n \in Fx!Events : heard[n] # Fx!NoRecording => Settled(n)
  /\ offering => happened \in Fx!Events

(* While no reader outlives the join: what is published, what is about to  *)
(* be and what is buffered follow each other, and are of one recording.    *)
OrderInv ==
  /\ \A i, j \in DOMAIN emitted : i < j => emitted[i].of < emitted[j].of
  /\ \A n \in Out :
       /\ \A m \in Elements(buffer) \cup Elements(rest) : n < m
       /\ \A g \in Recs : \A m \in Elements(batch[g]) : n < m
  /\ \A m \in Elements(buffer) :
       /\ \A n \in Elements(rest) : n < m
       /\ \A g \in Recs : \A n \in Elements(batch[g]) : n < m

(* Whose observations the buffer holds.                                    *)
Owns(g) ==
  Hears(g) /\ phase[g] # "draining" /\ (phase[g] = "closing" => reader[g] # "off")
BatchHeard == \A g \in Recs : \A n \in Elements(batch[g]) : heard[n] = g
BufferHeard == \A g \in Recs : Owns(g) => \A n \in Elements(buffer) : heard[n] = g
RestHeard ==
  \A g \in Recs : phase[g] = "draining" /\ reader[g] # "off" => \A n \in Elements(rest) : heard[n] = g
EmittedHeard ==
  \A i \in DOMAIN emitted : LET g == emitted[i].during IN
    phase[g] \notin Silent /\ (reader[g] # "off" => heard[emitted[i].of] = g)
HeardInv == BatchHeard /\ BufferHeard /\ RestHeard /\ EmittedHeard

(* While neither transport nor reader misbehaves: where each observation   *)
(* heard in a recording is that is not over or was stopped.                *)
Published(g, n) == \E i \in DOMAIN emitted : emitted[i].during = g /\ emitted[i].of = n
Dropped(g, n) == ~ tabs /\ Cardinality({k \in n + 1 .. happened : heard[k] = g}) >= Limit
Kept(g, n) ==
  \/ Published(g, n) \/ n \in Elements(batch[g]) \/ Dropped(g, n)
  \/ phase[g] \in {"started", "closing"} \cup Live /\ (failure \/ n \in Elements(buffer))
  \/ phase[g] = "draining" /\ n \in Elements(rest)
Loss(g) ==
  \A n \in Fx!Events : heard[n] = g =>
    /\ phase[g] \notin {"new", "starting"} /\ (phase[g] = "started" => tabs)
    /\ phase[g] # "stop_failed" => Kept(g, n)
LossInv == \A g \in Recs : Loss(g)

FxInv ==
  /\ Fx!TypeOK /\ PhaseInv /\ PlaceInv
  /\ "slow" \notin faults => OrderInv /\ HeardInv
  /\ faults = {} => LossInv

LEMMA FxStarts == Fx!Init => FxInv
<1> SUFFICES ASSUME Fx!Init PROVE FxInv
  OBVIOUS
<1>1. /\ faults \subseteq Fx!Faults /\ tabs \in BOOLEAN
      /\ phase = [g \in Recs |-> "new"] /\ emit = [g \in Recs |-> FALSE]
      /\ stopping = [g \in Recs |-> FALSE] /\ reader = [g \in Recs |-> "off"]
      /\ batch = [g \in Recs |-> <<>>] /\ rest = <<>> /\ straggler = FALSE /\ sink = FALSE
      /\ active = FALSE /\ buffer = <<>> /\ failure = FALSE /\ posted = FALSE /\ listening = FALSE
      /\ offering = FALSE /\ happened = 0 /\ heard = [n \in Fx!Events |-> Fx!NoRecording]
      /\ emitted = <<>>
  BY DEF Fx!Init, Recs
<1>2. /\ rest \in Seq(Fx!Events) /\ emitted \in Seq([of : Fx!Events, during : Recs])
      /\ buffer \in Seq(Fx!Events) /\ Len(buffer) <= Limit /\ batch \in [Recs -> Seq(Fx!Events)]
  BY <1>1, LimitsAssumption
<1>3. Fx!TypeOK
  <2>1. heard \in [Fx!Events -> 0 .. MaxRecordings] /\ happened \in 0 .. MaxEvents
    BY <1>1, LimitsAssumption DEF Fx!NoRecording
  <2>2. /\ phase \in [Recs -> Fx!Over \cup {"new", "starting", "started", "live", "joining",
                                             "closing", "draining"}]
        /\ reader \in [Recs -> {"off", "top", "reading", "emitting", "ended"}]
        /\ emit \in [Recs -> BOOLEAN] /\ stopping \in [Recs -> BOOLEAN]
    BY <1>1
  <2>3. {tabs, failure, straggler, sink, active, posted, listening, offering} \subseteq BOOLEAN
    BY <1>1
  <2> QED BY <1>1, <1>2, <2>1, <2>2, <2>3 DEF Fx!TypeOK, Recs
<1>4. PhaseInv
  BY <1>1 DEF PhaseInv, Silent, Live, Fx!Over
<1>5. /\ Out = {} /\ Elements(buffer) = {} /\ Elements(rest) = {} /\ DOMAIN emitted = {}
      /\ \A g \in Recs : Elements(batch[g]) = {}
  BY <1>1 DEF Out, Elements
<1>6. PlaceInv
  BY <1>1, <1>5 DEF PlaceInv, Increasing
<1>7. OrderInv /\ HeardInv
  BY <1>1, <1>5 DEF OrderInv, HeardInv, BatchHeard, BufferHeard, RestHeard, EmittedHeard
<1>8. LossInv
  BY <1>1 DEF LossInv, Loss, Fx!NoRecording, Recs, Fx!Recordings
<1> QED BY <1>3, <1>4, <1>6, <1>7, <1>8 DEF FxInv

(* An observation is heard for the one recording that hears.               *)
LEMMA OneHears ==
  ASSUME PhaseInv, NEW g \in Recs, NEW h \in Recs, Hears(g),
         phase[h] \notin Fx!Over \cup {"new"}
  PROVE  g = h
BY DEF PhaseInv, Hears, Recs, Fx!Recordings, Fx!Over

LEMMA HeardBy ==
  ASSUME Fx!TypeOK, PhaseInv, Fx!Heard
  PROVE  \E r \in 0 .. MaxRecordings :
           /\ heard' = [heard EXCEPT ![happened] = r]
           /\ r = Fx!NoRecording \/ (r \in Recs /\ Hears(r))
           /\ \A g \in Recs : Hears(g) => r = g
<1> DEFINE running == {g \in Recs : Hears(g)}
<1>1. heard' = [heard EXCEPT ![happened] =
                  IF running = {} THEN Fx!NoRecording ELSE CHOOSE g \in running : TRUE]
  BY DEF Fx!Heard, Hears, Recs
<1>2. CASE running = {}
  <2>1. heard' = [heard EXCEPT ![happened] = Fx!NoRecording]
    BY <1>1, <1>2
  <2>2. Fx!NoRecording \in 0 .. MaxRecordings /\ \A g \in Recs : ~ Hears(g)
    BY <1>2, LimitsAssumption DEF Fx!NoRecording
  <2> QED BY <2>1, <2>2
<1>3. CASE running # {}
  <2>1. PICK r : r = CHOOSE g \in running : TRUE
    OBVIOUS
  <2>2. r \in running
    BY <1>3, <2>1
  <2>3. \A g \in Recs : Hears(g) => r = g
    BY <2>2, OneHears DEF Hears
  <2>4. heard' = [heard EXCEPT ![happened] = r]
    BY <1>1, <1>3, <2>1
  <2>5. r \in 0 .. MaxRecordings
    BY <2>2, LimitsAssumption DEF Recs, Fx!Recordings
  <2> QED BY <2>2, <2>3, <2>4, <2>5
<1> QED BY <1>2, <1>3


LEMMA Buffered ==
  ASSUME NEW s \in Seq(Fx!Events), NEW n \in Fx!Events, NEW k \in Nat \ {0}, Len(s) <= k
  PROVE  /\ Append(IF Len(s) = k THEN Tail(s) ELSE s, n) \in Seq(Fx!Events)
         /\ Len(Append(IF Len(s) = k THEN Tail(s) ELSE s, n)) <= k
<1>1. CASE Len(s) = k
  BY <1>1
<1>2. CASE Len(s) # k
  BY <1>2
<1> QED BY <1>1, <1>2

(* The types of the adapters, of what is under way, of the agent and of    *)
(* the history.                                                            *)
AdapterTypes ==
  /\ phase \in [Recs -> Fx!Over \cup {"new", "starting", "started", "live", "joining",
                                      "closing", "draining"}]
  /\ emit \in [Recs -> BOOLEAN] /\ stopping \in [Recs -> BOOLEAN]
  /\ reader \in [Recs -> {"off", "top", "reading", "emitting", "ended"}]
QueueTypes ==
  /\ batch \in [Recs -> Seq(Fx!Events)] /\ rest \in Seq(Fx!Events)
  /\ buffer \in Seq(Fx!Events) /\ Len(buffer) <= Limit
AgentTypes ==
  /\ faults \subseteq Fx!Faults /\ tabs \in BOOLEAN /\ failure \in BOOLEAN /\ straggler \in BOOLEAN
  /\ sink \in BOOLEAN /\ active \in BOOLEAN /\ (sink => active)
  /\ posted \in BOOLEAN /\ listening \in BOOLEAN /\ offering \in BOOLEAN
HistoryTypes ==
  /\ happened \in 0 .. MaxEvents /\ heard \in [Fx!Events -> 0 .. MaxRecordings]
  /\ emitted \in Seq([of : Fx!Events, during : Recs])

LEMMA FxTypes == Fx!TypeOK <=> AdapterTypes /\ QueueTypes /\ AgentTypes /\ HistoryTypes
BY DEF Fx!TypeOK, AdapterTypes, QueueTypes, AgentTypes, HistoryTypes, Recs

LEMMA Nothing == <<>> \in Seq(Fx!Events) /\ Len(<<>>) <= Limit
BY LimitsAssumption

LEMMA AdapterTypesKept ==
  ASSUME AdapterTypes, [Fx!Next]_Fx!vars
  PROVE  AdapterTypes'
<1> USE DEF Fx!setup, Fx!adapterVars, Fx!agentVars, Fx!fxVars, AdapterTypes
<1>1. CASE Fx!Attach \/ Fx!Happens \/ Fx!Offer \/ Fx!OfferTab \/ Fx!Straggle \/ UNCHANGED Fx!vars
  BY <1>1 DEF Fx!Attach, Fx!Happens, Fx!Offer, Fx!OfferTab, Fx!Straggle, Fx!vars
<1>2. ASSUME NEW g \in Recs, Fx!Starting(g) PROVE AdapterTypes'
  BY <1>2 DEF Fx!Starting, Fx!Start, Fx!AgentStarts, Fx!AgentAnswers, Fx!StartFails
<1>3. ASSUME NEW g \in Recs, Fx!Reading(g) PROVE AdapterTypes'
  BY <1>3 DEF Fx!Reading, Fx!Poll, Fx!AgentReads, Fx!PublishNext, Fx!BatchDone, Fx!ReadFails,
              Fx!ReadRefused, Fx!GivesUp
<1>4. ASSUME NEW g \in Recs, Fx!Stop(g) \/ Fx!Stopping(g) PROVE AdapterTypes'
  BY <1>4 DEF Fx!Stop, Fx!Stopping, Fx!Joined, Fx!AgentStops, Fx!StopFails, Fx!PublishRest, Fx!RestRaises,
              Fx!Stopped, Fx!Over
<1> QED BY <1>1, <1>2, <1>3, <1>4 DEF Fx!Next, Recs

LEMMA QueueTypesKept ==
  ASSUME QueueTypes, offering => happened \in Fx!Events, [Fx!Next]_Fx!vars
  PROVE  QueueTypes'
<1> USE Nothing DEF Fx!setup, Fx!adapterVars, Fx!agentVars, Fx!fxVars, Fx!StopsRecording, QueueTypes
<1>1. CASE Fx!Attach \/ Fx!Happens \/ Fx!Straggle \/ UNCHANGED Fx!vars
  BY <1>1 DEF Fx!Attach, Fx!Happens, Fx!Straggle, Fx!vars
<1>2. CASE Fx!Offer
  BY <1>2, Buffered, LimitsAssumption DEF Fx!Offer
<1>3. CASE Fx!OfferTab
  <2>1. CASE Len(buffer) < Limit
    <3>1. buffer' = Append(buffer, happened) /\ happened \in Fx!Events /\ Len(buffer) \in Nat
      BY <1>3, <2>1 DEF Fx!OfferTab
    <3>2. buffer' \in Seq(Fx!Events) /\ Len(buffer') = Len(buffer) + 1
      BY <3>1
    <3> QED BY <1>3, <2>1, <3>1, <3>2, LimitsAssumption DEF Fx!OfferTab
  <2> QED BY <1>3, <2>1 DEF Fx!OfferTab
<1>4. ASSUME NEW g \in Recs, Fx!Starting(g) PROVE QueueTypes'
  BY <1>4 DEF Fx!Starting, Fx!Start, Fx!AgentStarts, Fx!AgentAnswers, Fx!StartFails
<1>5. ASSUME NEW g \in Recs, Fx!PublishNext(g) PROVE QueueTypes'
  <2>1. batch[g] \in Seq(Fx!Events) /\ batch[g] # <<>>
    BY <1>5 DEF Fx!PublishNext
  <2>2. Tail(batch[g]) \in Seq(Fx!Events)
    BY <2>1
  <2> QED BY <1>5, <2>2 DEF Fx!PublishNext
<1>6. ASSUME NEW g \in Recs, Fx!Reading(g), ~ Fx!PublishNext(g) PROVE QueueTypes'
  BY <1>6 DEF Fx!Reading, Fx!Poll, Fx!AgentReads, Fx!BatchDone, Fx!ReadFails,
              Fx!ReadRefused, Fx!GivesUp
<1>7. ASSUME NEW g \in Recs, Fx!PublishRest(g) PROVE QueueTypes'
  BY <1>7 DEF Fx!PublishRest
<1>8. ASSUME NEW g \in Recs, Fx!StopFails(g) PROVE QueueTypes'
  BY <1>8 DEF Fx!StopFails
<1>9. ASSUME NEW g \in Recs,
             Fx!Stop(g) \/ Fx!Joined(g) \/ Fx!AgentStops(g) \/ Fx!RestRaises(g) \/ Fx!Stopped(g)
      PROVE  QueueTypes'
  BY <1>9 DEF Fx!Stop, Fx!Joined, Fx!AgentStops, Fx!RestRaises, Fx!Stopped
<1> QED BY <1>1, <1>2, <1>3, <1>4, <1>5, <1>6, <1>7, <1>8, <1>9 DEF Fx!Next, Fx!Stopping, Recs

LEMMA AgentTypesKept ==
  ASSUME AgentTypes, [Fx!Next]_Fx!vars
  PROVE  AgentTypes'
<1> USE DEF Fx!setup, Fx!adapterVars, Fx!agentVars, Fx!fxVars, Fx!StopsRecording, AgentTypes
<1>0. ASSUME UNCHANGED <<faults, tabs, failure, straggler, sink, active>>,
             posted' \in BOOLEAN, listening' \in BOOLEAN, offering' \in BOOLEAN
      PROVE  AgentTypes'
  BY <1>0
<1>1. CASE Fx!Attach \/ Fx!Happens \/ Fx!Offer \/ UNCHANGED Fx!vars
  BY <1>0, <1>1 DEF Fx!Attach, Fx!Happens, Fx!Offer, Fx!vars
<1>2. CASE Fx!OfferTab
  BY <1>2 DEF Fx!OfferTab
<1>3. CASE Fx!Straggle
  BY <1>3 DEF Fx!Straggle
<1>4. ASSUME NEW g \in Recs, Fx!AgentStarts(g) PROVE AgentTypes'
  <2>1. posted' \in BOOLEAN /\ listening' \in BOOLEAN
    BY <1>4 DEF Fx!AgentStarts
  <2> QED BY <1>4, <2>1 DEF Fx!AgentStarts
<1>5. ASSUME NEW g \in Recs, Fx!Start(g) \/ Fx!AgentAnswers(g) \/ Fx!StartFails(g) PROVE AgentTypes'
  BY <1>0, <1>5 DEF Fx!Start, Fx!AgentAnswers, Fx!StartFails
<1>6. ASSUME NEW g \in Recs, Fx!Poll(g) PROVE AgentTypes'
  BY <1>0, <1>6 DEF Fx!Poll
<1>7. ASSUME NEW g \in Recs, Fx!Reading(g), ~ Fx!Poll(g) PROVE AgentTypes'
  BY <1>0, <1>7 DEF Fx!Reading, Fx!AgentReads, Fx!PublishNext, Fx!BatchDone, Fx!ReadFails, Fx!ReadRefused
<1>8. ASSUME NEW g \in Recs, Fx!AgentStops(g) PROVE AgentTypes'
  BY <1>8 DEF Fx!AgentStops
<1>9. ASSUME NEW g \in Recs, Fx!StopFails(g) PROVE AgentTypes'
  <2>1. /\ UNCHANGED <<faults, tabs, posted, offering>>
        /\ straggler' = straggler \/ straggler' = TRUE
    BY <1>9 DEF Fx!StopFails
  <2>2. \/ UNCHANGED <<sink, active, failure, listening>>
        \/ /\ sink' = FALSE /\ active' = FALSE /\ failure' = FALSE
           /\ listening' = (listening /\ ~ tabs)
    BY <1>9 DEF Fx!StopFails
  <2>3. straggler' \in BOOLEAN /\ listening' \in BOOLEAN
    BY <2>1, <2>2
  <2>4. sink' \in BOOLEAN /\ active' \in BOOLEAN /\ failure' \in BOOLEAN /\ (sink' => active')
    <3>1. CASE UNCHANGED <<sink, active, failure, listening>>
      BY <3>1
    <3>2. CASE sink' = FALSE /\ active' = FALSE /\ failure' = FALSE
      BY <3>2
    <3> QED BY <2>2, <3>1, <3>2
  <2> QED BY <2>1, <2>3, <2>4
<1>10. ASSUME NEW g \in Recs,
              Fx!Stop(g) \/ Fx!Joined(g) \/ Fx!PublishRest(g) \/ Fx!RestRaises(g) \/ Fx!Stopped(g)
       PROVE  AgentTypes'
  BY <1>0, <1>10 DEF Fx!Stop, Fx!Joined, Fx!PublishRest, Fx!RestRaises, Fx!Stopped
<1> QED BY <1>1, <1>2, <1>3, <1>4, <1>5, <1>6, <1>7, <1>8, <1>9, <1>10
    DEF Fx!Next, Fx!Starting, Fx!Stopping, Recs

LEMMA HistoryTypesKept ==
  ASSUME Fx!TypeOK, PhaseInv, [Fx!Next]_Fx!vars
  PROVE  HistoryTypes'
<1> USE DEF Fx!setup, Fx!adapterVars, Fx!agentVars, Fx!fxVars, Fx!StopsRecording
<1>1. HistoryTypes /\ batch \in [Recs -> Seq(Fx!Events)] /\ rest \in Seq(Fx!Events)
  BY FxTypes DEF QueueTypes
<1>2. CASE UNCHANGED <<happened, heard, emitted>>
  BY <1>1, <1>2 DEF HistoryTypes
<1>3. CASE Fx!Happens
  BY <1>1, <1>3, LimitsAssumption DEF Fx!Happens, HistoryTypes
<1>4. ASSUME Fx!Heard, UNCHANGED <<happened, emitted>> PROVE HistoryTypes'
  BY <1>1, <1>4, HeardBy DEF HistoryTypes
<1>5. ASSUME NEW n \in Fx!Events, NEW g \in Recs, Fx!Publish(n, g), UNCHANGED <<happened, heard>>
      PROVE  HistoryTypes'
  <2>1. [of |-> n, during |-> g] \in [of : Fx!Events, during : Recs]
    OBVIOUS
  <2> QED BY <1>1, <1>5, <2>1 DEF Fx!Publish, HistoryTypes
<1>6. ASSUME NEW g \in Recs, Fx!PublishNext(g) PROVE HistoryTypes'
  <2>1. Head(batch[g]) \in Fx!Events
    BY <1>1, <1>6 DEF Fx!PublishNext
  <2> QED BY <1>5, <1>6, <2>1 DEF Fx!PublishNext
<1>7. ASSUME NEW g \in Recs, Fx!PublishRest(g) PROVE HistoryTypes'
  <2>1. Head(rest) \in Fx!Events
    BY <1>1, <1>7 DEF Fx!PublishRest
  <2> QED BY <1>5, <1>7, <2>1 DEF Fx!PublishRest
<1>8. CASE Fx!Offer \/ Fx!OfferTab
  BY <1>2, <1>4, <1>8 DEF Fx!Offer, Fx!OfferTab
<1>9. CASE Fx!Attach \/ Fx!Straggle \/ UNCHANGED Fx!vars
  BY <1>2, <1>9 DEF Fx!Attach, Fx!Straggle, Fx!vars
<1>10. ASSUME NEW g \in Recs, Fx!Starting(g) PROVE HistoryTypes'
  BY <1>2, <1>10 DEF Fx!Starting, Fx!Start, Fx!AgentStarts, Fx!AgentAnswers, Fx!StartFails
<1>11. ASSUME NEW g \in Recs, Fx!Reading(g) PROVE HistoryTypes'
  BY <1>2, <1>6, <1>11 DEF Fx!Reading, Fx!Poll, Fx!AgentReads, Fx!BatchDone, Fx!ReadFails, Fx!ReadRefused
<1>12. ASSUME NEW g \in Recs, Fx!Stop(g) \/ Fx!Stopping(g) PROVE HistoryTypes'
  BY <1>2, <1>7, <1>12 DEF Fx!Stop, Fx!Stopping, Fx!Joined, Fx!AgentStops, Fx!StopFails, Fx!RestRaises,
                           Fx!Stopped
<1> QED BY <1>3, <1>8, <1>9, <1>10, <1>11, <1>12 DEF Fx!Next, Recs

LEMMA FxTypesKept ==
  ASSUME Fx!TypeOK, PhaseInv, offering => happened \in Fx!Events, [Fx!Next]_Fx!vars
  PROVE  Fx!TypeOK'
<1>1. AdapterTypes /\ QueueTypes /\ AgentTypes
  BY FxTypes
<1>2. (AdapterTypes /\ QueueTypes /\ AgentTypes /\ HistoryTypes)'
  BY <1>1, AdapterTypesKept, QueueTypesKept, AgentTypesKept, HistoryTypesKept
<1> QED BY <1>2, FxTypes, PTL

(* The phases *)

(* While one adapter is between its start and its stop, the others are     *)
(* over or new.                                                            *)
LEMMA Alone ==
  ASSUME PhaseInv, NEW g \in Recs, phase[g] \notin Fx!Over \cup {"new"}, NEW h \in Recs, h # g
  PROVE  phase[h] \in Fx!Over \cup {"new"}
BY DEF PhaseInv, Recs, Fx!Recordings, Fx!Over

LEMMA ThreadPhases ==
  ASSUME Fx!TypeOK, PhaseInv,
         Fx!Attach \/ Fx!Happens \/ Fx!Offer \/ Fx!OfferTab \/ Fx!Straggle \/ UNCHANGED Fx!vars
  PROVE  PhaseInv'
<1> USE DEF Fx!setup, Fx!adapterVars, Fx!agentVars, Fx!fxVars, Fx!StopsRecording, PhaseInv
<1>1. UNCHANGED <<faults, tabs, phase, emit, reader, batch, rest>>
  BY DEF Fx!Attach, Fx!Happens, Fx!Offer, Fx!OfferTab, Fx!Straggle, Fx!vars
<1>2. straggler' => straggler
  BY DEF Fx!Attach, Fx!Happens, Fx!Offer, Fx!OfferTab, Fx!Straggle, Fx!vars
<1>3. ASSUME NEW g \in Recs, phase[g] = "draining" PROVE ~ sink' /\ ~ (tabs /\ offering')
  BY <1>3, FxTypes DEF Fx!Attach, Fx!Happens, Fx!Offer, Fx!OfferTab, Fx!Straggle, Fx!vars, AgentTypes
<1> QED BY <1>1, <1>2, <1>3

LEMMA StartingPhases ==
  ASSUME Fx!TypeOK, PhaseInv, NEW g \in Recs, Fx!Starting(g)
  PROVE  PhaseInv'
<1> USE DEF Fx!setup, Fx!adapterVars, Fx!agentVars, Fx!fxVars
<1>1. AdapterTypes
  BY FxTypes
<1>2. CASE Fx!Start(g)
  BY <1>1, <1>2 DEF Fx!Start, PhaseInv, AdapterTypes, Fx!Over, Silent, Live, Recs, Fx!Recordings
<1>3. CASE Fx!AgentStarts(g)
  <2>1. \A h \in Recs : h # g => phase[h] \in Fx!Over \cup {"new"}
    BY <1>3, Alone DEF Fx!AgentStarts, Fx!Over
  <2> QED BY <1>1, <1>3, <2>1 DEF Fx!AgentStarts, PhaseInv, AdapterTypes, Fx!Over, Silent, Live
<1>4. CASE Fx!AgentAnswers(g)
  BY <1>1, <1>4 DEF Fx!AgentAnswers, PhaseInv, AdapterTypes, Fx!Over, Silent, Live
<1>5. CASE Fx!StartFails(g)
  BY <1>1, <1>5 DEF Fx!StartFails, PhaseInv, AdapterTypes, Fx!Over, Silent, Live
<1> QED BY <1>2, <1>3, <1>4, <1>5 DEF Fx!Starting

LEMMA ReadingPhases ==
  ASSUME Fx!TypeOK, PhaseInv, NEW g \in Recs, Fx!Reading(g)
  PROVE  PhaseInv'
<1> USE DEF Fx!setup, Fx!adapterVars, Fx!agentVars, Fx!fxVars
<1>1. AdapterTypes /\ batch \in [Recs -> Seq(Fx!Events)]
  BY FxTypes DEF QueueTypes
<1>2. /\ UNCHANGED <<faults, tabs, phase, emit, rest, straggler, sink, offering>>
      /\ \A h \in Recs : h # g => reader'[h] = reader[h] /\ batch'[h] = batch[h]
      /\ reader[g] \notin {"off", "ended"} /\ reader'[g] # "off"
  BY <1>1 DEF Fx!Reading, Fx!Poll, Fx!AgentReads, Fx!PublishNext, Fx!BatchDone, Fx!ReadFails,
              Fx!ReadRefused, Fx!GivesUp, AdapterTypes
<1>3. batch'[g] # <<>> => reader'[g] = "emitting"
  BY <1>1 DEF Fx!Reading, Fx!Poll, Fx!AgentReads, Fx!PublishNext, Fx!BatchDone, Fx!ReadFails,
              Fx!ReadRefused, Fx!GivesUp, AdapterTypes, PhaseInv
<1>4. \A h \in Recs : batch'[h] # <<>> => reader'[h] = "emitting"
  BY <1>2, <1>3 DEF PhaseInv
<1>5. \A h \in Recs :
        /\ phase[h] \in Silent => reader'[h] = "off"
        /\ phase[h] \in Live => reader'[h] # "off"
        /\ "slow" \notin faults /\ phase[h] \notin Silent \cup Live => reader'[h] \in {"off", "ended"}
        /\ reader'[h] = "off" => reader[h] = "off"
  BY <1>2 DEF PhaseInv
<1> QED BY <1>2, <1>4, <1>5 DEF PhaseInv

LEMMA StoppingPhases ==
  ASSUME Fx!TypeOK, PhaseInv, NEW g \in Recs, Fx!Stop(g) \/ Fx!Stopping(g)
  PROVE  PhaseInv'
<1> USE DEF Fx!setup, Fx!adapterVars, Fx!agentVars, Fx!fxVars, Fx!StopsRecording, PhaseInv, AdapterTypes,
            Fx!Over, Silent, Live
<1>1. AdapterTypes
  BY FxTypes
<1>2. CASE Fx!Stop(g)
  BY <1>1, <1>2 DEF Fx!Stop
<1>3. CASE Fx!Joined(g)
  BY <1>1, <1>3 DEF Fx!Joined
<1>4. CASE Fx!AgentStops(g)
  BY <1>1, <1>4 DEF Fx!AgentStops
<1>5. CASE Fx!StopFails(g)
  BY <1>1, <1>5 DEF Fx!StopFails
<1>6. CASE Fx!PublishRest(g)
  BY <1>1, <1>6 DEF Fx!PublishRest
<1>7. CASE Fx!RestRaises(g)
  BY <1>1, <1>7 DEF Fx!RestRaises
<1>8. CASE Fx!Stopped(g)
  BY <1>1, <1>8 DEF Fx!Stopped
<1> QED BY <1>2, <1>3, <1>4, <1>5, <1>6, <1>7, <1>8 DEF Fx!Stopping

LEMMA PhasesKept ==
  ASSUME Fx!TypeOK, PhaseInv, [Fx!Next]_Fx!vars
  PROVE  PhaseInv'
BY ThreadPhases, StartingPhases, ReadingPhases, StoppingPhases DEF Fx!Next, Recs

(* What is where *)

LEMMA Emptied == Elements(<<>>) = {} /\ Increasing(<<>>)
BY DEF Elements, Increasing

LEMMA Popped ==
  ASSUME NEW s \in Seq(Fx!Events), s # <<>>
  PROVE  /\ Head(s) \in Fx!Events /\ Head(s) \in Elements(s) /\ Elements(Tail(s)) \subseteq Elements(s)
         /\ Elements(s) = {Head(s)} \cup Elements(Tail(s))
         /\ Increasing(s) => Increasing(Tail(s)) /\ \A n \in Elements(Tail(s)) : Head(s) < n
<1>1. /\ Head(s) = s[1] /\ 1 \in DOMAIN s /\ Head(s) \in Fx!Events
      /\ DOMAIN Tail(s) = 1 .. Len(s) - 1 /\ DOMAIN s = 1 .. Len(s) /\ Len(s) \in Nat
      /\ \A i \in DOMAIN Tail(s) : Tail(s)[i] = s[i + 1] /\ i + 1 \in DOMAIN s /\ 1 < i + 1
  OBVIOUS
<1>2. \A i \in DOMAIN s : i = 1 \/ (i - 1 \in DOMAIN Tail(s) /\ s[i] = Tail(s)[i - 1])
  BY <1>1
<1>3. Elements(s) = {Head(s)} \cup Elements(Tail(s))
  BY <1>1, <1>2 DEF Elements
<1> QED BY <1>1, <1>3 DEF Elements, Increasing

LEMMA Pushed ==
  ASSUME NEW s \in Seq(Fx!Events), NEW n \in Fx!Events
  PROVE  /\ Elements(Append(s, n)) = Elements(s) \cup {n}
         /\ Increasing(s) /\ (\A m \in Elements(s) : m < n) => Increasing(Append(s, n))
<1>1. /\ DOMAIN Append(s, n) = DOMAIN s \cup {Len(s) + 1} /\ DOMAIN s = 1 .. Len(s) /\ Len(s) \in Nat
      /\ \A i \in DOMAIN s : Append(s, n)[i] = s[i]
      /\ Append(s, n)[Len(s) + 1] = n
  OBVIOUS
<1> QED BY <1>1 DEF Elements, Increasing

LEMMA PublishedOne ==
  ASSUME emitted \in Seq([of : Fx!Events, during : Recs]), NEW n \in Fx!Events, NEW g \in Recs,
         Fx!Publish(n, g)
  PROVE  /\ DOMAIN emitted' = DOMAIN emitted \cup {Len(emitted) + 1} /\ DOMAIN emitted \subseteq Nat
         /\ \A i \in DOMAIN emitted : emitted'[i] = emitted[i] /\ i < Len(emitted) + 1
         /\ emitted'[Len(emitted) + 1].of = n /\ emitted'[Len(emitted) + 1].during = g
         /\ Out' = Out \cup {n} /\ Len(emitted) \in Nat
<1>1. PICK e \in [of : Fx!Events, during : Recs] :
        e = [of |-> n, during |-> g] /\ emitted' = Append(emitted, e)
  BY DEF Fx!Publish
<1>2. /\ DOMAIN emitted' = DOMAIN emitted \cup {Len(emitted) + 1} /\ DOMAIN emitted \subseteq Nat
      /\ \A i \in DOMAIN emitted : emitted'[i] = emitted[i] /\ i < Len(emitted) + 1
      /\ emitted'[Len(emitted) + 1] = e /\ Len(emitted) \in Nat
  BY <1>1
<1>3. Out' = Out \cup {n}
  BY <1>1, <1>2 DEF Out
<1> QED BY <1>1, <1>2, <1>3

(* The steps that only forget something.                                   *)
Forgets ==
  /\ buffer' \in {buffer, <<>>} /\ rest' \in {rest, <<>>}
  /\ \A g \in Recs : batch'[g] \in {batch[g], <<>>}
  /\ UNCHANGED <<emitted, heard, happened, offering>>

LEMMA ForgetsPlaces ==
  ASSUME PlaceInv, Forgets
  PROVE  PlaceInv' /\ Elements(buffer') \subseteq Elements(buffer) /\ Elements(rest') \subseteq Elements(rest)
         /\ (\A g \in Recs : Elements(batch'[g]) \subseteq Elements(batch[g])) /\ Out' = Out
<1>1. /\ Elements(buffer') \subseteq Elements(buffer) /\ Increasing(buffer')
      /\ Elements(rest') \subseteq Elements(rest) /\ Increasing(rest') /\ Out' = Out
  BY Emptied DEF Forgets, PlaceInv, Out
<1>2. \A g \in Recs : Elements(batch'[g]) \subseteq Elements(batch[g]) /\ Increasing(batch'[g])
  BY Emptied DEF Forgets, PlaceInv
<1>3. (\A n : Settled(n)' <=> Settled(n)) /\ UNCHANGED <<emitted, heard, happened, offering>>
  BY DEF Forgets, Settled
<1>4. PlaceInv'
  BY <1>1, <1>2, <1>3 DEF PlaceInv
<1> QED BY <1>1, <1>2, <1>4

LEMMA AllEvents ==
  ASSUME Fx!TypeOK
  PROVE  /\ Elements(buffer) \subseteq Fx!Events /\ Elements(rest) \subseteq Fx!Events /\ Out \subseteq Fx!Events
         /\ \A g \in Recs : Elements(batch[g]) \subseteq Fx!Events
<1>1. QueueTypes /\ HistoryTypes
  BY FxTypes
<1>2. Elements(buffer) \subseteq Fx!Events /\ Elements(rest) \subseteq Fx!Events
  BY <1>1 DEF QueueTypes, Elements
<1>3. \A g \in Recs : Elements(batch[g]) \subseteq Fx!Events
  BY <1>1 DEF QueueTypes, Elements
<1>4. \A i \in DOMAIN emitted : emitted[i] \in [of : Fx!Events, during : Recs]
  <2>1. PICK Records : Records = [of : Fx!Events, during : Recs]
    OBVIOUS
  <2>2. emitted \in Seq(Records)
    BY <1>1, <2>1 DEF HistoryTypes
  <2>3. \A i \in DOMAIN emitted : emitted[i] \in Records
    BY <2>2
  <2> QED BY <2>1, <2>3
<1> QED BY <1>2, <1>3, <1>4 DEF Out

LEMMA HappensPlaces ==
  ASSUME Fx!TypeOK, PlaceInv, Fx!Happens
  PROVE  PlaceInv'
<1>1. /\ UNCHANGED <<buffer, rest, batch, emitted, heard>> /\ happened' = happened + 1 /\ ~ offering
      /\ happened \in Nat /\ happened < MaxEvents /\ Out' = Out
  BY FxTypes DEF Fx!Happens, HistoryTypes, Out, Fx!adapterVars, Fx!agentVars
<1>2. \A n \in Fx!Events : Settled(n) => Settled(n)'
  BY <1>1, LimitsAssumption DEF Settled, Fx!Events
<1>3. /\ Elements(buffer) \subseteq Fx!Events /\ Elements(rest) \subseteq Fx!Events /\ Out \subseteq Fx!Events
      /\ \A g \in Recs : Elements(batch[g]) \subseteq Fx!Events
  BY AllEvents
<1>4. happened' \in Fx!Events
  BY <1>1, LimitsAssumption DEF Fx!Events
<1> QED BY <1>1, <1>2, <1>3, <1>4 DEF PlaceInv

(* An offered observation becomes the last of the buffer and is heard for  *)
(* the recording that hears, or is lost; a full buffer drops its first or  *)
(* gives up.                                                               *)
Buffers(r) ==
  /\ Increasing(buffer) /\ (\A m \in Elements(buffer) : m < happened) => Increasing(buffer')
  /\ Elements(buffer') \subseteq Elements(buffer) \cup {happened}
  /\ \A g \in Recs : Hears(g) => r = g
Offers(r) ==
  /\ offering /\ ~ offering'
  /\ UNCHANGED <<faults, tabs, phase, reader, batch, rest, emitted, happened>>
  /\ heard' = [heard EXCEPT ![happened] = r]
  /\ r = Fx!NoRecording \/ (r \in Recs /\ Hears(r))
  /\ buffer' \in {buffer, <<>>} \/ Buffers(r)

LEMMA OfferOffers ==
  ASSUME Fx!TypeOK, PhaseInv, PlaceInv, Fx!Offer \/ Fx!OfferTab
  PROVE  \E r \in 0 .. MaxRecordings : Offers(r)
<1>1. buffer \in Seq(Fx!Events) /\ happened \in Fx!Events /\ Limit \in Nat \ {0}
  BY FxTypes, LimitsAssumption DEF QueueTypes, PlaceInv, Fx!Offer, Fx!OfferTab
<1>2. /\ offering /\ ~ offering'
      /\ UNCHANGED <<faults, tabs, phase, reader, batch, rest, emitted, happened>>
  BY DEF Fx!Offer, Fx!OfferTab, Fx!setup, Fx!adapterVars
<1>3. CASE UNCHANGED <<buffer, heard>>
  <2>1. heard \in [Fx!Events -> 0 .. MaxRecordings]
    BY FxTypes DEF HistoryTypes
  <2>2. heard[happened] = Fx!NoRecording
    BY <1>1, <1>2 DEF PlaceInv, Settled, Fx!Events
  <2>3. heard' = [heard EXCEPT ![happened] = Fx!NoRecording]
    BY <1>3, <2>1, <2>2
  <2>4. Offers(Fx!NoRecording)
    BY <1>2, <1>3, <2>3 DEF Offers
  <2>5. Fx!NoRecording \in 0 .. MaxRecordings
    BY LimitsAssumption DEF Fx!NoRecording
  <2> QED BY <2>4, <2>5
<1>4. ASSUME NEW old \in Seq(Fx!Events), Elements(old) \subseteq Elements(buffer),
             Increasing(buffer) => Increasing(old), Fx!Heard, buffer' = Append(old, happened)
      PROVE  \E r \in 0 .. MaxRecordings : Offers(r)
  <2>1. /\ Elements(buffer') = Elements(old) \cup {happened}
        /\ Increasing(old) /\ (\A m \in Elements(old) : m < happened) => Increasing(buffer')
    BY <1>1, <1>4, Pushed
  <2>2. PICK r \in 0 .. MaxRecordings :
          /\ heard' = [heard EXCEPT ![happened] = r]
          /\ r = Fx!NoRecording \/ (r \in Recs /\ Hears(r))
          /\ \A g \in Recs : Hears(g) => r = g
    BY <1>4, HeardBy
  <2>3. Buffers(r)
    BY <1>4, <2>1, <2>2 DEF Buffers
  <2> QED BY <1>2, <2>2, <2>3 DEF Offers
<1>5. CASE Fx!Offer
  <2>1. CASE Fx!Heard /\ buffer' = Append(IF Len(buffer) = Limit THEN Tail(buffer) ELSE buffer, happened)
    <3>1. CASE Len(buffer) = Limit
      <4>1. buffer # <<>>
        BY <1>1, <3>1
      <4>2. Tail(buffer) \in Seq(Fx!Events)
        BY <1>1, <4>1
      <4> QED BY <1>1, <1>4, <2>1, <3>1, <4>1, <4>2, Popped
    <3>2. CASE Len(buffer) # Limit
      BY <1>1, <1>4, <2>1, <3>2
    <3> QED BY <3>1, <3>2
  <2> QED BY <1>3, <1>5, <2>1 DEF Fx!Offer
<1>6. CASE Fx!OfferTab
  <2>1. CASE buffer' = <<>> /\ Fx!Heard
    <3>1. PICK r \in 0 .. MaxRecordings :
            /\ heard' = [heard EXCEPT ![happened] = r]
            /\ r = Fx!NoRecording \/ (r \in Recs /\ Hears(r))
      BY <2>1, HeardBy
    <3> QED BY <1>2, <2>1, <3>1 DEF Offers
  <2> QED BY <1>1, <1>4, <1>6, <2>1 DEF Fx!OfferTab
<1> QED BY <1>5, <1>6

LEMMA OffersPlaces ==
  ASSUME Fx!TypeOK, PlaceInv, NEW r \in 0 .. MaxRecordings, Offers(r)
  PROVE  /\ PlaceInv' /\ Out' = Out /\ UNCHANGED <<rest, batch>>
         /\ Elements(buffer') \subseteq Elements(buffer) \/ Buffers(r)
         /\ \A n \in Out \cup Elements(buffer) \cup Elements(rest) : n < happened
         /\ \A g \in Recs : \A n \in Elements(batch[g]) : n < happened
         /\ \A n \in Fx!Events : n < happened => heard'[n] = heard[n]
<1>1. /\ offering /\ ~ offering' /\ UNCHANGED <<rest, batch, emitted, happened>> /\ Out' = Out
      /\ heard' = [heard EXCEPT ![happened] = r] /\ happened \in Fx!Events
      /\ heard \in [Fx!Events -> 0 .. MaxRecordings]
  BY FxTypes DEF Offers, Out, PlaceInv, HistoryTypes
<1>2. \A n \in Out \cup Elements(buffer) \cup Elements(rest) : n < happened
  BY <1>1 DEF PlaceInv, Settled
<1>3. \A g \in Recs : \A n \in Elements(batch[g]) : n < happened
  BY <1>1 DEF PlaceInv, Settled
<1>4. /\ \A n \in Fx!Events : n < happened \/ n = happened => Settled(n)'
      /\ happened \in Nat /\ ~ (happened < happened)
  BY <1>1, LimitsAssumption DEF Settled, Fx!Events
<1>5. Elements(buffer') \subseteq Elements(buffer) \/ Buffers(r)
  BY Emptied DEF Offers
<1>6. Increasing(buffer') /\ Elements(buffer') \subseteq Elements(buffer) \cup {happened}
  BY <1>2, Emptied DEF Offers, Buffers, PlaceInv
<1>7. \A n \in Fx!Events : heard'[n] # Fx!NoRecording => Settled(n)'
  BY <1>1, <1>4 DEF PlaceInv, Settled
<1>8. \A n \in Elements(buffer') :
        n \notin Out \cup Elements(rest) /\ \A g \in Recs : n \notin Elements(batch[g])
  BY <1>2, <1>3, <1>4, <1>6 DEF PlaceInv
<1>9. PlaceInv'
  <2>1. \A n \in Out \cup Elements(buffer') \cup Elements(rest) : Settled(n)'
    BY <1>1, <1>2, <1>4, <1>6, AllEvents
  <2>2. \A g \in Recs : \A n \in Elements(batch[g]) : Settled(n)'
    BY <1>3, <1>4, AllEvents
  <2> QED BY <1>1, <1>6, <1>7, <1>8, <2>1, <2>2 DEF PlaceInv
<1> QED BY <1>1, <1>2, <1>3, <1>4, <1>5, <1>9

(* The steps that hand something on.                                       *)
Hands(g) == Fx!AgentReads(g) \/ Fx!PublishNext(g) \/ Fx!AgentStops(g) \/ Fx!PublishRest(g)

LEMMA OthersForget ==
  ASSUME Fx!TypeOK, [Fx!Next]_Fx!vars, ~ Fx!Happens, ~ Fx!Offer, ~ Fx!OfferTab,
         \A g \in Recs : ~ Hands(g)
  PROVE  Forgets
<1> USE DEF Fx!setup, Fx!adapterVars, Fx!agentVars, Fx!fxVars, Fx!StopsRecording, Forgets
<1>1. CASE Fx!Attach \/ Fx!Straggle \/ UNCHANGED Fx!vars
  BY <1>1 DEF Fx!Attach, Fx!Straggle, Fx!vars
<1>2. ASSUME NEW g \in Recs, Fx!Starting(g) PROVE Forgets
  BY <1>2 DEF Fx!Starting, Fx!Start, Fx!AgentStarts, Fx!AgentAnswers, Fx!StartFails
<1>3. ASSUME NEW g \in Recs, Fx!Poll(g) \/ Fx!BatchDone(g) PROVE Forgets
  BY <1>3 DEF Fx!Poll, Fx!BatchDone
<1>4. ASSUME NEW g \in Recs, Fx!ReadFails(g) \/ Fx!ReadRefused(g) PROVE Forgets
  <2>1. batch \in [Recs -> Seq(Fx!Events)]
    BY FxTypes DEF QueueTypes
  <2>2. batch' = [batch EXCEPT ![g] = <<>>] /\ buffer' \in {buffer, <<>>}
    BY <1>4 DEF Fx!ReadFails, Fx!ReadRefused, Fx!GivesUp
  <2> QED BY <1>4, <2>1, <2>2 DEF Fx!ReadFails, Fx!ReadRefused
<1>5. ASSUME NEW g \in Recs, Fx!Stop(g) \/ Fx!Joined(g) \/ Fx!StopFails(g) \/ Fx!RestRaises(g) \/ Fx!Stopped(g)
      PROVE  Forgets
  BY <1>5 DEF Fx!Stop, Fx!Joined, Fx!StopFails, Fx!RestRaises, Fx!Stopped
<1> QED BY <1>1, <1>2, <1>3, <1>4, <1>5 DEF Fx!Next, Fx!Reading, Fx!Stopping, Hands, Recs

(* What the handed on was taken from, and where it went.                   *)
LEMMA ReadsBuffer ==
  ASSUME Fx!TypeOK, NEW g \in Recs, Fx!AgentReads(g)
  PROVE  /\ buffer' = <<>> /\ batch'[g] = buffer /\ \A h \in Recs : h # g => batch'[h] = batch[h]
         /\ UNCHANGED <<rest, emitted, heard, happened, offering>> /\ Out' = Out
         /\ reader[g] = "reading" /\ \A n : Settled(n)' <=> Settled(n)
BY FxTypes DEF Fx!AgentReads, QueueTypes, Out, Settled, Fx!fxVars

LEMMA StopsBuffer ==
  ASSUME Fx!TypeOK, NEW g \in Recs, Fx!AgentStops(g)
  PROVE  /\ buffer' = <<>> /\ rest' = buffer /\ phase[g] = "closing"
         /\ UNCHANGED <<batch, emitted, heard, happened, offering>> /\ Out' = Out
         /\ \A n : Settled(n)' <=> Settled(n)
BY DEF Fx!AgentStops, Fx!StopsRecording, Out, Settled

LEMMA PublishesNext ==
  ASSUME Fx!TypeOK, NEW g \in Recs, Fx!PublishNext(g)
  PROVE  \E n \in Fx!Events :
           /\ Fx!Publish(n, g) /\ n = Head(batch[g]) /\ n \in Elements(batch[g])
           /\ Elements(batch'[g]) \subseteq Elements(batch[g])
           /\ Elements(batch[g]) = {n} \cup Elements(batch'[g])
           /\ Increasing(batch[g]) => Increasing(batch'[g]) /\ \A m \in Elements(batch'[g]) : n < m
           /\ \A h \in Recs : h # g => batch'[h] = batch[h]
           /\ UNCHANGED <<buffer, rest, heard, happened, offering>> /\ reader[g] = "emitting"
<1>1. batch[g] \in Seq(Fx!Events) /\ batch[g] # <<>> /\ batch'[g] = Tail(batch[g])
  BY FxTypes DEF Fx!PublishNext, QueueTypes
<1>2. /\ Fx!Publish(Head(batch[g]), g) /\ reader[g] = "emitting"
      /\ \A h \in Recs : h # g => batch'[h] = batch[h]
      /\ UNCHANGED <<buffer, rest, heard, happened, offering>>
  BY FxTypes DEF Fx!PublishNext, QueueTypes, Fx!agentVars, Fx!fxVars
<1> QED BY <1>1, <1>2, Popped

LEMMA PublishesRest ==
  ASSUME Fx!TypeOK, NEW g \in Recs, Fx!PublishRest(g)
  PROVE  \E n \in Fx!Events :
           /\ Fx!Publish(n, g) /\ n = Head(rest) /\ n \in Elements(rest)
           /\ Elements(rest') \subseteq Elements(rest) /\ Elements(rest) = {n} \cup Elements(rest')
           /\ Increasing(rest) => Increasing(rest') /\ \A m \in Elements(rest') : n < m
           /\ UNCHANGED <<buffer, batch, heard, happened, offering>>
           /\ phase[g] = "draining"
<1>1. rest \in Seq(Fx!Events) /\ rest # <<>> /\ rest' = Tail(rest)
  BY FxTypes DEF Fx!PublishRest, QueueTypes
<1>2. /\ Fx!Publish(Head(rest), g) /\ phase[g] = "draining"
      /\ UNCHANGED <<buffer, batch, heard, happened, offering>>
  BY DEF Fx!PublishRest, Fx!agentVars, Fx!fxVars
<1> QED BY <1>1, <1>2, Popped

LEMMA HandsPlaces ==
  ASSUME Fx!TypeOK, PlaceInv, NEW g \in Recs, Hands(g)
  PROVE  PlaceInv'
<1>1. CASE Fx!AgentReads(g)
  <2>1. Elements(buffer') = {} /\ Increasing(buffer')
    BY <1>1, ReadsBuffer, Emptied
  <2>2. \A h \in Recs : Increasing(batch'[h])
    BY <1>1, ReadsBuffer DEF PlaceInv
  <2>3. \A h \in Recs : \A n \in Elements(batch'[h]) :
          /\ n \notin Out /\ n \notin Elements(rest) /\ Settled(n)
          /\ \A i \in Recs : i # h => n \notin Elements(batch'[i])
    BY <1>1, ReadsBuffer DEF PlaceInv
  <2> QED BY <1>1, <2>1, <2>2, <2>3, ReadsBuffer DEF PlaceInv
<1>2. CASE Fx!AgentStops(g)
  <2>1. Elements(buffer') = {} /\ Increasing(buffer')
    BY <1>2, StopsBuffer, Emptied
  <2> QED BY <1>2, <2>1, StopsBuffer DEF PlaceInv
<1>3. ASSUME NEW n \in Fx!Events, Fx!Publish(n, g), n \notin Out, Settled(n),
             UNCHANGED <<heard, happened, offering>>,
             Increasing(buffer') /\ Increasing(rest') /\ \A h \in Recs : Increasing(batch'[h]),
             Elements(buffer') \subseteq Elements(buffer) \ {n},
             Elements(rest') \subseteq Elements(rest) \ {n},
             \A h \in Recs : Elements(batch'[h]) \subseteq Elements(batch[h]) \ {n}
      PROVE  PlaceInv'
  <2>1. emitted \in Seq([of : Fx!Events, during : Recs])
    BY FxTypes DEF HistoryTypes
  <2>2. \A m : Settled(m)' <=> Settled(m)
    BY <1>3 DEF Settled
  <2>3. \A i, j \in DOMAIN emitted' : i # j => emitted'[i].of # emitted'[j].of
    BY <1>3, <2>1, PublishedOne DEF PlaceInv, Out
  <2>4. Out' = Out \cup {n}
    BY <1>3, <2>1, PublishedOne
  <2> QED BY <1>3, <2>2, <2>3, <2>4 DEF PlaceInv
<1>4. CASE Fx!PublishNext(g)
  <2>1. PICK n \in Fx!Events :
          /\ Fx!Publish(n, g) /\ n \in Elements(batch[g])
          /\ Elements(batch'[g]) \subseteq Elements(batch[g])
          /\ Increasing(batch[g]) => Increasing(batch'[g]) /\ \A m \in Elements(batch'[g]) : n < m
          /\ \A h \in Recs : h # g => batch'[h] = batch[h]
          /\ UNCHANGED <<buffer, rest, heard, happened, offering>>
    BY <1>4, PublishesNext
  <2>2. n \notin Elements(batch'[g]) /\ n \in Nat
    BY <2>1 DEF PlaceInv, Fx!Events
  <2>3. \A h \in Recs : Increasing(batch'[h]) /\ Elements(batch'[h]) \subseteq Elements(batch[h]) \ {n}
    BY <2>1, <2>2 DEF PlaceInv
  <2>4. /\ n \notin Out /\ Settled(n) /\ Elements(buffer') \subseteq Elements(buffer) \ {n}
        /\ Elements(rest') \subseteq Elements(rest) \ {n} /\ Increasing(buffer') /\ Increasing(rest')
    BY <2>1 DEF PlaceInv
  <2> QED BY <1>3, <2>1, <2>3, <2>4
<1>5. CASE Fx!PublishRest(g)
  <2>1. PICK n \in Fx!Events :
          /\ Fx!Publish(n, g) /\ n \in Elements(rest) /\ Elements(rest') \subseteq Elements(rest)
          /\ Increasing(rest) => Increasing(rest') /\ \A m \in Elements(rest') : n < m
          /\ UNCHANGED <<buffer, batch, heard, happened, offering>>
    BY <1>5, PublishesRest
  <2>2. n \notin Elements(rest') /\ Increasing(rest')
    BY <2>1 DEF PlaceInv, Fx!Events
  <2>3. \A h \in Recs : Increasing(batch'[h]) /\ Elements(batch'[h]) \subseteq Elements(batch[h]) \ {n}
    BY <2>1 DEF PlaceInv
  <2>4. /\ n \notin Out /\ Settled(n) /\ Elements(buffer') \subseteq Elements(buffer) \ {n}
        /\ Elements(rest') \subseteq Elements(rest) \ {n} /\ Increasing(buffer')
    BY <2>1, <2>2 DEF PlaceInv
  <2> QED BY <1>3, <2>1, <2>2, <2>3, <2>4
<1> QED BY <1>1, <1>2, <1>4, <1>5 DEF Hands

LEMMA PlacesKept ==
  ASSUME Fx!TypeOK, PhaseInv, PlaceInv, [Fx!Next]_Fx!vars
  PROVE  PlaceInv'
BY HappensPlaces, OfferOffers, OffersPlaces, HandsPlaces, OthersForget, ForgetsPlaces

(* In which order and for whom *)

LEMMA SetupKept == ASSUME [Fx!Next]_Fx!vars PROVE UNCHANGED <<faults, tabs>>
<1> USE DEF Fx!setup
<1>1. CASE Fx!Attach \/ Fx!Happens \/ Fx!Offer \/ Fx!OfferTab \/ Fx!Straggle \/ UNCHANGED Fx!vars
  BY <1>1 DEF Fx!Attach, Fx!Happens, Fx!Offer, Fx!OfferTab, Fx!Straggle, Fx!vars
<1>2. ASSUME NEW g \in Recs, Fx!Starting(g) \/ Fx!Reading(g) PROVE UNCHANGED <<faults, tabs>>
  BY <1>2 DEF Fx!Starting, Fx!Start, Fx!AgentStarts, Fx!AgentAnswers, Fx!StartFails, Fx!Reading, Fx!Poll,
              Fx!AgentReads, Fx!PublishNext, Fx!BatchDone, Fx!ReadFails, Fx!ReadRefused
<1>3. ASSUME NEW g \in Recs, Fx!Stop(g) \/ Fx!Stopping(g) PROVE UNCHANGED <<faults, tabs>>
  BY <1>3 DEF Fx!Stop, Fx!Stopping, Fx!Joined, Fx!AgentStops, Fx!StopFails, Fx!PublishRest, Fx!RestRaises,
              Fx!Stopped
<1> QED BY <1>1, <1>2, <1>3 DEF Fx!Next, Recs

(* Where no reader outlives its join, only one adapter has something.      *)
LEMMA OneReads ==
  ASSUME PhaseInv, "slow" \notin faults, NEW g \in Recs, reader[g] \notin {"off", "ended"}
  PROVE  phase[g] \in Live /\ Owns(g) /\ rest = <<>> /\ \A h \in Recs : h # g => batch[h] = <<>>
<1>1. phase[g] \in Live
  BY DEF PhaseInv
<1>2. \A h \in Recs : h # g => phase[h] \in Fx!Over \cup {"new"}
  BY <1>1, Alone DEF Live, Fx!Over
<1>3. \A h \in Recs : h # g => batch[h] = <<>>
  BY <1>2 DEF PhaseInv, Silent, Live, Fx!Over
<1>4. \A h \in Recs : phase[h] # "draining"
  BY <1>1, <1>2 DEF Live, Fx!Over
<1>5. Owns(g)
  BY <1>1 DEF Owns, Hears, Live, Fx!Over
<1> QED BY <1>1, <1>3, <1>4, <1>5 DEF PhaseInv

LEMMA OneDrains ==
  ASSUME PhaseInv, "slow" \notin faults, NEW g \in Recs, phase[g] = "draining"
  PROVE  \A h \in Recs : batch[h] = <<>>
<1>1. \A h \in Recs : h # g => phase[h] \in Fx!Over \cup {"new"}
  BY Alone DEF Fx!Over
<1> QED BY <1>1 DEF PhaseInv, Silent, Live, Fx!Over

LEMMA OrderKept ==
  ASSUME Fx!TypeOK, PhaseInv, PlaceInv, OrderInv, "slow" \notin faults, [Fx!Next]_Fx!vars
  PROVE  OrderInv'
<1>1. CASE Forgets
  BY <1>1, ForgetsPlaces DEF OrderInv, Forgets
<1>2. CASE Fx!Happens
  <2>1. UNCHANGED <<buffer, rest, batch, emitted>> /\ Out' = Out
    BY <1>2 DEF Fx!Happens, Fx!adapterVars, Fx!agentVars, Out
  <2> QED BY <2>1 DEF OrderInv
<1>3. ASSUME NEW r \in 0 .. MaxRecordings, Offers(r) PROVE OrderInv'
  BY <1>3, OffersPlaces DEF OrderInv, Offers, Buffers
<1>4. ASSUME NEW g \in Recs, Fx!AgentReads(g) PROVE OrderInv'
  <2>1. Elements(buffer') = {}
    BY <1>4, ReadsBuffer, Emptied
  <2>2. \A h \in Recs : \A n \in Out, m \in Elements(batch'[h]) : n < m
    BY <1>4, ReadsBuffer DEF OrderInv
  <2> QED BY <1>4, <2>1, <2>2, ReadsBuffer DEF OrderInv
<1>5. ASSUME NEW g \in Recs, Fx!AgentStops(g) PROVE OrderInv'
  <2>1. Elements(buffer') = {}
    BY <1>5, StopsBuffer, Emptied
  <2> QED BY <1>5, <2>1, StopsBuffer DEF OrderInv
<1>6. ASSUME NEW n \in Fx!Events, NEW g \in Recs, Fx!Publish(n, g), \A m \in Out : m < n,
             \A m \in Elements(buffer') \cup Elements(rest') : n < m,
             \A h \in Recs : \A m \in Elements(batch'[h]) : n < m,
             buffer' = buffer, Elements(rest') \subseteq Elements(rest),
             \A h \in Recs : Elements(batch'[h]) \subseteq Elements(batch[h])
      PROVE  OrderInv'
  <2>1. emitted \in Seq([of : Fx!Events, during : Recs])
    BY FxTypes DEF HistoryTypes
  <2>2. \A i, j \in DOMAIN emitted' : i < j => emitted'[i].of < emitted'[j].of
    BY <1>6, <2>1, PublishedOne DEF OrderInv, Out
  <2>3. Out' = Out \cup {n}
    BY <1>6, <2>1, PublishedOne
  <2> QED BY <1>6, <2>2, <2>3 DEF OrderInv
<1>7. ASSUME NEW g \in Recs, Fx!PublishNext(g) PROVE OrderInv'
  <2>1. PICK n \in Fx!Events :
          /\ Fx!Publish(n, g) /\ n \in Elements(batch[g])
          /\ Elements(batch'[g]) \subseteq Elements(batch[g])
          /\ Increasing(batch[g]) => Increasing(batch'[g]) /\ \A m \in Elements(batch'[g]) : n < m
          /\ \A h \in Recs : h # g => batch'[h] = batch[h]
          /\ UNCHANGED <<buffer, rest, heard, happened, offering>> /\ reader[g] = "emitting"
    BY <1>7, PublishesNext
  <2>2. Elements(rest) = {} /\ \A h \in Recs : h # g => Elements(batch[h]) = {}
    BY <2>1, OneReads, Emptied
  <2>3. \A h \in Recs : /\ Elements(batch'[h]) \subseteq Elements(batch[h])
                        /\ \A m \in Elements(batch'[h]) : n < m
    BY <2>1, <2>2 DEF PlaceInv
  <2>4. \A m \in Out : m < n
    BY <2>1 DEF OrderInv
  <2>5. \A m \in Elements(buffer') \cup Elements(rest') : n < m
    BY <2>1, <2>2 DEF OrderInv
  <2> QED BY <1>6, <2>1, <2>3, <2>4, <2>5
<1>8. ASSUME NEW g \in Recs, Fx!PublishRest(g) PROVE OrderInv'
  <2>1. PICK n \in Fx!Events :
          /\ Fx!Publish(n, g) /\ n \in Elements(rest) /\ Elements(rest') \subseteq Elements(rest)
          /\ Increasing(rest) => Increasing(rest') /\ \A m \in Elements(rest') : n < m
          /\ UNCHANGED <<buffer, batch, heard, happened, offering>> /\ phase[g] = "draining"
    BY <1>8, PublishesRest
  <2>2. \A h \in Recs : Elements(batch[h]) = {}
    BY <2>1, OneDrains, Emptied
  <2>3. \A m \in Out : m < n
    BY <2>1 DEF OrderInv
  <2>4. \A m \in Elements(buffer') \cup Elements(rest') : n < m
    BY <2>1 DEF OrderInv, PlaceInv
  <2> QED BY <1>6, <2>1, <2>2, <2>3, <2>4
<1> QED BY <1>1, <1>2, <1>3, <1>4, <1>5, <1>7, <1>8, OthersForget, OfferOffers DEF Hands

(* How phases and readers move unless a stop takes the buffer: who newly   *)
(* owns the buffer finds it empty, and a reader starts with an adapter     *)
(* that published nothing.                                                 *)
Moves(g) ==
  /\ Owns(g)' => Owns(g) \/ buffer' = <<>>
  /\ phase'[g] = "draining" => phase[g] = "draining"
  /\ reader'[g] # "off" => reader[g] # "off" \/ phase[g] \in Silent
  /\ phase'[g] \in Silent => phase[g] \in Silent

LEMMA PhaseMoves ==
  ASSUME Fx!TypeOK, PhaseInv, [Fx!Next]_Fx!vars, \A g \in Recs : ~ Fx!AgentStops(g), NEW h \in Recs
  PROVE  Moves(h)
<1> USE DEF Fx!setup, Fx!adapterVars, Moves
<1>1. AdapterTypes /\ tabs' = tabs
  BY FxTypes, SetupKept
<1>2. CASE UNCHANGED <<phase, reader>>
  BY <1>1, <1>2 DEF Owns, Hears
<1>3. CASE Fx!Attach \/ Fx!Happens \/ Fx!Offer \/ Fx!OfferTab \/ Fx!Straggle \/ UNCHANGED Fx!vars
  BY <1>2, <1>3 DEF Fx!Attach, Fx!Happens, Fx!Offer, Fx!OfferTab, Fx!Straggle, Fx!vars
<1>4. ASSUME NEW g \in Recs, Fx!Start(g) PROVE Moves(h)
  BY <1>1, <1>4 DEF Fx!Start, AdapterTypes, Owns, Hears, Silent
<1>5. ASSUME NEW g \in Recs, Fx!AgentStarts(g) PROVE Moves(h)
  BY <1>1, <1>5 DEF Fx!AgentStarts, AdapterTypes, Owns, Hears, Silent
<1>6. ASSUME NEW g \in Recs, Fx!AgentAnswers(g) PROVE Moves(h)
  BY <1>1, <1>6 DEF Fx!AgentAnswers, AdapterTypes, Owns, Hears, Silent, Fx!Over
<1>7. ASSUME NEW g \in Recs, Fx!StartFails(g) PROVE Moves(h)
  BY <1>1, <1>7 DEF Fx!StartFails, AdapterTypes, Owns, Hears, Silent, PhaseInv
<1>8. ASSUME NEW g \in Recs, Fx!Reading(g) PROVE Moves(h)
  <2>1. phase' = phase /\ \E s : s # "off" /\ reader' = [reader EXCEPT ![g] = s]
    <3>1. \/ UNCHANGED <<phase, reader>> /\ reader[g] # "off"
          \/ phase' = phase /\ \E s \in {"ended", "reading", "emitting", "top"} :
                                 reader' = [reader EXCEPT ![g] = s]
      BY <1>8 DEF Fx!Reading, Fx!Poll, Fx!AgentReads, Fx!PublishNext, Fx!BatchDone, Fx!ReadFails,
                  Fx!ReadRefused, Fx!GivesUp
    <3>2. reader = [reader EXCEPT ![g] = reader[g]]
      BY <1>1 DEF AdapterTypes
    <3> QED BY <3>1, <3>2
  <2>2. reader[g] # "off"
    BY <1>8 DEF Fx!Reading, Fx!Poll, Fx!AgentReads, Fx!PublishNext, Fx!BatchDone, Fx!ReadFails,
                Fx!ReadRefused
  <2> QED BY <1>1, <2>1, <2>2 DEF AdapterTypes, Owns, Hears
<1>9. ASSUME NEW g \in Recs, Fx!Stop(g) PROVE Moves(h)
  BY <1>1, <1>9 DEF Fx!Stop, AdapterTypes, Owns, Hears, Silent, Fx!Over
<1>10. ASSUME NEW g \in Recs, Fx!Joined(g) PROVE Moves(h)
  BY <1>1, <1>10 DEF Fx!Joined, AdapterTypes, Owns, Hears, Silent, Fx!Over
<1>11. ASSUME NEW g \in Recs, Fx!StopFails(g) \/ Fx!RestRaises(g) \/ Fx!Stopped(g) PROVE Moves(h)
  BY <1>1, <1>11 DEF Fx!StopFails, Fx!RestRaises, Fx!Stopped, AdapterTypes, Owns, Hears, Silent, Fx!Over
<1>12. ASSUME NEW g \in Recs, Fx!PublishRest(g) PROVE Moves(h)
  BY <1>2, <1>12 DEF Fx!PublishRest
<1> QED BY <1>3, <1>4, <1>5, <1>6, <1>7, <1>8, <1>9, <1>10, <1>11, <1>12
    DEF Fx!Next, Fx!Starting, Fx!Stopping, Recs

LEMMA EmittedOf ==
  ASSUME Fx!TypeOK
  PROVE  \A i \in DOMAIN emitted : emitted[i].during \in Recs /\ emitted[i].of \in Out
<1>1. PICK Records : Records = [of : Fx!Events, during : Recs]
  OBVIOUS
<1>2. emitted \in Seq(Records)
  BY <1>1, FxTypes DEF HistoryTypes
<1>3. \A i \in DOMAIN emitted : emitted[i] \in Records
  BY <1>2
<1> QED BY <1>1, <1>3 DEF Out

(* What was published stays explained when one more is.                    *)
LEMMA EmittedKept ==
  ASSUME Fx!TypeOK, EmittedHeard, \A g \in Recs : Moves(g),
         \A n \in Out : heard'[n] = heard[n],
         \/ emitted' = emitted
         \/ \E n \in Fx!Events, g \in Recs :
              /\ Fx!Publish(n, g) /\ phase'[g] \notin Silent
              /\ reader'[g] # "off" => heard'[n] = g
  PROVE  EmittedHeard'
<1>1. \A i \in DOMAIN emitted :
        /\ phase'[emitted[i].during] \notin Silent
        /\ reader'[emitted[i].during] # "off" => heard'[emitted[i].of] = emitted[i].during
  BY EmittedOf DEF EmittedHeard, Moves
<1>2. CASE emitted' = emitted
  BY <1>1, <1>2 DEF EmittedHeard
<1>3. ASSUME NEW n \in Fx!Events, NEW g \in Recs, Fx!Publish(n, g), phase'[g] \notin Silent,
             reader'[g] # "off" => heard'[n] = g
      PROVE  EmittedHeard'
  <2>1. emitted \in Seq([of : Fx!Events, during : Recs])
    BY FxTypes DEF HistoryTypes
  <2>2. \A i \in DOMAIN emitted' :
          \/ i \in DOMAIN emitted /\ emitted'[i] = emitted[i]
          \/ emitted'[i].during = g /\ emitted'[i].of = n
    BY <1>3, <2>1, PublishedOne
  <2> QED BY <1>1, <1>3, <2>2 DEF EmittedHeard
<1> QED BY <1>2, <1>3

LEMMA HeardKept ==
  ASSUME Fx!TypeOK, PhaseInv, PlaceInv, HeardInv, "slow" \notin faults, [Fx!Next]_Fx!vars
  PROVE  HeardInv'
<1>0. (\A g \in Recs : ~ Fx!AgentStops(g)) => \A g \in Recs : Moves(g)
  BY PhaseMoves
<1> USE DEF HeardInv
<1>1. ASSUME \A g \in Recs : ~ Fx!AgentStops(g), UNCHANGED <<emitted, heard>>,
             Elements(buffer') \subseteq Elements(buffer), Elements(rest') \subseteq Elements(rest),
             \A g \in Recs : Elements(batch'[g]) \subseteq Elements(batch[g])
      PROVE  HeardInv'
  <2>1. \A g \in Recs : Moves(g)
    BY <1>0, <1>1
  <2>2. BatchHeard'
    BY <1>1 DEF BatchHeard
  <2>3. BufferHeard'
    BY <1>1, <2>1, Emptied DEF BufferHeard, Moves
  <2>4. RestHeard'
    <3> SUFFICES ASSUME NEW g \in Recs, phase'[g] = "draining", reader'[g] # "off"
                 PROVE  \A n \in Elements(rest') : heard'[n] = g
      BY DEF RestHeard
    <3>1. phase[g] = "draining" /\ reader[g] # "off"
      BY <2>1 DEF Moves, Silent
    <3> QED BY <1>1, <3>1 DEF RestHeard
  <2>5. EmittedHeard'
    BY <1>1, <2>1, EmittedKept
  <2> QED BY <2>2, <2>3, <2>4, <2>5
<1>2. CASE Forgets /\ \A g \in Recs : ~ Hands(g)
  BY <1>1, <1>2, ForgetsPlaces DEF Forgets, Hands
<1>3. CASE Fx!Happens /\ \A g \in Recs : ~ Hands(g)
  <2>1. UNCHANGED <<buffer, rest, batch, emitted, heard>>
    BY <1>3 DEF Fx!Happens, Fx!adapterVars, Fx!agentVars
  <2> QED BY <1>1, <1>3, <2>1 DEF Hands
<1>4. ASSUME NEW r \in 0 .. MaxRecordings, Offers(r) PROVE HeardInv'
  <2>1. /\ UNCHANGED <<tabs, phase, reader, rest, batch, emitted>>
        /\ heard' = [heard EXCEPT ![happened] = r] /\ happened \in Fx!Events
        /\ heard \in [Fx!Events -> 0 .. MaxRecordings]
    BY <1>4, FxTypes DEF Offers, PlaceInv, HistoryTypes
  <2>2. \A n \in Out \cup Elements(buffer) \cup Elements(rest) : heard'[n] = heard[n]
    BY <1>4, OffersPlaces, AllEvents
  <2>3. \A g \in Recs : \A n \in Elements(batch[g]) : heard'[n] = heard[n]
    BY <1>4, OffersPlaces, AllEvents
  <2>4. \A g \in Recs : Owns(g)' <=> Owns(g)
    BY <2>1 DEF Owns, Hears
  <2>5. BatchHeard'
    BY <2>1, <2>3 DEF BatchHeard
  <2>6. BufferHeard'
    <3> SUFFICES ASSUME NEW g \in Recs, Owns(g), NEW n \in Elements(buffer') PROVE heard'[n] = g
      BY <2>4 DEF BufferHeard
    <3>1. CASE n \in Elements(buffer)
      BY <2>2, <3>1 DEF BufferHeard
    <3>2. CASE Buffers(r) /\ n = happened
      BY <2>1, <3>2 DEF Buffers, Owns
    <3> QED BY <1>4, <3>1, <3>2, OffersPlaces DEF Buffers
  <2>7. RestHeard'
    BY <2>1, <2>2 DEF RestHeard
  <2>8. EmittedHeard'
    BY <2>1, <2>2, EmittedOf DEF EmittedHeard
  <2> QED BY <2>5, <2>6, <2>7, <2>8
<1>5. ASSUME NEW g \in Recs, Fx!AgentReads(g) PROVE HeardInv'
  <2>1. Owns(g) /\ Elements(rest) = {} /\ rest' = rest /\ Elements(buffer') = {}
    BY <1>5, ReadsBuffer, OneReads, Emptied
  <2>2. BatchHeard'
    BY <1>5, <2>1, ReadsBuffer DEF BatchHeard, BufferHeard
  <2>3. UNCHANGED <<phase, emitted, heard>> /\ \A h \in Recs : reader'[h] # "off" => reader[h] # "off"
    BY <1>5, FxTypes DEF Fx!AgentReads, Fx!fxVars, AdapterTypes
  <2>4. EmittedHeard'
    BY <2>3, EmittedOf DEF EmittedHeard
  <2> QED BY <2>1, <2>2, <2>4 DEF BufferHeard, RestHeard
<1>6. ASSUME NEW g \in Recs, Fx!AgentStops(g) PROVE HeardInv'
  <2>1. /\ Elements(buffer') = {} /\ rest' = buffer /\ UNCHANGED <<batch, emitted, heard>>
        /\ phase[g] = "closing" /\ reader' = reader /\ phase' = [phase EXCEPT ![g] = "draining"]
    BY <1>6, StopsBuffer, Emptied DEF Fx!AgentStops
  <2>2. phase'[g] = "draining" /\ \A h \in Recs : h # g => phase'[h] = phase[h]
    BY <2>1, FxTypes DEF AdapterTypes
  <2>3. \A h \in Recs : h # g => phase[h] # "draining"
    BY <2>1, Alone DEF Fx!Over
  <2>4. RestHeard'
    <3>1. reader[g] # "off" => Owns(g)
      BY <2>1 DEF Owns, Hears, Fx!Over
    <3> QED BY <2>1, <2>2, <2>3, <3>1 DEF RestHeard, BufferHeard
  <2>5. EmittedHeard'
    BY <2>1, <2>2, EmittedOf DEF EmittedHeard, Silent
  <2> QED BY <2>1, <2>4, <2>5 DEF BatchHeard, BufferHeard
<1>7. ASSUME NEW g \in Recs, Fx!PublishNext(g) PROVE HeardInv'
  <2>1. PICK n \in Fx!Events :
          /\ Fx!Publish(n, g) /\ n \in Elements(batch[g])
          /\ Elements(batch'[g]) \subseteq Elements(batch[g])
          /\ \A h \in Recs : h # g => batch'[h] = batch[h]
          /\ UNCHANGED <<buffer, rest, heard>> /\ reader[g] = "emitting"
    BY <1>7, PublishesNext
  <2>2. UNCHANGED <<tabs, phase, reader>>
    BY <1>7 DEF Fx!PublishNext, Fx!setup
  <2>3. \A h \in Recs : Moves(h)
    BY <2>2 DEF Moves, Owns, Hears
  <2>4. phase'[g] \notin Silent /\ heard'[n] = g
    BY <2>1, <2>2 DEF PhaseInv, BatchHeard
  <2>5. EmittedHeard'
    BY <2>1, <2>3, <2>4, EmittedKept
  <2>6. BatchHeard'
    BY <2>1 DEF BatchHeard
  <2>7. BufferHeard' /\ RestHeard'
    BY <2>1, <2>2 DEF BufferHeard, RestHeard, Owns, Hears
  <2> QED BY <2>5, <2>6, <2>7
<1>8. ASSUME NEW g \in Recs, Fx!PublishRest(g) PROVE HeardInv'
  <2>1. PICK n \in Fx!Events :
          /\ Fx!Publish(n, g) /\ n \in Elements(rest) /\ Elements(rest') \subseteq Elements(rest)
          /\ UNCHANGED <<buffer, batch, heard>> /\ phase[g] = "draining"
    BY <1>8, PublishesRest
  <2>2. UNCHANGED <<tabs, phase, reader>>
    BY <1>8 DEF Fx!PublishRest, Fx!setup
  <2>3. \A h \in Recs : Moves(h)
    BY <2>2 DEF Moves, Owns, Hears
  <2>4. phase'[g] \notin Silent /\ (reader'[g] # "off" => heard'[n] = g)
    BY <2>1, <2>2 DEF RestHeard, Silent
  <2>5. EmittedHeard'
    BY <2>1, <2>3, <2>4, EmittedKept
  <2>6. BatchHeard'
    BY <2>1 DEF BatchHeard
  <2>7. BufferHeard' /\ RestHeard'
    BY <2>1, <2>2 DEF BufferHeard, RestHeard, Owns, Hears
  <2> QED BY <2>5, <2>6, <2>7
<1> QED BY <1>2, <1>3, <1>4, <1>5, <1>6, <1>7, <1>8, OthersForget, OfferOffers DEF Hands

(* What is lost *)

(* What followed an observation still follows it.                          *)
LEMMA DroppedKept ==
  ASSUME HistoryTypes, HistoryTypes', tabs' = tabs, happened <= happened',
         NEW g \in Recs, \A k \in Fx!Events : heard[k] = g => heard'[k] = g,
         NEW n \in Fx!Events, Dropped(g, n)
  PROVE  Dropped(g, n)'
<1> DEFINE Later == {k \in n + 1 .. happened : heard[k] = g}
           LaterOn == {k \in n + 1 .. happened' : heard'[k] = g}
<1>1. n \in Nat /\ happened \in Nat /\ happened' \in Nat /\ happened <= MaxEvents /\ MaxEvents \in Nat
  BY LimitsAssumption DEF HistoryTypes, Fx!Events
<1>2. Later \subseteq LaterOn
  BY <1>1 DEF Fx!Events
<1>3. IsFiniteSet(LaterOn)
  <2>1. n + 1 \in Int /\ happened' \in Int
    BY <1>1
  <2>2. IsFiniteSet(n + 1 .. happened') /\ LaterOn \subseteq n + 1 .. happened'
    BY <2>1, FS_Interval
  <2> QED BY <2>2, FS_Subset
<1>4. /\ Cardinality(Later) <= Cardinality(LaterOn) /\ Cardinality(Later) \in Nat
      /\ Cardinality(LaterOn) \in Nat
  BY <1>2, <1>3, FS_Subset, FS_CardinalityType
<1>5. Cardinality(Later) >= Limit /\ ~ tabs
  BY DEF Dropped
<1>6. Cardinality(LaterOn) >= Limit
  BY <1>4, <1>5, LimitsAssumption
<1> QED BY <1>5, <1>6 DEF Dropped

(* Where a full buffer drops its first, a bufferful followed that one.     *)
LEMMA FullFollows ==
  ASSUME HistoryTypes, QueueTypes, Increasing(buffer), Len(buffer) = Limit, ~ tabs', NEW g \in Recs,
         happened \in Fx!Events, happened' = happened, heard'[happened] = g,
         \A m \in Elements(buffer) : m < happened /\ heard'[m] = g,
         NEW n \in Fx!Events, n = Head(buffer)
  PROVE  Dropped(g, n)'
<1>a. buffer \in Seq(Fx!Events) /\ Limit \in Nat \ {0} /\ DOMAIN buffer = 1 .. Limit
  BY LimitsAssumption DEF QueueTypes
<1>b. \A i \in 1 .. Limit : buffer[i] \in Fx!Events
  BY <1>a
<1>1. /\ buffer \in Seq(Fx!Events) /\ Limit \in Nat \ {0} /\ DOMAIN buffer = 1 .. Limit
      /\ Head(buffer) = buffer[1] /\ happened \in Nat
      /\ \A i \in 1 .. Limit : buffer[i] \in Nat /\ buffer[i] \in Elements(buffer)
  BY <1>a, <1>b DEF Elements, Fx!Events
<1> DEFINE Later == {k \in n + 1 .. happened : heard'[k] = g}
           f == [i \in 1 .. Limit |-> IF i < Limit THEN buffer[i + 1] ELSE happened]
<1>2. ASSUME NEW i \in 1 .. Limit PROVE f[i] \in Later
  <2>1. CASE i < Limit
    <3>1. i + 1 \in 1 .. Limit /\ 1 \in 1 .. Limit /\ 1 < i + 1
      BY <1>1, <2>1
    <3>2. buffer[1] < buffer[i + 1]
      BY <1>1, <3>1 DEF Increasing
    <3>3. /\ buffer[i + 1] \in Nat /\ buffer[1] \in Nat
          /\ buffer[i + 1] < happened /\ heard'[buffer[i + 1]] = g
      BY <1>1, <3>1
    <3>4. buffer[i + 1] \in n + 1 .. happened
      BY <1>1, <3>2, <3>3
    <3> QED BY <2>1, <3>3, <3>4
  <2>2. CASE i = Limit
    <3>1. 1 \in 1 .. Limit
      BY <1>1
    <3>2. buffer[1] < happened /\ buffer[1] \in Nat
      BY <1>1, <3>1
    <3>3. happened \in n + 1 .. happened
      BY <1>1, <3>2
    <3> QED BY <2>2, <3>3
  <2> QED BY <1>1, <2>1, <2>2
<1>3. ASSUME NEW i \in 1 .. Limit, NEW j \in 1 .. Limit, i < j PROVE f[i] < f[j]
  <2>1. i < Limit /\ i + 1 \in 1 .. Limit /\ f[i] = buffer[i + 1]
    BY <1>1, <1>3
  <2>2. CASE j < Limit
    <3>1. j + 1 \in 1 .. Limit /\ f[j] = buffer[j + 1] /\ i + 1 < j + 1
      BY <1>1, <1>3, <2>2
    <3> QED BY <1>1, <2>1, <3>1 DEF Increasing
  <2>3. CASE j = Limit
    BY <1>1, <2>1, <2>3
  <2> QED BY <1>1, <2>2, <2>3
<1>4. f \in Injection(1 .. Limit, Later)
  <2>1. \A i \in 1 .. Limit : f[i] \in Nat
    BY <1>1, <1>2
  <2>2. \A i, j \in 1 .. Limit : f[i] = f[j] => i = j
    BY <1>1, <1>3, <2>1
  <2>3. f \in [1 .. Limit -> Later]
    BY <1>2
  <2> HIDE DEF f, Later
  <2> QED BY <2>2, <2>3 DEF Injection, IsInjective
<1>5. IsFiniteSet(Later)
  <2>1. IsFiniteSet(n + 1 .. happened) /\ Later \subseteq n + 1 .. happened
    <3>1. n + 1 \in Int /\ happened \in Int
      BY <1>1
    <3> QED BY <3>1, FS_Interval
  <2> QED BY <2>1, FS_Subset
<1>6. Cardinality(1 .. Limit) = Limit
  BY <1>1, FS_Interval
<1>7. Cardinality(1 .. Limit) <= Cardinality(Later) /\ Cardinality(Later) \in Nat
  <2> HIDE DEF f, Later
  <2> QED BY <1>4, <1>5, FS_Injection, FS_CardinalityType
<1> HIDE DEF f
<1> QED BY <1>1, <1>6, <1>7 DEF Dropped

(* A recording that is over or not begun is not concerned.                 *)
LEMMA OverKept ==
  ASSUME HistoryTypes, HistoryTypes', tabs' = tabs, happened <= happened', heard' = heard,
         NEW h \in Recs, Loss(h), phase[h] \in Fx!Over \cup {"new"}, phase'[h] = phase[h],
         batch'[h] = batch[h], \A n \in Fx!Events : Published(h, n) => Published(h, n)'
  PROVE  Loss(h)'
<1> SUFFICES ASSUME NEW n \in Fx!Events, heard[n] = h
             PROVE  /\ phase[h] \notin {"new", "starting"} /\ (phase[h] = "started" => tabs)
                    /\ phase[h] # "stop_failed" => Kept(h, n)'
  BY DEF Loss
<1>1. /\ phase[h] \notin {"new", "starting"} /\ (phase[h] = "started" => tabs)
      /\ phase[h] # "stop_failed" => Kept(h, n)
  BY DEF Loss
<1>2. ASSUME phase[h] # "stop_failed" PROVE Kept(h, n)'
  <2>1. Published(h, n) \/ n \in Elements(batch[h]) \/ Dropped(h, n)
    BY <1>1, <1>2 DEF Kept, Fx!Over, Live
  <2>2. Dropped(h, n) => Dropped(h, n)'
    BY DroppedKept
  <2> QED BY <2>1, <2>2 DEF Kept
<1> QED BY <1>1, <1>2

(* The steps that move no observation.                                     *)
LEMMA QuietKept ==
  ASSUME HistoryTypes, HistoryTypes', LossInv, tabs' = tabs, happened <= happened',
         UNCHANGED <<heard, buffer, rest, batch, emitted, failure>>,
         \A g \in Recs :
           \/ phase'[g] = phase[g] \/ phase[g] \in {"new", "starting"}
           \/ phase[g] \in Live /\ phase'[g] \in Live \cup {"closing"}
           \/ phase[g] = "draining" /\ rest = <<>> /\ phase'[g] = "stopped"
  PROVE  LossInv'
<1> SUFFICES ASSUME NEW h \in Recs, NEW n \in Fx!Events, heard[n] = h
             PROVE  /\ phase'[h] \notin {"new", "starting"} /\ (phase'[h] = "started" => tabs)
                    /\ phase'[h] # "stop_failed" => Kept(h, n)'
  BY DEF LossInv, Loss
<1>1. /\ phase[h] \notin {"new", "starting"} /\ (phase[h] = "started" => tabs)
      /\ phase[h] # "stop_failed" => Kept(h, n)
  BY DEF LossInv, Loss
<1>2. Dropped(h, n) => Dropped(h, n)'
  BY DroppedKept
<1>3. Published(h, n) => Published(h, n)'
  BY DEF Published
<1>4. CASE phase'[h] = phase[h]
  BY <1>1, <1>2, <1>3, <1>4 DEF Kept
<1>5. CASE phase[h] \in Live /\ phase'[h] \in Live \cup {"closing"}
  BY <1>1, <1>2, <1>3, <1>5 DEF Kept, Live
<1>6. CASE phase[h] = "draining" /\ rest = <<>> /\ phase'[h] = "stopped"
  BY <1>1, <1>2, <1>3, <1>6, Emptied DEF Kept, Live
<1> QED BY <1>1, <1>4, <1>5, <1>6

LEMMA OfferTaken ==
  ASSUME Fx!TypeOK, Fx!TypeOK', PhaseInv, PlaceInv, HeardInv, LossInv, faults = {}, Fx!Offer,
         sink /\ active, Fx!Heard,
         buffer' = Append(IF Len(buffer) = Limit THEN Tail(buffer) ELSE buffer, happened)
  PROVE  LossInv'
<1>0. HistoryTypes'
  BY FxTypes, PTL
<1>1. /\ buffer \in Seq(Fx!Events) /\ happened \in Fx!Events /\ Limit \in Nat \ {0} /\ offering
      /\ HistoryTypes /\ HistoryTypes' /\ QueueTypes /\ ~ tabs
      /\ UNCHANGED <<tabs, phase, batch, rest, emitted, happened, failure>>
  BY <1>0, FxTypes, LimitsAssumption DEF QueueTypes, PlaceInv, Fx!Offer, Fx!setup, Fx!adapterVars
<1>2. PICK r \in 0 .. MaxRecordings :
        /\ heard' = [heard EXCEPT ![happened] = r]
        /\ r = Fx!NoRecording \/ (r \in Recs /\ Hears(r))
        /\ \A g \in Recs : Hears(g) => r = g
  BY HeardBy
<1>3. /\ heard'[happened] = r /\ \A n \in Fx!Events : n # happened => heard'[n] = heard[n]
      /\ heard[happened] = Fx!NoRecording /\ happened \in Nat
  BY <1>1, <1>2 DEF HistoryTypes, PlaceInv, Settled, Fx!Events
<1>4. \A g \in Recs : \A k \in Fx!Events : heard[k] = g => heard'[k] = g
  BY <1>3 DEF Recs, Fx!Recordings, Fx!NoRecording
<1>5. /\ happened \in Elements(buffer')
      /\ \A n \in Elements(buffer) :
           n \in Elements(buffer') \/ (Len(buffer) = Limit /\ n = Head(buffer))
  <2>1. CASE Len(buffer) = Limit
    <3>1. buffer # <<>> /\ Tail(buffer) \in Seq(Fx!Events)
      BY <1>1, <2>1
    <3>2. Elements(buffer') = Elements(Tail(buffer)) \cup {happened}
      BY <1>1, <2>1, <3>1, Pushed
    <3> QED BY <1>1, <2>1, <3>1, <3>2, Popped
  <2>2. CASE Len(buffer) # Limit
    BY <1>1, <2>2, Pushed
  <2> QED BY <2>1, <2>2
<1> SUFFICES ASSUME NEW h \in Recs, NEW n \in Fx!Events, heard'[n] = h
             PROVE  /\ phase[h] \notin {"new", "starting"} /\ (phase[h] = "started" => tabs)
                    /\ phase[h] # "stop_failed" => Kept(h, n)'
  BY <1>1 DEF LossInv, Loss
<1>6. CASE n = happened
  <2>1. Hears(h)
    BY <1>2, <1>3, <1>6 DEF Recs, Fx!Recordings, Fx!NoRecording
  <2>2. phase[h] # "draining"
    BY DEF PhaseInv, Fx!Offer
  <2>3. phase[h] \in {"started", "closing"} \cup Live
    BY <2>1, <2>2, FxTypes DEF Hears, AdapterTypes, Fx!Over, Live
  <2> QED BY <1>1, <1>5, <1>6, <2>1, <2>3 DEF Hears, Kept
<1>7. CASE n # happened
  <2>1. /\ phase[h] \notin {"new", "starting"} /\ (phase[h] = "started" => tabs)
        /\ phase[h] # "stop_failed" => Kept(h, n)
    BY <1>3, <1>7 DEF LossInv, Loss
  <2>2. Dropped(h, n) => Dropped(h, n)'
    BY <1>1, <1>3, <1>4, DroppedKept
  <2>3. Published(h, n) => Published(h, n)'
    BY <1>1 DEF Published
  <2>4. ASSUME phase[h] \in {"started", "closing"} \cup Live, n = Head(buffer), Len(buffer) = Limit
        PROVE  Dropped(h, n)'
    <3>1. Hears(h)
      BY <2>1, <2>4 DEF Hears, Fx!Over, Live
    <3>2. Owns(h)
      BY <1>1, <2>4, <3>1 DEF Owns, PhaseInv, Live
    <3>3. heard'[happened] = h
      BY <1>2, <1>3, <3>1
    <3>4. \A m \in Elements(buffer) : m < happened /\ heard'[m] = h
      BY <1>1, <1>4, <3>2, AllEvents DEF HeardInv, BufferHeard, PlaceInv, Settled
    <3> QED BY <1>1, <2>4, <3>3, <3>4, FullFollows DEF PlaceInv
  <2> QED BY <1>1, <1>5, <2>1, <2>2, <2>3, <2>4 DEF Kept
<1> QED BY <1>6, <1>7

LEMMA OfferTabTaken ==
  ASSUME Fx!TypeOK, Fx!TypeOK', PhaseInv, PlaceInv, LossInv, Fx!OfferTab
  PROVE  LossInv'
<1>0. HistoryTypes'
  BY FxTypes, PTL
<1>1. /\ buffer \in Seq(Fx!Events) /\ happened \in Fx!Events /\ offering /\ Fx!Heard
      /\ HistoryTypes /\ HistoryTypes' /\ tabs
      /\ UNCHANGED <<tabs, phase, batch, rest, emitted, happened>>
  BY <1>0, FxTypes DEF QueueTypes, PlaceInv, Fx!OfferTab, Fx!setup, Fx!adapterVars
<1>2. PICK r \in 0 .. MaxRecordings :
        /\ heard' = [heard EXCEPT ![happened] = r]
        /\ r = Fx!NoRecording \/ (r \in Recs /\ Hears(r))
  BY <1>1, HeardBy
<1>3. /\ heard'[happened] = r /\ \A n \in Fx!Events : n # happened => heard'[n] = heard[n]
  BY <1>1, <1>2 DEF HistoryTypes
<1>4. /\ failure' \/ happened \in Elements(buffer')
      /\ failure' \/ (Elements(buffer) \subseteq Elements(buffer') /\ failure' = failure)
  BY <1>1, Pushed DEF Fx!OfferTab
<1> SUFFICES ASSUME NEW h \in Recs, NEW n \in Fx!Events, heard'[n] = h
             PROVE  /\ phase[h] \notin {"new", "starting"} /\ (phase[h] = "started" => tabs)
                    /\ phase[h] # "stop_failed" => Kept(h, n)'
  BY <1>1 DEF LossInv, Loss
<1>5. CASE n = happened
  <2>1. Hears(h)
    BY <1>2, <1>3, <1>5 DEF Recs, Fx!Recordings, Fx!NoRecording
  <2>2. phase[h] # "draining"
    BY <1>1 DEF PhaseInv
  <2>3. phase[h] \in {"started", "closing"} \cup Live
    BY <2>1, <2>2, FxTypes DEF Hears, AdapterTypes, Fx!Over, Live
  <2> QED BY <1>1, <1>4, <1>5, <2>1, <2>3 DEF Hears, Kept
<1>6. CASE n # happened
  <2>1. /\ phase[h] \notin {"new", "starting"} /\ (phase[h] = "started" => tabs)
        /\ phase[h] # "stop_failed" => Kept(h, n)
    BY <1>3, <1>6 DEF LossInv, Loss
  <2>2. ~ Dropped(h, n)
    BY <1>1 DEF Dropped
  <2>3. Published(h, n) => Published(h, n)'
    BY <1>1 DEF Published
  <2> QED BY <1>1, <1>4, <2>1, <2>2, <2>3 DEF Kept
<1> QED BY <1>5, <1>6

(* The steps of the one adapter under way.                                 *)
LEMMA OwnKept ==
  ASSUME HistoryTypes, HistoryTypes', PhaseInv, LossInv, tabs' = tabs, UNCHANGED <<heard, happened>>,
         NEW g \in Recs, phase[g] \notin Fx!Over \cup {"new"},
         \A h \in Recs : h # g => phase'[h] = phase[h] /\ batch'[h] = batch[h],
         \A h \in Recs : \A n \in Fx!Events : Published(h, n) => Published(h, n)',
         /\ phase'[g] \notin {"new", "starting"}
         /\ phase'[g] = "started" => tabs \/ phase[g] = "starting"
         /\ \A n \in Fx!Events : heard[n] = g /\ phase[g] # "starting" /\ phase'[g] # "stop_failed"
                                  /\ Kept(g, n) /\ (Dropped(g, n) => Dropped(g, n)') => Kept(g, n)'
  PROVE  LossInv'
<1>1. happened <= happened'
  BY DEF HistoryTypes
<1>2. ASSUME NEW h \in Recs, h # g PROVE Loss(h)'
  BY <1>1, <1>2, Alone, OverKept DEF LossInv
<1>3. Loss(g)'
  <2>1. \A n \in Fx!Events : Dropped(g, n) => Dropped(g, n)'
    BY <1>1, DroppedKept
  <2> QED BY <2>1 DEF LossInv, Loss, Fx!Over
<1> QED BY <1>2, <1>3 DEF LossInv

LEMMA LossKept ==
  ASSUME Fx!TypeOK, Fx!TypeOK', PhaseInv, PlaceInv, HeardInv, LossInv, faults = {}, [Fx!Next]_Fx!vars
  PROVE  LossInv'
<1>1. HistoryTypes /\ QueueTypes /\ AdapterTypes /\ UNCHANGED <<faults, tabs>>
  BY FxTypes, SetupKept
<1>2. HistoryTypes'
  BY FxTypes, PTL
<1>3. happened \in Nat /\ happened <= happened
  BY <1>1 DEF HistoryTypes
<1> USE DEF Fx!adapterVars, Fx!agentVars, Fx!fxVars
<1>4. CASE Fx!Attach \/ Fx!Happens \/ UNCHANGED Fx!vars
  BY <1>1, <1>2, <1>3, <1>4, QuietKept DEF Fx!Attach, Fx!Happens, Fx!vars
<1>5. CASE Fx!Offer
  <2>1. CASE UNCHANGED <<buffer, heard>>
    BY <1>1, <1>2, <1>3, <1>5, <2>1, QuietKept DEF Fx!Offer
  <2> QED BY <1>5, <2>1, OfferTaken DEF Fx!Offer
<1>6. CASE Fx!OfferTab
  BY <1>6, OfferTabTaken
<1>7. ~ Fx!Straggle
  BY DEF Fx!Straggle, PhaseInv
<1>8. ASSUME NEW g \in Recs, Fx!Starting(g) PROVE LossInv'
  <2>1. CASE Fx!Start(g) \/ Fx!StartFails(g)
    <3>1. phase[g] \in {"new", "starting"} /\ \A h \in Recs : h # g => phase'[h] = phase[h]
      BY <1>1, <2>1 DEF Fx!Start, Fx!StartFails, AdapterTypes
    <3> QED BY <1>1, <1>2, <1>3, <2>1, <3>1, QuietKept DEF Fx!Start, Fx!StartFails
  <2>2. CASE Fx!AgentStarts(g)
    BY <1>1, <1>2, <2>2, OwnKept DEF Fx!AgentStarts, AdapterTypes, Fx!Over, Published
  <2>3. CASE Fx!AgentAnswers(g)
    <3>1. \A h \in Recs : h # g => phase'[h] = phase[h]
      BY <1>1, <2>3 DEF Fx!AgentAnswers, AdapterTypes
    <3>2. /\ phase[g] = "started" /\ phase'[g] = "live"
          /\ UNCHANGED <<batch, rest, failure, heard, happened, emitted>>
          /\ tabs => buffer' = buffer
      BY <1>1, <2>3 DEF Fx!AgentAnswers, AdapterTypes
    <3>3. ASSUME NEW n \in Fx!Events, heard[n] = g, Kept(g, n), Dropped(g, n) => Dropped(g, n)'
          PROVE  Kept(g, n)'
      <4>1. buffer' = buffer
        BY <3>2, <3>3 DEF LossInv, Loss
      <4> QED BY <3>2, <3>3, <4>1 DEF Kept, Published, Live
    <3>4. \A h \in Recs : \A n \in Fx!Events : Published(h, n) => Published(h, n)'
      BY <3>2 DEF Published
    <3> QED BY <1>1, <1>2, <3>1, <3>2, <3>3, <3>4, OwnKept DEF Fx!Over
  <2> QED BY <1>8, <2>1, <2>2, <2>3 DEF Fx!Starting
<1>9. ASSUME NEW g \in Recs, Fx!Reading(g) PROVE LossInv'
  <2>1. phase[g] \in Live /\ reader[g] \notin {"off", "ended"}
    <3>1. reader[g] \notin {"off", "ended"}
      BY <1>9 DEF Fx!Reading, Fx!Poll, Fx!AgentReads, Fx!PublishNext, Fx!BatchDone, Fx!ReadFails,
                  Fx!ReadRefused
    <3> QED BY <3>1, OneReads
  <2>2. CASE Fx!Poll(g) \/ Fx!BatchDone(g)
    BY <1>1, <1>2, <1>3, <2>2, QuietKept DEF Fx!Poll, Fx!BatchDone
  <2>3. ~ Fx!ReadFails(g)
    BY <2>1 DEF Fx!ReadFails, PhaseInv, Live
  <2>4. CASE Fx!ReadRefused(g)
    <3>1. batch[g] = <<>> /\ batch' = [batch EXCEPT ![g] = <<>>]
      BY <2>4 DEF Fx!ReadRefused, Fx!GivesUp, PhaseInv
    <3>2. batch' = batch
      BY <1>1, <3>1 DEF QueueTypes
    <3> QED BY <1>1, <1>2, <1>3, <2>4, <3>2, QuietKept DEF Fx!ReadRefused
  <2>5. CASE Fx!AgentReads(g)
    <3>1. /\ batch'[g] = buffer /\ \A h \in Recs : h # g => batch'[h] = batch[h]
          /\ UNCHANGED <<heard, happened, emitted, rest, phase>> /\ ~ failure /\ batch[g] = <<>>
      BY <2>5, ReadsBuffer DEF Fx!AgentReads, PhaseInv
    <3>2. ASSUME NEW n \in Fx!Events, Kept(g, n), Dropped(g, n) => Dropped(g, n)' PROVE Kept(g, n)'
      BY <3>1, <3>2, Emptied DEF Kept, Published
    <3>3. \A h \in Recs : \A n \in Fx!Events : Published(h, n) => Published(h, n)'
      BY <3>1 DEF Published
    <3> QED BY <1>1, <1>2, <2>1, <3>1, <3>2, <3>3, OwnKept DEF Fx!Over, Live
  <2>6. CASE Fx!PublishNext(g)
    <3>1. PICK m \in Fx!Events :
            /\ Fx!Publish(m, g) /\ Elements(batch[g]) = {m} \cup Elements(batch'[g])
            /\ \A h \in Recs : h # g => batch'[h] = batch[h]
            /\ UNCHANGED <<buffer, rest, heard, happened, offering>>
      BY <2>6, PublishesNext
    <3>2. UNCHANGED <<phase, failure>>
      BY <2>6 DEF Fx!PublishNext
    <3>3. /\ \A h \in Recs : \A n \in Fx!Events : Published(h, n) => Published(h, n)'
          /\ Published(g, m)'
      BY <1>1, <3>1, PublishedOne DEF HistoryTypes, Published
    <3>4. ASSUME NEW n \in Fx!Events, Kept(g, n), Dropped(g, n) => Dropped(g, n)' PROVE Kept(g, n)'
      BY <3>1, <3>2, <3>3, <3>4 DEF Kept
    <3> QED BY <1>1, <1>2, <2>1, <3>1, <3>2, <3>3, <3>4, OwnKept DEF Fx!Over, Live
  <2> QED BY <1>9, <2>2, <2>3, <2>4, <2>5, <2>6 DEF Fx!Reading
<1>10. ASSUME NEW g \in Recs, Fx!Stop(g) \/ Fx!Joined(g) \/ Fx!Stopped(g) PROVE LossInv'
  <2>1. \/ phase[g] \in Live /\ phase'[g] \in Live \cup {"closing"}
        \/ phase[g] = "draining" /\ rest = <<>> /\ phase'[g] = "stopped"
    BY <1>1, <1>10 DEF Fx!Stop, Fx!Joined, Fx!Stopped, AdapterTypes, Live
  <2>2. \A h \in Recs : h # g => phase'[h] = phase[h]
    BY <1>1, <1>10 DEF Fx!Stop, Fx!Joined, Fx!Stopped, AdapterTypes
  <2>3. UNCHANGED <<heard, happened, buffer, rest, batch, emitted, failure>>
    BY <1>10 DEF Fx!Stop, Fx!Joined, Fx!Stopped
  <2> QED BY <1>1, <1>2, <1>3, <2>1, <2>2, <2>3, QuietKept
<1>11. ASSUME NEW g \in Recs, Fx!AgentStops(g) PROVE LossInv'
  <2>1. /\ rest' = buffer /\ phase[g] = "closing" /\ UNCHANGED <<batch, emitted, heard, happened>>
        /\ ~ failure
    BY <1>11, StopsBuffer DEF Fx!AgentStops
  <2>2. phase'[g] = "draining" /\ \A h \in Recs : h # g => phase'[h] = phase[h]
    BY <1>1, <1>11 DEF Fx!AgentStops, AdapterTypes
  <2>3. ASSUME NEW n \in Fx!Events, Kept(g, n), Dropped(g, n) => Dropped(g, n)' PROVE Kept(g, n)'
    BY <2>1, <2>2, <2>3 DEF Kept, Published
  <2>4. \A h \in Recs : \A n \in Fx!Events : Published(h, n) => Published(h, n)'
    BY <2>1 DEF Published
  <2> QED BY <1>1, <1>2, <2>1, <2>2, <2>3, <2>4, OwnKept DEF Fx!Over
<1>12. ASSUME NEW g \in Recs, Fx!StopFails(g) PROVE LossInv'
  <2>1. /\ phase[g] = "closing" /\ UNCHANGED <<batch, emitted, heard, happened>>
        /\ phase'[g] = "stop_failed" /\ \A h \in Recs : h # g => phase'[h] = phase[h]
    BY <1>1, <1>12 DEF Fx!StopFails, Fx!StopsRecording, AdapterTypes
  <2>2. \A h \in Recs : \A n \in Fx!Events : Published(h, n) => Published(h, n)'
    BY <2>1 DEF Published
  <2> QED BY <1>1, <1>2, <2>1, <2>2, OwnKept DEF Fx!Over
<1>13. ASSUME NEW g \in Recs, Fx!PublishRest(g) PROVE LossInv'
  <2>1. PICK m \in Fx!Events :
          /\ Fx!Publish(m, g) /\ Elements(rest) = {m} \cup Elements(rest')
          /\ UNCHANGED <<buffer, batch, heard, happened>> /\ phase[g] = "draining"
    BY <1>13, PublishesRest
  <2>2. UNCHANGED <<phase, failure>>
    BY <1>13 DEF Fx!PublishRest
  <2>3. /\ \A h \in Recs : \A n \in Fx!Events : Published(h, n) => Published(h, n)'
        /\ Published(g, m)'
    BY <1>1, <2>1, PublishedOne DEF HistoryTypes, Published
  <2>4. ASSUME NEW n \in Fx!Events, Kept(g, n), Dropped(g, n) => Dropped(g, n)' PROVE Kept(g, n)'
    BY <2>1, <2>2, <2>3, <2>4 DEF Kept
  <2> QED BY <1>1, <1>2, <2>1, <2>2, <2>3, <2>4, OwnKept DEF Fx!Over
<1>14. ASSUME NEW g \in Recs PROVE ~ Fx!RestRaises(g)
  BY DEF Fx!RestRaises
<1> QED BY <1>4, <1>5, <1>6, <1>7, <1>8, <1>9, <1>10, <1>11, <1>12, <1>13, <1>14
    DEF Fx!Next, Fx!Stopping, Recs

LEMMA FxKept == ASSUME FxInv, [Fx!Next]_Fx!vars PROVE FxInv'
<1>1. Fx!TypeOK' /\ PhaseInv' /\ PlaceInv' /\ faults' = faults
  <2>1. Fx!TypeOK /\ PhaseInv /\ PlaceInv /\ (offering => happened \in Fx!Events)
    BY DEF FxInv, PlaceInv
  <2> QED BY <2>1, FxTypesKept, PhasesKept, PlacesKept, SetupKept
<1>2. "slow" \notin faults => OrderInv' /\ HeardInv'
  BY OrderKept, HeardKept DEF FxInv
<1>3. faults = {} => LossInv'
  BY <1>1, LossKept DEF FxInv
<1> QED BY <1>1, <1>2, <1>3 DEF FxInv

LEMMA FxAlways == AdaptersSpec => [](part = "javafx" => FxInv)
<1> DEFINE Explained == part = "javafx" => FxInv
<1>1. AdaptersInit => Explained
  BY FxStarts DEF AdaptersInit
<1>2. Explained /\ [AdaptersNext]_all => Explained'
  <2> SUFFICES ASSUME Explained, [AdaptersNext]_all, part' = "javafx" PROVE FxInv'
    OBVIOUS
  <2>1. part = "javafx" /\ [Fx!Next]_Fx!vars
    BY DEF AdaptersNext, all, onlyFx, Fx!vars, Fx!setup, Fx!adapterVars, Fx!agentVars, Fx!fxVars
  <2> QED BY <2>1, FxKept
<1> QED BY <1>1, <1>2, PTL DEF AdaptersSpec

(* The count that JavaFxRecording speaks of.                               *)
LEMMA SameCount == \A S : Fx!Cardinality(S) = Cardinality(S)
BY DEF Fx!Cardinality, Cardinality

(* What the agent of a JavaFX application heard during a recording was     *)
(* published when its stop returned, unless at least a bufferful followed  *)
(* it, provided that no request and no reader misbehaves; nothing is       *)
(* published twice, and without an abandoned reader everything comes in    *)
(* the order it happened in and in the recording that heard it             *)
(* (RecordingBuffer.offer, _read_loop and stop of javafx.py).              *)
THEOREM PublishesWhatItHeard == AdaptersSpec => []PublishedAsHeard
<1> SUFFICES (part = "javafx" => FxInv) => PublishedAsHeard
  BY FxAlways, PTL
<1> SUFFICES ASSUME FxInv PROVE Fx!HeardIsPublished /\ Fx!PublishedInOrder
  BY DEF PublishedAsHeard
<1>1. Fx!HeardIsPublished
  <2>1. ASSUME faults = {}, NEW g \in Recs, phase[g] = "stopped", NEW n \in Fx!Events, heard[n] = g
        PROVE  Published(g, n) \/ Dropped(g, n)
    <3>1. Elements(batch[g]) = {}
      BY <2>1, Emptied DEF FxInv, PhaseInv, Silent, Live
    <3>2. Kept(g, n)
      BY <2>1 DEF FxInv, LossInv, Loss
    <3> QED BY <2>1, <3>1, <3>2 DEF Kept, Live
  <2>2. ASSUME NEW g \in Recs, NEW n \in Fx!Events, Published(g, n)
        PROVE  \E i \in Fx!InRecording(g) : emitted[i].of = n
    BY <2>2 DEF Published, Fx!InRecording
  <2>3. ASSUME NEW g \in Recs, NEW n \in Fx!Events, Dropped(g, n)
        PROVE  Fx!Cardinality({k \in n + 1 .. happened : heard[k] = g}) >= Limit /\ ~ tabs
    BY <2>3, SameCount DEF Dropped
  <2> QED BY <2>1, <2>2, <2>3, Zenon DEF Fx!HeardIsPublished, Recs
<1>2. Fx!PublishedInOrder
  BY DEF FxInv, PlaceInv, OrderInv, HeardInv, EmittedHeard, Fx!PublishedInOrder
<1> QED BY <1>1, <1>2

(* Nothing is published by an adapter whose stop returned, not even by a   *)
(* reader that outlived the join (_emit is reset by stop in javafx.py).    *)
THEOREM StopsFinally == AdaptersSpec => StopIsFinal
<1>1. ASSUME FxInv, [Fx!Next]_Fx!vars PROVE Fx!StoppedIsSilent
  <2>1. CASE emitted' = emitted
    BY <2>1 DEF Fx!StoppedIsSilent
  <2>2. ASSUME NEW n \in Fx!Events, NEW g \in Recs, Fx!Publish(n, g), phase[g] # "stopped"
        PROVE  Fx!StoppedIsSilent
    <3>1. emitted \in Seq([of : Fx!Events, during : Recs])
      BY <1>1, FxTypes DEF FxInv, HistoryTypes
    <3>2. \A i \in DOMAIN emitted' : i \in DOMAIN emitted \/ emitted'[i].during = g
      BY <2>2, <3>1, PublishedOne
    <3> QED BY <2>2, <3>2 DEF Fx!StoppedIsSilent
  <2>3. ASSUME NEW g \in Recs, Fx!PublishNext(g) PROVE Fx!StoppedIsSilent
    <3>1. phase[g] # "stopped"
      BY <1>1, <2>3 DEF FxInv, PhaseInv, Fx!PublishNext
    <3>2. \E n \in Fx!Events : Fx!Publish(n, g)
      BY <1>1, <2>3, PublishesNext DEF FxInv
    <3> QED BY <2>2, <3>1, <3>2
  <2>4. ASSUME NEW g \in Recs, Fx!PublishRest(g) PROVE Fx!StoppedIsSilent
    <3>1. phase[g] # "stopped"
      BY <2>4 DEF Fx!PublishRest
    <3>2. \E n \in Fx!Events : Fx!Publish(n, g)
      BY <1>1, <2>4, PublishesRest DEF FxInv
    <3> QED BY <2>2, <3>1, <3>2
  <2>5. CASE Fx!Happens \/ Fx!Offer \/ Fx!OfferTab
    BY <2>1, <2>5 DEF Fx!Happens, Fx!Offer, Fx!OfferTab
  <2>6. ASSUME NEW g \in Recs, Fx!AgentReads(g) \/ Fx!AgentStops(g) PROVE Fx!StoppedIsSilent
    BY <1>1, <2>1, <2>6, ReadsBuffer, StopsBuffer DEF FxInv
  <2>7. CASE Forgets
    BY <2>1, <2>7 DEF Forgets
  <2> QED BY <1>1, <2>3, <2>4, <2>5, <2>6, <2>7, OthersForget DEF FxInv, Hands
<1>2. (part = "javafx" => FxInv) /\ [AdaptersNext]_all => [part = "javafx" => Fx!StoppedIsSilent]_all
  <2> SUFFICES ASSUME part = "javafx", FxInv, [AdaptersNext]_all PROVE Fx!StoppedIsSilent
    OBVIOUS
  <2>1. [Fx!Next]_Fx!vars
    BY DEF AdaptersNext, all, onlyFx, Fx!vars, Fx!setup, Fx!adapterVars, Fx!agentVars, Fx!fxVars
  <2> QED BY <1>1, <2>1
<1> QED BY <1>2, FxAlways, PTL DEF AdaptersSpec, StopIsFinal
=============================================================================
