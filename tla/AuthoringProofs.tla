---------------------------- MODULE AuthoringProofs ----------------------------
(***************************************************************************)
(* Proofs about what records, edits and runs the artifacts of a project:   *)
(* each part of MCAuthoring has an inductive invariant over its own        *)
(* variables.                                                              *)
(***************************************************************************)
EXTENDS MCAuthoring, Integers, Sequences, SequenceTheorems, FiniteSetTheorems,
  WellFoundedInduction, TLAPS

-----------------------------------------------------------------------------
(* ArtifactEditing: nobody takes away what somebody else saved.            *)

Files == Editing!Files
Editors == Editing!Editors
At(w, place) == busy = Editing!Callback(w, place)

ShapeInv ==
  /\ files = [f \in Files |-> files[f]]
  /\ memory = [w \in Editors |-> memory[w]]
  /\ baseline = [w \in Editors |-> baseline[w]]
  /\ window = [w \in Editors |-> window[w]]
  /\ subject = [w \in Editors |-> subject[w]] /\ \A w \in Editors : subject[w].what # "closed"
  /\ publication = [replaced |-> publication.replaced, originals |-> publication.originals,
                    edit |-> publication.edit]
  /\ publication.originals = [f \in Files |-> publication.originals[f]]

(* What a window compares the file with is part of what it would save.     *)
LoadedInv ==
  \A w \in Editors :
    /\ window[w] = "closed" => baseline[w] = {}
    /\ baseline[w] \subseteq memory[w]

(* What a callback knows of the file it is about to replace.               *)
Knows(w) ==
  \/ At(w, "open") /\ memory[w] = files[Editing!FileOf(w)]
  \/ At(w, "save")
  \/ At(w, "replace") /\ baseline[w] = files[Editing!FileOf(w)]
  \/ At(w, "reread") /\ memory[w] = files[Editing!FileOf(w)]

(* A publication knows all of both files.                                  *)
Publishing(w) == At(w, "publish") \/ At(w, "rename")
Replacing(w) ==
  /\ Publishing(w)
  /\ \A f \in Files : files[f] = IF f \in publication.replaced THEN Editing!Proposed(w, f)
                                 ELSE publication.originals[f]

BusyInv ==
  \/ /\ publication.replaced = {}
     /\ \/ Editing!Between
        \/ busy = Editing!Review /\ publication.originals["repository"] = files["repository"]
        \/ \E w \in Editors : window[w] # "closed" /\ Knows(w)
  \/ \E w \in Editors : window[w] # "closed" /\ Replacing(w)

EditInv == ShapeInv /\ LoadedInv /\ BusyInv

(* Between two callbacks no publication is half done.                      *)
LoopInv == ShapeInv /\ (Editing!Between => publication.replaced = {})

LEMMA EditStart == Editing!Init => EditInv
<1> SUFFICES ASSUME Editing!Init PROVE EditInv
  OBVIOUS
<1> USE DEF Editing!Init, Files, Editors
<1>1. ShapeInv
  BY DEF ShapeInv, Editing!NoPublication, Editing!NoSubject, Editing!Files
<1>2. LoadedInv
  BY DEF LoadedInv
<1>3. BusyInv
  BY DEF BusyInv, Editing!NoPublication, Editing!Between
<1> QED BY <1>1, <1>2, <1>3 DEF EditInv

(* Steps of the main loop that leave the files and the fingerprints alone: *)
(* they add to what a window has in memory, and start a callback at most.  *)
OnlyEdits ==
  /\ Editing!Between
  /\ files' = files /\ baseline' = baseline
  /\ memory' = [w \in Editors |-> memory'[w]] /\ \A w \in Editors : memory[w] \subseteq memory'[w]
  /\ window' = [w \in Editors |-> window'[w]]
  /\ \A w \in Editors : window'[w] = "closed" => window[w] = "closed"
  /\ subject' = [w \in Editors |-> subject'[w]] /\ \A w \in Editors : subject'[w].what # "closed"
  /\ publication' = [replaced |-> {}, originals |-> publication'.originals, edit |-> publication'.edit]
  /\ publication'.originals = [f \in Files |-> publication'.originals[f]]
  /\ \/ busy' = busy
     \/ \E w \in Editors :
          /\ window'[w] # "closed"
          /\ \/ busy' = Editing!Callback(w, "save")
             \/ /\ busy' = Editing!Callback(w, "publish")
                /\ \A f \in Files : files[f] = publication'.originals[f]

(* What happens between the callbacks finds the loop.                      *)
LEMMA InLoop ==
  ASSUME EditInv
  PROVE  LoopInv
BY DEF EditInv, LoopInv, BusyInv, Editing!Between, Editing!Callback, Replacing, Publishing, At

LEMMA EditsShape ==
  ASSUME ShapeInv, OnlyEdits
  PROVE  ShapeInv'
BY DEF ShapeInv, OnlyEdits

LEMMA EditsKeep ==
  ASSUME EditInv, OnlyEdits
  PROVE  EditInv' /\ Editing!NothingSavedIsLost
<1> USE DEF EditInv, OnlyEdits
<1>1. ShapeInv'
  BY EditsShape
<1>2. LoadedInv'
  BY DEF LoadedInv
<1>3. BusyInv'
  <2>1. CASE busy' = busy
    BY <2>1 DEF BusyInv, Editing!Between
  <2>2. ASSUME NEW w \in Editors, window'[w] # "closed", busy' = Editing!Callback(w, "save")
        PROVE  BusyInv'
    BY <2>2 DEF BusyInv, Knows, At
  <2>3. ASSUME NEW w \in Editors, window'[w] # "closed", busy' = Editing!Callback(w, "publish"),
               \A f \in Files : files[f] = publication'.originals[f]
        PROVE  BusyInv'
    BY <2>3 DEF BusyInv, Replacing, Publishing, At
  <2> QED BY <2>1, <2>2, <2>3
<1>4. Editing!NothingSavedIsLost
  BY DEF Editing!NothingSavedIsLost
<1> QED BY <1>1, <1>2, <1>3, <1>4

LEMMA EditingOnlyEdits ==
  ASSUME LoopInv, NEW w \in Editors, Editing!Editing(w)
  PROVE  OnlyEdits
<1> USE DEF LoopInv, ShapeInv, OnlyEdits, Editors, Editing!Free, Editing!Top, Editing!NoSubject
<1>1. CASE Editing!EditPlan(w)
  BY <1>1 DEF Editing!EditPlan
<1>2. ASSUME NEW o \in Objects, Editing!Type(w, o)
      PROVE  OnlyEdits
  BY <1>2 DEF Editing!Type, Editing!documents, Editing!ghosts
<1>3. ASSUME NEW o \in Objects, Editing!Reparent(w, o)
      PROVE  OnlyEdits
  BY <1>3 DEF Editing!Reparent
<1>4. ASSUME NEW o \in Objects, NEW what \in {"naming", "reviewing", "deleting"},
             Editing!Begin(w, o, what)
      PROVE  OnlyEdits
  BY <1>4 DEF Editing!Begin, Editing!documents, Editing!ghosts
<1>5. CASE Editing!Captured(w)
  BY <1>5 DEF Editing!Captured, Editing!documents, Editing!ghosts
<1>6. CASE Editing!CaptureFails(w)
  BY <1>6 DEF Editing!CaptureFails, Editing!documents, Editing!ghosts
<1>7. CASE Editing!Discard(w)
  BY <1>7 DEF Editing!Discard, Editing!Idle, Editing!documents, Editing!ghosts, Editing!NoPublication, Files
<1>8. CASE Editing!Accept(w)
  BY <1>8 DEF Editing!Accept, Editing!Idle
<1> QED BY <1>1, <1>2, <1>3, <1>4, <1>5, <1>6, <1>7, <1>8 DEF Editing!Editing

LEMMA ReadyOnlyEdits ==
  ASSUME LoopInv, NEW w \in Editors, Editing!ContextReady(w)
  PROVE  OnlyEdits
BY DEF LoopInv, ShapeInv, OnlyEdits, Editors, Editing!ContextReady, Editing!documents

LEMMA SaveOnlyEdits ==
  ASSUME LoopInv, NEW w \in Editors, Editing!Save(w)
  PROVE  OnlyEdits
<1>1. window[w] = "idle" /\ window' = window /\ subject' = subject
  BY DEF Editing!Save, Editing!Free
<1>2. busy' = busy \/ busy' = Editing!Callback(w, "save")
  BY DEF Editing!Save
<1>3. PICK new : memory' = [memory EXCEPT ![w] = @ \cup new]
  BY DEF Editing!Save
<1>4. Editing!Between /\ UNCHANGED <<files, baseline, publication>>
  BY DEF Editing!Save, Editing!Free
<1> QED BY <1>1, <1>2, <1>3, <1>4 DEF LoopInv, ShapeInv, OnlyEdits, Editors

LEMMA MigrateOnlyEdits ==
  ASSUME LoopInv, NEW w \in Editors, Editing!Migrate(w)
  PROVE  OnlyEdits
BY DEF LoopInv, ShapeInv, OnlyEdits, Editors, Files, Editing!Files, Editing!Migrate, Editing!Free,
  Editing!documents

LEMMA ConfirmOnlyEdits ==
  ASSUME LoopInv, NEW w \in Editors, Editing!Confirm(w)
  PROVE  OnlyEdits
<1> USE DEF LoopInv, ShapeInv
<1>1. /\ Editing!Between /\ UNCHANGED <<files, memory, baseline>>
      /\ window' = [window EXCEPT ![w] = "idle"] /\ subject' = [subject EXCEPT ![w] = Editing!NoSubject]
  BY DEF Editing!Confirm, Editing!Top, Editing!Idle, Editing!documents
<1>2. CASE Editing!Unmoved
  <2>1. busy' = Editing!Callback(w, "publish") /\ publication' = publication
    BY <1>2 DEF Editing!Confirm
  <2>2. \A f \in Files : files[f] = publication'.originals[f]
    BY <1>2, <2>1 DEF Editing!Unmoved, Files
  <2>3. window'[w] # "closed"
    BY <1>1
  <2> QED BY <1>1, <2>1, <2>2, <2>3 DEF OnlyEdits, Editors, Editing!NoSubject
<1>3. CASE ~ Editing!Unmoved
  <2>1. busy' = busy /\ publication' = Editing!NoPublication
    BY <1>3 DEF Editing!Confirm
  <2> QED BY <1>1, <2>1 DEF OnlyEdits, Editors, Files, Editing!NoSubject, Editing!NoPublication
<1> QED BY <1>2, <1>3

-----------------------------------------------------------------------------
(* Opening, closing and saving a window.                                   *)

Kept == EditInv' /\ Editing!NothingSavedIsLost

LEMMA OpeningKeeps ==
  ASSUME EditInv, NEW w \in Editors,
         Editing!OpenLoad(w) \/ Editing!OpenFingerprint(w) \/ Editing!Close(w)
  PROVE  Kept
<1> USE DEF EditInv
<1>1. ShapeInv'
  BY DEF ShapeInv, Editing!OpenLoad, Editing!OpenFingerprint, Editing!Close
<1>2. files' = files /\ publication' = publication
  BY DEF Editing!OpenLoad, Editing!OpenFingerprint, Editing!Close
<1>3. CASE Editing!OpenLoad(w)
  <2>1. LoadedInv'
    BY <1>3 DEF LoadedInv, ShapeInv, Editing!OpenLoad
  <2>2. publication.replaced = {}
    BY <1>3, InLoop DEF Editing!OpenLoad, LoopInv
  <2>3. At(w, "open")' /\ window'[w] # "closed" /\ memory'[w] = files[Editing!FileOf(w)]
    BY <1>3 DEF At, ShapeInv, Editing!OpenLoad
  <2>4. BusyInv'
    BY <2>2, <2>3, <1>2 DEF BusyInv, Knows
  <2> QED BY <1>1, <1>2, <2>1, <2>4 DEF Kept, Editing!NothingSavedIsLost
<1>4. CASE Editing!OpenFingerprint(w)
  <2>1. publication.replaced = {} /\ window[w] # "closed" /\ memory[w] = files[Editing!FileOf(w)]
    BY <1>4 DEF BusyInv, Knows, Replacing, Publishing, At, Editing!OpenFingerprint, Editing!Between, Editing!Review,
      Editing!Callback
  <2>2. LoadedInv'
    BY <1>4, <2>1 DEF LoadedInv, ShapeInv, Editing!OpenFingerprint
  <2>3. BusyInv'
    BY <1>4, <2>1, <1>2 DEF BusyInv, Editing!OpenFingerprint, Editing!Between
  <2> QED BY <1>1, <1>2, <2>2, <2>3 DEF Kept, Editing!NothingSavedIsLost
<1>5. CASE Editing!Close(w)
  <2>1. LoadedInv'
    BY <1>5 DEF LoadedInv, ShapeInv, Editing!Close
  <2>2. BusyInv'
    BY <1>5, InLoop, <1>2 DEF BusyInv, Editing!Close, Editing!Between, LoopInv
  <2> QED BY <1>1, <1>2, <2>1, <2>2 DEF Kept, Editing!NothingSavedIsLost
<1> QED BY <1>3, <1>4, <1>5

LEMMA SavingKeeps ==
  ASSUME EditInv, NEW w \in Editors,
         Editing!Compare(w) \/ Editing!Replace(w) \/ Editing!WriteFails(w) \/ Editing!Reread(w)
  PROVE  Kept
<1> USE DEF EditInv
<1>1. ShapeInv'
  BY DEF ShapeInv, Editing!Compare, Editing!Replace, Editing!WriteFails, Editing!Reread, Editing!documents
<1>2. publication' = publication /\ memory' = memory /\ window' = window
  BY DEF Editing!Compare, Editing!Replace, Editing!WriteFails, Editing!Reread, Editing!documents
<1>3. publication.replaced = {} /\ window[w] # "closed" /\ Knows(w)
  BY DEF BusyInv, Knows, Replacing, Publishing, At, Editing!Between, Editing!Review, Editing!Callback,
    Editing!Compare, Editing!Replace, Editing!WriteFails, Editing!Reread
<1>4. CASE Editing!Compare(w) \/ Editing!WriteFails(w)
  <2>1. files' = files /\ baseline' = baseline
    BY <1>4 DEF Editing!Compare, Editing!WriteFails, Editing!documents
  <2>2. LoadedInv'
    BY <1>2, <2>1 DEF LoadedInv
  <2>3. BusyInv'
    BY <1>4, <1>2, <1>3, <2>1 DEF BusyInv, Knows, At, Editing!Compare, Editing!WriteFails, Editing!Done,
      Editing!Between
  <2> QED BY <1>1, <2>1, <2>2, <2>3 DEF Kept, Editing!NothingSavedIsLost
<1>5. CASE Editing!Replace(w)
  <2>1. baseline' = baseline /\ baseline[w] = files[Editing!FileOf(w)]
    BY <1>3, <1>5 DEF Knows, At, Editing!Replace, Editing!documents, Editing!Callback
  <2>2. LoadedInv'
    BY <1>2, <2>1 DEF LoadedInv
  <2>3. At(w, "reread")' /\ memory'[w] = files'[Editing!FileOf(w)]
    BY <1>5, <1>2 DEF At, ShapeInv, Editing!Replace, Editing!FileOf, Files, Editing!Files
  <2>4. BusyInv'
    BY <1>2, <1>3, <2>3 DEF BusyInv, Knows
  <2>5. Editing!NothingSavedIsLost
    BY <1>5, <2>1 DEF Editing!NothingSavedIsLost, LoadedInv, ShapeInv, Editing!Replace, Files
  <2> QED BY <1>1, <2>2, <2>4, <2>5 DEF Kept
<1>6. CASE Editing!Reread(w)
  <2>1. files' = files /\ memory[w] = files[Editing!FileOf(w)]
    BY <1>3, <1>6 DEF Knows, At, Editing!Reread, Editing!Callback
  <2>2. LoadedInv'
    BY <1>2, <1>3, <1>6, <2>1 DEF LoadedInv, ShapeInv, Editing!Reread
  <2>3. BusyInv'
    BY <1>6, <1>2, <1>3 DEF BusyInv, Editing!Reread, Editing!Done, Editing!Between
  <2> QED BY <1>1, <2>1, <2>2, <2>3 DEF Kept, Editing!NothingSavedIsLost
<1> QED BY <1>4, <1>5, <1>6

-----------------------------------------------------------------------------
(* The review of a recording, another process, and a publication.          *)

LEMMA ReviewKeeps ==
  ASSUME EditInv, Editing!ReviewLoads \/ Editing!ReviewSaves
  PROVE  Kept
<1> USE DEF EditInv
<1>1. memory' = memory /\ baseline' = baseline /\ window' = window /\ subject' = subject
  BY DEF Editing!ReviewLoads, Editing!ReviewSaves, Editing!documents
<1>2. LoadedInv'
  BY <1>1 DEF LoadedInv
<1>3. CASE Editing!ReviewLoads
  <2>1. files' = files /\ publication.replaced = {}
    BY <1>3, InLoop DEF Editing!ReviewLoads, LoopInv
  <2>2. publication' = [publication EXCEPT !.originals["repository"] = files["repository"]]
    BY <1>3 DEF Editing!ReviewLoads
  <2>3. ShapeInv' /\ publication'.replaced = {}
        /\ publication'.originals["repository"] = files["repository"]
    BY <1>1, <2>1, <2>2 DEF ShapeInv, Files, Editing!Files
  <2>4. BusyInv'
    BY <1>3, <2>1, <2>3 DEF BusyInv, Editing!ReviewLoads
  <2> QED BY <1>2, <2>1, <2>3, <2>4 DEF Kept, Editing!NothingSavedIsLost
<1>4. CASE Editing!ReviewSaves
  <2>1. publication.originals["repository"] = files["repository"]
    BY <1>4 DEF BusyInv, Knows, Replacing, Publishing, At, Editing!Between, Editing!Review, Editing!Callback,
      Editing!ReviewSaves
  <2>2. PICK o \in Objects :
          files' = [files EXCEPT !["repository"] = publication.originals["repository"]
                                                     \cup {<<o, Editing!Fresh>>}]
    BY <1>4 DEF Editing!ReviewSaves
  <2>3. ShapeInv' /\ publication'.replaced = {}
    BY <1>1, <1>4, <2>2 DEF ShapeInv, Editing!ReviewSaves, Editing!NoPublication, Files
  <2>4. BusyInv'
    BY <1>4, <2>3 DEF BusyInv, Editing!ReviewSaves, Editing!Between
  <2>5. Editing!NothingSavedIsLost
    BY <2>1, <2>2 DEF Editing!NothingSavedIsLost, ShapeInv, Files
  <2> QED BY <1>2, <2>3, <2>4, <2>5 DEF Kept
<1> QED BY <1>3, <1>4

LEMMA ForeignKeeps ==
  ASSUME EditInv, gaps \subseteq {"save"}, NEW f \in Files, Editing!Foreign(f)
  PROVE  Kept
<1> USE DEF EditInv
<1>1. /\ memory' = memory /\ baseline' = baseline /\ window' = window /\ subject' = subject
      /\ publication' = publication /\ busy' = busy
  BY DEF Editing!Foreign, Editing!documents
<1>2. PICK p : files' = [files EXCEPT ![f] = @ \cup {p}]
  BY DEF Editing!Foreign
<1>3. ShapeInv' /\ LoadedInv'
  BY <1>1, <1>2 DEF ShapeInv, LoadedInv
<1>4. Editing!Between \/ busy.at = "save"
  BY DEF Editing!Foreign
<1>5. publication.replaced = {} /\ (Editing!Between \/ \E w \in Editors : window[w] # "closed" /\ At(w, "save"))
  BY <1>4 DEF BusyInv, Knows, Replacing, Publishing, At, Editing!Between, Editing!Review, Editing!Callback
<1>6. BusyInv'
  BY <1>1, <1>5 DEF BusyInv, Knows, At, Editing!Between
<1>7. Editing!NothingSavedIsLost
  BY <1>2 DEF Editing!NothingSavedIsLost, ShapeInv, Files
<1> QED BY <1>3, <1>6, <1>7 DEF Kept

LEMMA PublishingKeeps ==
  ASSUME EditInv, NEW w \in Editors,
         \/ Editing!Recheck(w) \/ Editing!RollBack(w) \/ Editing!Published(w)
         \/ \E f \in Editing!Files : Editing!Publish(w, f)
  PROVE  Kept
<1> USE DEF EditInv
<1>1. window' = window /\ subject' = subject
  BY DEF Editing!Recheck, Editing!RollBack, Editing!Published, Editing!Publish
<1>2. Replacing(w) /\ window[w] # "closed"
  BY DEF BusyInv, Knows, Replacing, Publishing, At, Editing!Between, Editing!Review, Editing!Callback,
    Editing!Recheck, Editing!RollBack, Editing!Published, Editing!Publish
<1>3. \A f \in Files : \A p \in Editing!Proposed(w, f) \ publication.originals[f] : p[2] = publication.edit
  BY DEF Editing!Proposed
<1>4. CASE Editing!RollBack(w)
  <2>1. memory' = memory /\ baseline' = baseline
    BY <1>4 DEF Editing!RollBack, Editing!documents
  <2>2. ShapeInv' /\ LoadedInv'
    BY <1>1, <1>4, <2>1 DEF ShapeInv, LoadedInv, Editing!RollBack, Editing!NoPublication, Files
  <2>3. BusyInv'
    BY <1>4 DEF BusyInv, Editing!RollBack, Editing!NoPublication, Editing!Done, Editing!Between
  <2>4. Editing!NothingSavedIsLost
    BY <1>2, <1>3, <1>4 DEF Editing!NothingSavedIsLost, Replacing, Editing!RollBack, Files
  <2> QED BY <2>2, <2>3, <2>4 DEF Kept
<1>5. CASE Editing!Published(w)
  <2>1. files' = files /\ files["plan"] = Editing!Proposed(w, "plan")
    BY <1>2, <1>5 DEF Replacing, Editing!Published, Files, Editing!Files
  <2>2. ShapeInv'
    BY <1>1, <1>5 DEF ShapeInv, Editing!Published, Editing!NoPublication, Files
  <2>3. LoadedInv'
    BY <1>1, <1>2, <1>5, <2>1 DEF ShapeInv, LoadedInv, Editing!Published
  <2>4. BusyInv'
    BY <1>5 DEF BusyInv, Editing!Published, Editing!NoPublication, Editing!Done, Editing!Between
  <2> QED BY <2>1, <2>2, <2>3, <2>4 DEF Kept, Editing!NothingSavedIsLost
<1>6. ASSUME NEW f \in Files, Editing!Publish(w, f)
      PROVE  Kept
  <2>1. memory' = memory /\ baseline' = baseline /\ At(w, "publish")'
    BY <1>6 DEF Editing!Publish, Editing!documents, At
  <2>2. /\ files' = [files EXCEPT ![f] = Editing!Proposed(w, f)] /\ files[f] = publication.originals[f]
        /\ publication' = [publication EXCEPT !.replaced = @ \cup {f}]
    BY <1>2, <1>6 DEF Editing!Publish, Editing!Due, Replacing
  <2>3. ShapeInv' /\ LoadedInv'
    BY <1>1, <2>1, <2>2 DEF ShapeInv, LoadedInv
  <2>4. \A g \in Files : Editing!Proposed(w, g)' = Editing!Proposed(w, g)
    BY <2>2 DEF Editing!Proposed, ShapeInv
  <2>5. Replacing(w)'
    BY <1>2, <2>1, <2>2, <2>4 DEF Replacing, Publishing, ShapeInv
  <2>6. BusyInv'
    BY <1>1, <1>2, <2>5 DEF BusyInv
  <2>7. Editing!NothingSavedIsLost
    BY <2>2 DEF Editing!NothingSavedIsLost, Editing!Proposed, ShapeInv, Files
  <2> QED BY <2>3, <2>6, <2>7 DEF Kept
<1>7. CASE Editing!Recheck(w)
  <2>1. UNCHANGED <<files, memory, baseline, publication>> /\ At(w, "rename")'
    BY <1>7 DEF Editing!Recheck, Editing!documents, At
  <2>2. ShapeInv' /\ LoadedInv'
    BY <1>1, <2>1 DEF ShapeInv, LoadedInv
  <2>3. Replacing(w)'
    BY <1>2, <2>1 DEF Replacing, Publishing, Editing!Proposed
  <2>4. BusyInv'
    BY <1>1, <1>2, <2>3 DEF BusyInv
  <2> QED BY <2>1, <2>2, <2>4 DEF Kept, Editing!NothingSavedIsLost
<1> QED BY <1>4, <1>5, <1>6, <1>7 DEF Files

-----------------------------------------------------------------------------
LEMMA EditNext ==
  ASSUME EditInv, gaps \subseteq {"save"}, Editing!Next
  PROVE  Kept
<1>1. ASSUME NEW w \in Editors,
             \/ Editing!Editing(w) \/ Editing!ContextReady(w) \/ Editing!Save(w) \/ Editing!Migrate(w)
             \/ Editing!Confirm(w)
      PROVE  Kept
  BY <1>1, InLoop, EditingOnlyEdits, ReadyOnlyEdits, SaveOnlyEdits, MigrateOnlyEdits, ConfirmOnlyEdits,
    EditsKeep DEF Kept
<1>2. ASSUME NEW w \in Editors,
             Editing!OpenLoad(w) \/ Editing!OpenFingerprint(w) \/ Editing!Close(w)
      PROVE  Kept
  BY <1>2, OpeningKeeps
<1>3. ASSUME NEW w \in Editors, Editing!Saving(w)
      PROVE  Kept
  BY <1>1, <1>3, SavingKeeps DEF Editing!Saving
<1>4. ASSUME NEW w \in Editors, Editing!Migrating(w)
      PROVE  Kept
  BY <1>1, <1>4, PublishingKeeps DEF Editing!Migrating
<1>5. ASSUME NEW f \in Files, Editing!Foreign(f)
      PROVE  Kept
  BY <1>5, ForeignKeeps
<1> QED BY <1>1, <1>2, <1>3, <1>4, <1>5, ReviewKeeps DEF Editing!Next, Editors, Files

(* A step of another part, and no step at all, leave the files alone.      *)
LEMMA EditStutter ==
  ASSUME EditInv, UNCHANGED Editing!vars
  PROVE  Kept
<1>1. /\ UNCHANGED <<files, window, subject, memory, baseline>>
      /\ UNCHANGED <<busy, publication>>
  BY DEF Editing!vars, Editing!documents
<1>2. ShapeInv' /\ LoadedInv'
  BY <1>1 DEF EditInv, ShapeInv, LoadedInv
<1>3. \A w \in Editors : /\ Knows(w)' <=> Knows(w)
                         /\ Replacing(w)' <=> Replacing(w)
  BY <1>1 DEF Knows, Replacing, Publishing, At, Editing!Proposed
<1>4. BusyInv'
  BY <1>1, <1>3 DEF EditInv, BusyInv, Editing!Between
<1>5. Editing!NothingSavedIsLost
  BY <1>1 DEF Editing!NothingSavedIsLost
<1> QED BY <1>2, <1>4, <1>5 DEF Kept, EditInv

(* Nobody takes away what somebody else saved: an edit leaves a file only  *)
(* with the publication that brought it and is rolled back (see            *)
(* ArtifactEditing). It is a property of the behaviours in which another   *)
(* process saves between two callbacks or while a window applies what was  *)
(* typed, and not between a comparison and the replacement after it,       *)
(* between a load and its fingerprint or inside a publication.             *)
THEOREM SavedEditsStay == Spec => SavedStays
<1> DEFINE EInv == part = "editing" /\ gaps \subseteq {"save"} => EditInv
<1>1. Init => EInv
  BY EditStart DEF Init
<1>2. ASSUME EInv, [Next]_vars
      PROVE  EInv' /\ [part = "editing" => Editing!NothingSavedIsLost]_vars
  <2>0. part = "editing" /\ ~ (gaps \subseteq {"save"}) => Editing!NothingSavedIsLost
    BY DEF Editing!NothingSavedIsLost
  <2>1. CASE vars' = vars
    <3>1. part' = part /\ gaps' = gaps /\ UNCHANGED Editing!vars
      BY <2>1 DEF vars, onlyEditing, Editing!vars, Editing!ghosts, Editing!documents
    <3> QED BY <1>2, <2>1, <3>1, EditStutter DEF Kept
  <2>2. CASE Next
    <3>1. part' = part /\ (part = "editing" => Editing!Next /\ gaps' = gaps)
      BY <2>2 DEF Next, Editing!Next
    <3> QED BY <1>2, <2>0, <3>1, EditNext DEF Kept
  <2> QED BY <1>2, <2>1, <2>2
<1> QED BY <1>1, <1>2, PTL DEF Spec, SavedStays

-----------------------------------------------------------------------------
(* ArtifactEditing: a migration reaches both files or none, wherever other *)
(* processes save. Every document is told from its edits, which are        *)
(* numbered in the order they were made.                                   *)

Things == Objects \cup {Editing!Steps}

NumberInv ==
  /\ edits \in Nat /\ migrations \subseteq 1 .. edits
  /\ typed \in [Editors -> [Things -> -1 .. edits]]
  /\ \A f \in Files : \A p \in files[f] \cup publication.originals[f] : p[2] \in 0 .. edits
  /\ \A w \in Editors : \A p \in memory[w] \cup baseline[w] : p[2] \in 0 .. edits
  /\ publication.edit \in 0 .. edits

SameMigrations(c, d) == \A p : p[2] \in migrations => (p \in c <=> p \in d)

Together(documents) ==
  \A e \in migrations :
    (\E o \in Objects : <<o, e>> \in documents["repository"]) <=> <<Editing!Steps, e>> \in documents["plan"]

(* The migrations a window holds are those of what it compares with.       *)
OwnEditsInv ==
  /\ \A w \in Editors : \A o \in Things : typed[w][o] \notin migrations
  /\ \A w \in Editors : ~ At(w, "open") => SameMigrations(memory[w], baseline[w])

(* Whoever saves inside a callback, its file keeps the migrations the      *)
(* callback has found in it.                                               *)
FoundInv ==
  /\ \A w \in Editors :
       /\ At(w, "open") \/ At(w, "reread") => SameMigrations(memory[w], files[Editing!FileOf(w)])
       /\ At(w, "replace") => SameMigrations(baseline[w], files[Editing!FileOf(w)])
  /\ busy = Editing!Review => SameMigrations(publication.originals["repository"], files["repository"])

Half(w, f) == IF f \in publication.replaced THEN Editing!Proposed(w, f) ELSE publication.originals[f]
HalfInv ==
  /\ busy.at \notin {"publish", "rename"} => publication.replaced = {}
  /\ \A w \in Editors : Publishing(w) => \A f \in Files : SameMigrations(files[f], Half(w, f))

WholeInv ==
  IF busy.at \in {"publish", "rename"} THEN Together(publication.originals) ELSE Together(files)

MigrationInv == ShapeInv /\ NumberInv /\ OwnEditsInv /\ FoundInv /\ HalfInv /\ WholeInv

LEMMA SameTogether ==
  ASSUME NEW c, NEW d, \A f \in Files : SameMigrations(c[f], d[f]), Together(c)
  PROVE  Together(d)
<1>1. ASSUME NEW f \in Files, NEW o, NEW e \in migrations
      PROVE  <<o, e>> \in c[f] <=> <<o, e>> \in d[f]
  <2>1. <<o, e>>[2] = e
    OBVIOUS
  <2> QED BY <2>1 DEF SameMigrations
<1>2. "repository" \in Files /\ "plan" \in Files
  BY DEF Files, Editing!Files
<1>3. SUFFICES ASSUME NEW e \in migrations
               PROVE  (\E o \in Objects : <<o, e>> \in d["repository"]) <=> <<Editing!Steps, e>> \in d["plan"]
  BY DEF Together
<1>4. (\E o \in Objects : <<o, e>> \in c["repository"]) <=> <<Editing!Steps, e>> \in c["plan"]
  BY DEF Together
<1> QED BY <1>1, <1>2, <1>4

LEMMA MigrationInLoop == MigrationInv => LoopInv
BY DEF MigrationInv, HalfInv, LoopInv, Editing!Between, Editing!Callback

LEMMA MigrationStart == Editing!Init => MigrationInv
<1> SUFFICES ASSUME Editing!Init PROVE MigrationInv
  OBVIOUS
<1>0. ShapeInv
  BY EditStart DEF EditInv
<1> USE DEF Editing!Init, Files, Editors, Editing!Files
<1>1. edits = 0 /\ migrations = {} /\ busy.at = "loop" /\ publication = Editing!NoPublication
  BY DEF Editing!Callback
<1>2. \A p \in (Objects \ NewObjects) \X {Editing!NoEdit} : p[2] = 0
  BY DEF Editing!NoEdit
<1>3. \A f \in Files : \A p \in files[f] : p[2] \in 0 .. 0
  BY <1>2 DEF Editing!NoEdit
<1>4. typed \in [Editors -> [Things -> -1 .. 0]]
  BY DEF Editing!Untyped, Editing!Form, Editing!NoEdit, Things
<1>5. NumberInv
  BY <1>1, <1>3, <1>4 DEF NumberInv, Editing!NoPublication, Editing!NoEdit
<1>6. OwnEditsInv /\ FoundInv
  BY <1>1 DEF OwnEditsInv, FoundInv, SameMigrations
<1>7. HalfInv
  BY <1>1 DEF HalfInv, SameMigrations, Editing!NoPublication
<1>8. WholeInv
  BY <1>1 DEF WholeInv, Together
<1> QED BY <1>0, <1>5, <1>6, <1>7, <1>8 DEF MigrationInv

(* What an edit of a window adds is its own, and not a migration.          *)
Adds ==
  /\ edits' \in {edits, edits + 1} /\ migrations' = migrations
  /\ \A w \in Editors : \A p \in memory'[w] \ memory[w] : p[2] \in 0 .. edits' /\ p[2] \notin migrations
  /\ typed' \in [Editors -> [Things -> -1 .. edits']]
  /\ \A w \in Editors : \A o \in Things : typed'[w][o] \notin migrations
  /\ publication' \in {publication, Editing!NoPublication}

LEMMA AddsKeep ==
  ASSUME MigrationInv, OnlyEdits, Adds
  PROVE  MigrationInv'
<1> USE DEF OnlyEdits, Adds
<1>1. 0 .. edits \subseteq 0 .. edits' /\ 1 .. edits \subseteq 1 .. edits' /\ edits' \in Nat
  BY DEF MigrationInv, NumberInv
<1>2. NumberInv'
  <2>1. \A f \in Files : \A p \in files'[f] \cup publication'.originals[f] : p[2] \in 0 .. edits'
    BY <1>1 DEF MigrationInv, NumberInv, Editing!NoPublication, Files
  <2>2. \A w \in Editors : \A p \in memory'[w] \cup baseline'[w] : p[2] \in 0 .. edits'
    BY <1>1 DEF MigrationInv, NumberInv
  <2>3. publication'.edit \in 0 .. edits'
    BY <1>1 DEF MigrationInv, NumberInv, Editing!NoPublication, Editing!NoEdit
  <2>4. edits' \in Nat /\ migrations' \subseteq 1 .. edits'
    BY <1>1 DEF MigrationInv, NumberInv
  <2> QED BY <2>1, <2>2, <2>3, <2>4 DEF NumberInv
<1>3. OwnEditsInv'
  BY DEF MigrationInv, OwnEditsInv, SameMigrations, At, Editing!Between, Editing!Callback
<1>4. FoundInv'
  BY DEF FoundInv, At, Editing!Between, Editing!Callback, Editing!Review
<1>5. HalfInv'
  BY DEF HalfInv, Half, SameMigrations, Publishing, At, Editing!Between, Editing!Callback
<1>6. WholeInv'
  <2>1. Together(files)
    BY DEF MigrationInv, WholeInv, Editing!Between, Editing!Callback
  <2>2. CASE busy'.at \notin {"publish", "rename"}
    BY <2>1, <2>2 DEF WholeInv, Together
  <2>3. CASE busy'.at \in {"publish", "rename"}
    <3>1. \A f \in Files : files[f] = publication'.originals[f]
      BY <2>3 DEF Editing!Between, Editing!Callback
    <3> QED BY <2>1, <2>3, <3>1 DEF WholeInv, Together, Files, Editing!Files
  <2> QED BY <2>2, <2>3
<1>7. ShapeInv'
  BY EditsShape DEF MigrationInv
<1> QED BY <1>2, <1>3, <1>4, <1>5, <1>6, <1>7 DEF MigrationInv

LEMMA EditingAdds ==
  ASSUME MigrationInv, NEW w \in Editors, Editing!Editing(w)
  PROVE  Adds
<1> USE DEF Adds, ShapeInv, MigrationInv, NumberInv, OwnEditsInv
<1>0. /\ edits + 1 \notin migrations /\ edits + 1 \in 0 .. edits + 1
      /\ -1 \notin migrations /\ 0 \notin migrations
      /\ -1 .. edits \subseteq -1 .. edits + 1
      /\ -1 \in -1 .. edits + 1 /\ 0 \in -1 .. edits + 1
  OBVIOUS
<1>1. CASE Editing!EditPlan(w)
  BY <1>0, <1>1 DEF Editing!EditPlan, Editing!ghosts, Editing!Fresh
<1>2. ASSUME NEW o \in Objects, Editing!Type(w, o)
      PROVE  Adds
  <2>1. /\ edits' = edits + 1 /\ UNCHANGED <<migrations, memory, publication>>
        /\ typed' = [typed EXCEPT ![w][o] = edits + 1]
    BY <1>2 DEF Editing!Type, Editing!documents, Editing!ghosts, Editing!Fresh
  <2>2. typed' \in [Editors -> [Things -> -1 .. edits']]
    <3>1. edits + 1 \in -1 .. edits' /\ -1 .. edits \subseteq -1 .. edits'
      BY <1>0, <2>1
    <3>2. typed \in [Editors -> [Things -> -1 .. edits']]
      BY <3>1
    <3> QED BY <2>1, <3>1, <3>2
  <2>3. \A v \in Editors : \A x \in Things : typed'[v][x] \in {typed[v][x], edits + 1}
    BY <2>1
  <2> QED BY <1>0, <2>1, <2>2, <2>3
<1>3. ASSUME NEW o \in Objects, Editing!Reparent(w, o)
      PROVE  Adds
  BY <1>0, <1>3 DEF Editing!Reparent, Editing!ghosts, Editing!Fresh
<1>4. ASSUME NEW o \in Objects, NEW what \in {"naming", "reviewing", "deleting"},
             Editing!Begin(w, o, what)
      PROVE  Adds
  BY <1>4 DEF Editing!Begin, Editing!documents, Editing!ghosts
<1>5. CASE Editing!Captured(w)
  BY <1>5 DEF Editing!Captured, Editing!documents, Editing!ghosts
<1>6. CASE Editing!CaptureFails(w)
  BY <1>6 DEF Editing!CaptureFails, Editing!documents, Editing!ghosts
<1>7. CASE Editing!Discard(w)
  BY <1>7 DEF Editing!Discard, Editing!documents, Editing!ghosts
<1>8. CASE Editing!Accept(w)
  <2> DEFINE o == subject[w].object
  <2>1. /\ edits' = edits + 1 /\ migrations' = migrations /\ publication' = publication
        /\ memory' = [memory EXCEPT ![w] = @ \cup {<<o, edits + 1>>}]
    BY <1>8 DEF Editing!Accept, Editing!Fresh
  <2>2. \/ typed' = typed
        \/ typed' = [typed EXCEPT ![w][o] = 0] \/ typed' = [typed EXCEPT ![w][o] = -1]
    BY <1>8 DEF Editing!Accept, Editing!Top, Editing!NoEdit, Editing!Unread
  <2>3. typed' \in [Editors -> [Things -> -1 .. edits']]
    BY <1>0, <2>1, <2>2
  <2>4. \A v \in Editors : \A x \in Things : typed'[v][x] \in {typed[v][x], 0, -1}
    BY <2>2
  <2> HIDE DEF o
  <2>5. \A v \in Editors : \A p \in memory'[v] \ memory[v] : p[2] = edits + 1
    BY <2>1
  <2>6. ASSUME NEW v \in Editors, NEW x \in Things
        PROVE  typed'[v][x] \notin migrations
    <3>1. typed[v][x] \notin migrations
      OBVIOUS
    <3> QED BY <1>0, <2>4, <3>1
  <2> QED BY <1>0, <2>1, <2>3, <2>5, <2>6
<1> QED BY <1>1, <1>2, <1>3, <1>4, <1>5, <1>6, <1>7, <1>8 DEF Editing!Editing

LEMMA ReadyAdds ==
  ASSUME MigrationInv, NEW w \in Editors, Editing!ContextReady(w)
  PROVE  Adds
<1> USE DEF MigrationInv, NumberInv, OwnEditsInv
<1>1. UNCHANGED <<edits, migrations, memory, publication>>
  BY DEF Editing!ContextReady, Editing!ghosts, Editing!documents
<1>2. typed' = typed \/ typed' = [typed EXCEPT ![w] = [o \in Things |-> 0]]
  BY DEF Editing!ContextReady, Editing!Untyped, Editing!Form, Editing!NoEdit, Things
<1>3. 0 \notin migrations /\ 0 \in -1 .. edits
  OBVIOUS
<1> QED BY <1>1, <1>2, <1>3 DEF Adds

LEMMA SaveAdds ==
  ASSUME MigrationInv, NEW w \in Editors, Editing!Save(w)
  PROVE  Adds
<1> USE DEF MigrationInv, NumberInv, OwnEditsInv
<1>1. UNCHANGED <<edits, migrations, publication>>
  BY DEF Editing!Save, Editing!ghosts
<1>2. PICK good \in SUBSET Editing!Applicable(w) :
        /\ memory' = [memory EXCEPT ![w] = @ \cup {<<o, typed[w][o]>> : o \in good}]
        /\ typed' = [typed EXCEPT ![w] = [o \in DOMAIN @ |-> IF o \in good THEN Editing!NoEdit ELSE @[o]]]
  BY DEF Editing!Save
<1>3. \A o \in good : o \in Things /\ typed[w][o] \in 1 .. edits
  BY DEF Editing!Applicable, Editing!ObjectsOf, Editing!Edits, Things
<1>4. \A v \in Editors : \A p \in memory'[v] \ memory[v] : p[2] \in 0 .. edits /\ p[2] \notin migrations
  BY <1>2, <1>3 DEF ShapeInv
<1>5. 0 \notin migrations /\ 0 \in -1 .. edits
  OBVIOUS
<1>6. \A v \in Editors : typed'[v] \in [Things -> -1 .. edits]
  BY <1>2, <1>5 DEF Editing!NoEdit
<1>7. \A v \in Editors : \A o \in Things : typed'[v][o] \in {typed[v][o], 0}
  BY <1>2 DEF Editing!NoEdit
<1>8. typed' \in [Editors -> [Things -> -1 .. edits]]
  BY <1>2, <1>6
<1> QED BY <1>1, <1>4, <1>5, <1>7, <1>8 DEF Adds

LEMMA ConfirmAdds ==
  ASSUME MigrationInv, NEW w \in Editors, Editing!Confirm(w)
  PROVE  Adds
BY DEF MigrationInv, NumberInv, OwnEditsInv, Adds, Editing!Confirm, Editing!ghosts, Editing!documents

(* A migration is the newest edit: it is in no document yet.               *)
LEMMA MigrateKeeps ==
  ASSUME MigrationInv, NEW w \in Editors, Editing!Migrate(w)
  PROVE  MigrationInv'
<1>1. /\ edits' = edits + 1 /\ migrations' = migrations \cup {edits + 1} /\ Editing!Between
      /\ UNCHANGED <<files, memory, baseline, typed, busy>> /\ files["plan"] = baseline[w]
      /\ publication' = [replaced |-> {}, edit |-> edits + 1,
                         originals |-> [repository |-> files["repository"], plan |-> baseline[w]]]
  BY DEF Editing!Migrate, Editing!Free, Editing!Fresh, Editing!documents
<1>2. /\ edits \in Nat /\ 0 .. edits \subseteq 0 .. edits + 1 /\ 1 .. edits \subseteq 1 .. edits + 1
      /\ -1 .. edits \subseteq -1 .. edits + 1 /\ edits + 1 \notin -1 .. edits
      /\ edits + 1 \notin 0 .. edits /\ edits + 1 \in 1 .. edits + 1 /\ edits + 1 \in 0 .. edits + 1
  BY DEF MigrationInv, NumberInv
<1>3. ShapeInv'
  BY MigrationInLoop, MigrateOnlyEdits, EditsShape DEF MigrationInv
<1>4. NumberInv'
  <2>1. publication'.edit \in 0 .. edits'
    BY <1>1, <1>2
  <2>2. typed' \in [Editors -> [Things -> -1 .. edits']]
    BY <1>1, <1>2 DEF MigrationInv, NumberInv
  <2>3. \A f \in Files : \A p \in files'[f] \cup publication'.originals[f] : p[2] \in 0 .. edits'
    BY <1>1, <1>2 DEF MigrationInv, NumberInv, Files, Editing!Files
  <2>4. \A v \in Editors : \A p \in memory'[v] \cup baseline'[v] : p[2] \in 0 .. edits'
    BY <1>1, <1>2 DEF MigrationInv, NumberInv
  <2>5. edits' \in Nat /\ migrations' \subseteq 1 .. edits'
    <3>1. migrations \subseteq 1 .. edits
      BY DEF MigrationInv, NumberInv
    <3>2. edits' = edits + 1 /\ migrations' = migrations \cup {edits + 1}
      BY <1>1
    <3> QED BY <1>2, <3>1, <3>2
  <2> QED BY <2>1, <2>2, <2>3, <2>4, <2>5 DEF NumberInv
<1>5. OwnEditsInv'
  <2>1. \A v \in Editors : \A o \in Things : typed[v][o] \in -1 .. edits
    BY DEF MigrationInv, NumberInv
  <2>2. \A v \in Editors : \A p \in memory[v] \cup baseline[v] : p[2] # edits + 1
    BY <1>2 DEF MigrationInv, NumberInv
  <2>3. \A v \in Editors : \A o \in Things : typed'[v][o] \notin migrations'
    BY <1>1, <1>2, <2>1 DEF MigrationInv, OwnEditsInv
  <2>4. \A v \in Editors : ~ At(v, "open")' => SameMigrations(memory[v], baseline[v])'
    BY <1>1, <2>2 DEF MigrationInv, OwnEditsInv, SameMigrations, At
  <2> QED BY <2>3, <2>4 DEF OwnEditsInv
<1>6. FoundInv' /\ HalfInv'
  BY <1>1 DEF FoundInv, HalfInv, Publishing, At, Editing!Between, Editing!Callback, Editing!Review
<1>7. WholeInv'
  <2>1. \A o : <<o, edits + 1>>[2] = edits + 1
    OBVIOUS
  <2>2. \A f \in Files : \A o : <<o, edits + 1>> \notin files[f]
    BY <1>2, <2>1 DEF MigrationInv, NumberInv
  <2>3. Together(files) /\ busy'.at \notin {"publish", "rename"}
    BY <1>1 DEF MigrationInv, WholeInv, Editing!Between, Editing!Callback
  <2> QED BY <1>1, <2>2, <2>3 DEF WholeInv, Together, Files, Editing!Files
<1> QED BY <1>3, <1>4, <1>5, <1>6, <1>7 DEF MigrationInv

(* Steps that make no edit and leave what was typed to the windows that    *)
(* are closed or opened.                                                   *)
LEMMA OpeningTogether ==
  ASSUME MigrationInv, NEW w \in Editors,
         Editing!OpenLoad(w) \/ Editing!OpenFingerprint(w) \/ Editing!Close(w)
  PROVE  MigrationInv'
<1>1. UNCHANGED <<files, edits, migrations, publication>>
  BY DEF Editing!OpenLoad, Editing!OpenFingerprint, Editing!Close, Editing!ghosts
<1>2. -1 \notin migrations /\ 0 \notin migrations /\ -1 \in -1 .. edits /\ 0 \in -1 .. edits
  BY DEF MigrationInv, NumberInv
<1>3. busy.at \notin {"publish", "rename"} /\ busy'.at \in {"loop", "open"}
  BY DEF Editing!OpenLoad, Editing!OpenFingerprint, Editing!Close, Editing!Between, Editing!Callback
<1>4. WholeInv' /\ HalfInv'
  BY <1>1, <1>3 DEF MigrationInv, WholeInv, Together, HalfInv, Publishing, At, Editing!Callback
<1>5. \/ typed' = typed
      \/ \E x \in {0, -1} : typed' = [typed EXCEPT ![w] = [o \in Things |-> x]]
  BY DEF Editing!OpenLoad, Editing!OpenFingerprint, Editing!Close, Editing!Untyped, Editing!Form,
    Editing!NoEdit, Editing!Unread, Things
<1>6. /\ typed' \in [Editors -> [Things -> -1 .. edits]]
      /\ \A v \in Editors : \A o \in Things : typed'[v][o] \notin migrations
  BY <1>2, <1>5 DEF MigrationInv, NumberInv, OwnEditsInv
<1>7. ShapeInv'
  BY DEF MigrationInv, ShapeInv, Editing!OpenLoad, Editing!OpenFingerprint, Editing!Close
<1>8. CASE Editing!OpenLoad(w)
  <2>1. /\ Editing!Between /\ busy' = Editing!Callback(w, "open") /\ baseline' = baseline
        /\ memory' = [memory EXCEPT ![w] = files[Editing!FileOf(w)]]
    BY <1>8 DEF Editing!OpenLoad
  <2>2. NumberInv'
    BY <1>1, <1>6, <2>1 DEF MigrationInv, NumberInv, Editing!FileOf, Files, Editing!Files
  <2>3. OwnEditsInv'
    BY <1>1, <1>6, <2>1 DEF MigrationInv, OwnEditsInv, SameMigrations, At, Editing!Between,
      Editing!Callback
  <2>4. FoundInv'
    BY <1>1, <2>1 DEF MigrationInv, ShapeInv, FoundInv, SameMigrations, At, Editing!Callback, Editing!Review
  <2> QED BY <1>4, <1>7, <2>2, <2>3, <2>4 DEF MigrationInv
<1>9. CASE Editing!OpenFingerprint(w)
  <2>1. /\ baseline' = [baseline EXCEPT ![w] = files[Editing!FileOf(w)]] /\ memory' = memory
        /\ At(w, "open") /\ busy'.at = "loop"
    BY <1>9 DEF Editing!OpenFingerprint, At, Editing!Callback
  <2>2. SameMigrations(memory[w], files[Editing!FileOf(w)])
    BY <2>1 DEF MigrationInv, FoundInv
  <2>3. NumberInv'
    BY <1>1, <1>6, <2>1 DEF MigrationInv, NumberInv, ShapeInv, Editing!FileOf, Files, Editing!Files
  <2>4. OwnEditsInv'
    BY <1>1, <1>6, <2>1, <2>2 DEF MigrationInv, OwnEditsInv, SameMigrations, At, Editing!Callback, ShapeInv
  <2>5. FoundInv'
    BY <2>1 DEF FoundInv, At, Editing!Callback, Editing!Review
  <2> QED BY <1>4, <1>7, <2>3, <2>4, <2>5 DEF MigrationInv
<1>10. CASE Editing!Close(w)
  <2>1. /\ Editing!Between /\ busy' = busy /\ memory' = [memory EXCEPT ![w] = {}]
        /\ baseline' = [baseline EXCEPT ![w] = {}]
    BY <1>10 DEF Editing!Close
  <2>2. NumberInv'
    BY <1>1, <1>6, <2>1 DEF MigrationInv, NumberInv, ShapeInv
  <2>3. OwnEditsInv'
    BY <1>1, <1>6, <2>1 DEF MigrationInv, OwnEditsInv, SameMigrations, At, Editing!Between,
      Editing!Callback, ShapeInv
  <2>4. FoundInv'
    BY <2>1 DEF FoundInv, At, Editing!Between, Editing!Callback, Editing!Review
  <2> QED BY <1>4, <1>7, <2>2, <2>3, <2>4 DEF MigrationInv
<1> QED BY <1>8, <1>9, <1>10

(* What a window writes are the migrations it has read and its own edits.  *)
LEMMA SavingTogether ==
  ASSUME MigrationInv, NEW w \in Editors,
         Editing!Compare(w) \/ Editing!Replace(w) \/ Editing!WriteFails(w) \/ Editing!Reread(w)
  PROVE  MigrationInv'
<1> DEFINE f == Editing!FileOf(w)
<1>1. UNCHANGED <<edits, migrations, publication, memory, typed>>
  BY DEF Editing!Compare, Editing!Replace, Editing!WriteFails, Editing!Reread, Editing!ghosts,
    Editing!documents
<1>2. /\ busy = Editing!Callback(w, busy.at) /\ busy.at \in {"save", "replace", "reread"}
      /\ busy' = Editing!Callback(w, busy'.at) \/ busy' = Editing!Callback(Editing!Nobody, "loop")
      /\ busy'.at \in {"loop", "replace", "reread"}
  BY DEF Editing!Compare, Editing!Replace, Editing!WriteFails, Editing!Reread, Editing!Done, Editing!Callback
<1>3. Together(files) /\ SameMigrations(memory[w], baseline[w])
  BY <1>2 DEF MigrationInv, WholeInv, OwnEditsInv, At, Editing!Callback
<1>4. ShapeInv'
  BY DEF MigrationInv, ShapeInv, Editing!Compare, Editing!Replace, Editing!WriteFails, Editing!Reread,
    Editing!documents
<1>5. HalfInv'
  BY <1>1, <1>2 DEF MigrationInv, HalfInv, Publishing, At, Editing!Callback
<1>6. f \in Files
  BY DEF Editing!FileOf, Files, Editing!Files
<1>7. \A v \in Editors : ~ At(v, "open") /\ ~ At(v, "open")'
  BY <1>2 DEF At, Editing!Callback
<1>8. CASE Editing!Compare(w) \/ Editing!WriteFails(w)
  <2>1. UNCHANGED <<files, baseline>>
    BY <1>8 DEF Editing!Compare, Editing!WriteFails, Editing!documents
  <2>2. NumberInv' /\ WholeInv'
    BY <1>1, <1>2, <1>3, <2>1 DEF MigrationInv, NumberInv, WholeInv, Together
  <2>3. OwnEditsInv'
    BY <1>1, <1>7, <2>1 DEF MigrationInv, OwnEditsInv, SameMigrations
  <2>4. FoundInv'
    <3>1. \/ busy'.at = "loop"
          \/ busy' = Editing!Callback(w, "replace") /\ files[f] = baseline[w]
      BY <1>8 DEF Editing!Compare, Editing!WriteFails, Editing!Done, Editing!Callback
    <3> QED BY <2>1, <3>1 DEF FoundInv, SameMigrations, At, Editing!Callback, Editing!Review
  <2> QED BY <1>4, <1>5, <2>2, <2>3, <2>4 DEF MigrationInv
<1>9. CASE Editing!Replace(w)
  <2>1. /\ files' = [files EXCEPT ![f] = memory[w]] /\ baseline' = baseline
        /\ At(w, "replace") /\ busy' = Editing!Callback(w, "reread")
    BY <1>9 DEF At, Editing!Replace, Editing!documents
  <2>2. SameMigrations(baseline[w], files[f])
    BY <2>1 DEF MigrationInv, FoundInv
  <2>3. NumberInv'
    BY <1>1, <1>6, <2>1 DEF MigrationInv, NumberInv, ShapeInv
  <2>4. OwnEditsInv'
    BY <1>1, <1>7, <2>1 DEF MigrationInv, OwnEditsInv, SameMigrations
  <2>5. FoundInv'
    BY <1>1, <1>6, <2>1 DEF MigrationInv, ShapeInv, FoundInv, SameMigrations, At, Editing!Callback,
      Editing!Review
  <2>6. \A g \in Files : SameMigrations(files[g], files'[g])
    BY <1>3, <2>1, <2>2 DEF MigrationInv, ShapeInv, SameMigrations
  <2>7. Together(files')
    BY <1>3, <2>6, SameTogether
  <2>8. WholeInv'
    BY <1>1, <2>1, <2>7 DEF WholeInv, Together, Editing!Callback
  <2> QED BY <1>4, <1>5, <2>3, <2>4, <2>5, <2>8 DEF MigrationInv
<1>10. CASE Editing!Reread(w)
  <2>1. /\ files' = files /\ At(w, "reread") /\ busy'.at = "loop"
        /\ baseline' = [baseline EXCEPT ![w] = files[f]]
    BY <1>10 DEF At, Editing!Reread, Editing!Done, Editing!Callback
  <2>2. SameMigrations(memory[w], files[f])
    BY <2>1 DEF MigrationInv, FoundInv
  <2>3. NumberInv' /\ WholeInv'
    BY <1>1, <1>3, <1>6, <2>1 DEF MigrationInv, NumberInv, WholeInv, Together, ShapeInv
  <2>4. OwnEditsInv'
    BY <1>1, <1>7, <2>1, <2>2 DEF MigrationInv, OwnEditsInv, SameMigrations, ShapeInv
  <2>5. FoundInv'
    BY <2>1 DEF FoundInv, At, Editing!Callback, Editing!Review
  <2> QED BY <1>4, <1>5, <2>3, <2>4, <2>5 DEF MigrationInv
<1> QED BY <1>8, <1>9, <1>10

(* What another process adds, it adds to what it finds: it is no migration *)
(* of this process, and takes none away.                                   *)
LEMMA ForeignTogether ==
  ASSUME MigrationInv, NEW f \in Files, Editing!Foreign(f)
  PROVE  MigrationInv'
<1>1. PICK o : files' = [files EXCEPT ![f] = @ \cup {<<o, edits + 1>>}]
  BY DEF Editing!Foreign, Editing!Fresh
<1>2. /\ edits' = edits + 1
      /\ UNCHANGED <<migrations, window, subject, memory, baseline, typed, busy, publication>>
  BY DEF Editing!Foreign, Editing!Fresh, Editing!ghosts, Editing!documents
<1>3. /\ edits \in Nat /\ 0 .. edits \subseteq 0 .. edits + 1 /\ 1 .. edits \subseteq 1 .. edits + 1
      /\ -1 .. edits \subseteq -1 .. edits + 1 /\ edits + 1 \in 0 .. edits + 1 /\ edits + 1 \notin migrations
      /\ <<o, edits + 1>>[2] = edits + 1
  BY DEF MigrationInv, NumberInv
<1>4. ShapeInv'
  BY <1>1, <1>2 DEF MigrationInv, ShapeInv
<1>5. NumberInv'
  <2>1. typed' \in [Editors -> [Things -> -1 .. edits + 1]]
    BY <1>2, <1>3 DEF MigrationInv, NumberInv
  <2>2. \A g \in Files : \A p \in files'[g] \cup publication'.originals[g] : p[2] \in 0 .. edits + 1
    BY <1>1, <1>2, <1>3 DEF MigrationInv, NumberInv, ShapeInv
  <2>3. /\ \A w \in Editors : \A p \in memory'[w] \cup baseline'[w] : p[2] \in 0 .. edits + 1
        /\ publication'.edit \in 0 .. edits + 1
    BY <1>2, <1>3 DEF MigrationInv, NumberInv
  <2>4. edits' \in Nat /\ migrations' \subseteq 1 .. edits'
    BY <1>2, <1>3 DEF MigrationInv, NumberInv
  <2> QED BY <1>2, <2>1, <2>2, <2>3, <2>4 DEF NumberInv
<1>6. \A g \in Files : SameMigrations(files[g], files'[g])
  BY <1>1, <1>3 DEF MigrationInv, ShapeInv, SameMigrations
<1>7. OwnEditsInv'
  BY <1>2 DEF MigrationInv, OwnEditsInv, SameMigrations, At
<1>8. FoundInv'
  <2>1. "repository" \in Files /\ \A w \in Editors : Editing!FileOf(w) \in Files
    BY DEF Files, Editing!Files, Editing!FileOf
  <2> QED BY <1>2, <1>6, <2>1 DEF MigrationInv, FoundInv, SameMigrations, At
<1>9. HalfInv'
  <2>1. \A w \in Editors : \A g \in Files : Half(w, g)' = Half(w, g)
    BY <1>2 DEF Half, Editing!Proposed
  <2>2. \A w \in Editors : Publishing(w)' <=> Publishing(w)
    BY <1>2 DEF Publishing, At
  <2>3. \A w \in Editors : Publishing(w) => \A g \in Files : SameMigrations(files[g], Half(w, g))
    BY DEF MigrationInv, HalfInv
  <2>4. \A w \in Editors : Publishing(w)' => \A g \in Files : SameMigrations(files[g], Half(w, g))'
    BY <1>2, <1>6, <2>1, <2>2, <2>3 DEF SameMigrations
  <2>5. (busy.at \notin {"publish", "rename"} => publication.replaced = {})'
    BY <1>2 DEF MigrationInv, HalfInv
  <2> QED BY <2>4, <2>5 DEF HalfInv
<1>10. WholeInv'
  <2>1. CASE busy.at \in {"publish", "rename"}
    BY <1>2, <2>1 DEF MigrationInv, WholeInv, Together
  <2>2. CASE busy.at \notin {"publish", "rename"}
    <3>1. Together(files')
      BY <1>6, <2>2, SameTogether DEF MigrationInv, WholeInv
    <3> QED BY <1>2, <2>2, <3>1 DEF WholeInv, Together
  <2> QED BY <2>1, <2>2
<1> QED BY <1>4, <1>5, <1>7, <1>8, <1>9, <1>10 DEF MigrationInv

LEMMA ReviewTogether ==
  ASSUME MigrationInv, Editing!ReviewLoads \/ Editing!ReviewSaves
  PROVE  MigrationInv'
<1>1. "repository" \in Files
  BY DEF Files, Editing!Files
<1>2. UNCHANGED <<migrations, window, subject, memory, baseline, typed>>
  BY DEF Editing!ReviewLoads, Editing!ReviewSaves, Editing!ghosts, Editing!documents
<1>3. CASE Editing!ReviewLoads
  <2>1. /\ UNCHANGED <<files, edits>> /\ Editing!Between /\ busy' = Editing!Review
        /\ publication' = [publication EXCEPT !.originals["repository"] = files["repository"]]
    BY <1>3 DEF Editing!ReviewLoads
  <2>2. ShapeInv' /\ publication'.replaced = publication.replaced
        /\ publication'.originals["repository"] = files["repository"]
    BY <1>1, <1>2, <2>1 DEF MigrationInv, ShapeInv
  <2>3. NumberInv'
    BY <1>1, <1>2, <2>1 DEF MigrationInv, NumberInv, ShapeInv
  <2>4. OwnEditsInv'
    BY <1>2, <2>1 DEF MigrationInv, OwnEditsInv, SameMigrations, At, Editing!Between, Editing!Callback,
      Editing!Review
  <2>5. FoundInv' /\ HalfInv'
    BY <2>1, <2>2 DEF MigrationInv, FoundInv, HalfInv, SameMigrations, Publishing, At, Editing!Between,
      Editing!Callback, Editing!Review
  <2>6. WholeInv'
    BY <1>2, <2>1 DEF MigrationInv, WholeInv, Together, Editing!Between, Editing!Callback, Editing!Review
  <2> QED BY <2>2, <2>3, <2>4, <2>5, <2>6 DEF MigrationInv
<1>4. CASE Editing!ReviewSaves
  <2> DEFINE original == publication.originals["repository"]
  <2>1. PICK o : files' = [files EXCEPT !["repository"] = original \cup {<<o, edits + 1>>}]
    BY <1>4 DEF Editing!ReviewSaves, Editing!Fresh
  <2>2. /\ edits' = edits + 1 /\ publication' = Editing!NoPublication
        /\ busy'.at = "loop" /\ busy = Editing!Review
    BY <1>4 DEF Editing!ReviewSaves, Editing!Fresh, Editing!Callback
  <2>3. SameMigrations(original, files["repository"])
    BY <2>2 DEF MigrationInv, FoundInv
  <2>4. /\ edits \in Nat /\ 0 .. edits \subseteq 0 .. edits + 1 /\ 1 .. edits \subseteq 1 .. edits + 1
        /\ -1 .. edits \subseteq -1 .. edits + 1 /\ edits + 1 \in 0 .. edits + 1
        /\ edits + 1 \notin migrations /\ 0 \in 0 .. edits + 1
        /\ <<o, edits + 1>>[2] = edits + 1
    BY DEF MigrationInv, NumberInv
  <2>5. ShapeInv'
    BY <1>2, <2>1, <2>2 DEF MigrationInv, ShapeInv, Editing!NoPublication, Files
  <2>6. NumberInv'
    <3>1. typed' \in [Editors -> [Things -> -1 .. edits + 1]]
      BY <1>2, <2>4 DEF MigrationInv, NumberInv
    <3>2. \A p \in original \cup {<<o, edits + 1>>} : p[2] \in 0 .. edits + 1
      BY <1>1, <2>4 DEF MigrationInv, NumberInv
    <3>3. \A g \in Files : files'[g] = IF g = "repository" THEN original \cup {<<o, edits + 1>>} ELSE files[g]
      BY <2>1 DEF MigrationInv, ShapeInv
    <3>4. \A g \in Files : \A p \in files[g] : p[2] \in 0 .. edits + 1
      BY <2>4 DEF MigrationInv, NumberInv
    <3>5. \A g \in Files : publication'.originals[g] = {}
      BY <2>2 DEF Editing!NoPublication, Files
    <3>6. \A g \in Files : \A p \in files'[g] \cup publication'.originals[g] : p[2] \in 0 .. edits + 1
      BY <3>2, <3>3, <3>4, <3>5
    <3>7. \A w \in Editors : \A p \in memory'[w] \cup baseline'[w] : p[2] \in 0 .. edits + 1
      BY <1>2, <2>4 DEF MigrationInv, NumberInv
    <3>8. publication'.edit \in 0 .. edits + 1
      BY <2>2, <2>4 DEF Editing!NoPublication, Editing!NoEdit
    <3>9. edits' \in Nat /\ migrations' \subseteq 1 .. edits'
      BY <1>2, <2>2, <2>4 DEF MigrationInv, NumberInv
    <3> QED BY <2>2, <3>1, <3>6, <3>7, <3>8, <3>9 DEF NumberInv
  <2>7. OwnEditsInv'
    BY <1>2, <2>2 DEF MigrationInv, OwnEditsInv, SameMigrations, At, Editing!Callback, Editing!Review
  <2>8. FoundInv' /\ HalfInv'
    BY <2>2 DEF FoundInv, HalfInv, Publishing, At, Editing!Callback, Editing!Review, Editing!NoPublication
  <2>9. \A g \in Files : SameMigrations(files[g], files'[g])
    BY <2>1, <2>3, <2>4 DEF MigrationInv, ShapeInv, SameMigrations
  <2>10. Together(files)
    BY <2>2 DEF MigrationInv, WholeInv, Editing!Review, Editing!Callback
  <2>11. Together(files')
    BY <2>9, <2>10, SameTogether
  <2>12. WholeInv'
    BY <1>2, <2>2, <2>11 DEF WholeInv, Together
  <2> QED BY <2>5, <2>6, <2>7, <2>8, <2>12 DEF MigrationInv
<1> QED BY <1>3, <1>4

(* What a publication proposes is the originals and its own edit, which    *)
(* reaches both files.                                                     *)
LEMMA ProposedTogether ==
  ASSUME Together(publication.originals), NewObjects \subseteq Objects, NewObjects # {}, NEW w
  PROVE  Together([f \in Files |-> Editing!Proposed(w, f)])
<1> DEFINE P == [f \in Files |-> Editing!Proposed(w, f)]
<1>1. /\ P["repository"] = publication.originals["repository"]
                             \cup {<<o, publication.edit>> : o \in NewObjects}
      /\ P["plan"] = publication.originals["plan"] \cup {<<Editing!Steps, publication.edit>>}
  BY DEF Editing!Proposed, Files, Editing!Files
<1> HIDE DEF P
<1>2. SUFFICES ASSUME NEW e \in migrations
               PROVE  (\E o \in Objects : <<o, e>> \in P["repository"]) <=> <<Editing!Steps, e>> \in P["plan"]
  BY DEF Together, P
<1>3. CASE e = publication.edit
  <2>1. PICK o \in NewObjects : TRUE
    OBVIOUS
  <2> QED BY <1>1, <1>3, <2>1
<1>4. CASE e # publication.edit
  <2>1. (\E o \in Objects : <<o, e>> \in publication.originals["repository"])
          <=> <<Editing!Steps, e>> \in publication.originals["plan"]
    BY DEF Together
  <2> QED BY <1>1, <1>4, <2>1
<1> QED BY <1>3, <1>4

(* A publication that ends has put its edit into both files, or what was   *)
(* there before; what others add meanwhile is no migration.                *)
LEMMA PublishingTogether ==
  ASSUME MigrationInv, NewObjects \subseteq Objects, NewObjects # {}, NEW w \in Editors,
         \/ Editing!Recheck(w) \/ Editing!RollBack(w) \/ Editing!Published(w)
         \/ \E f \in Editing!Files : Editing!Publish(w, f)
  PROVE  MigrationInv'
<1>1. /\ UNCHANGED <<edits, migrations, typed, window, subject>>
      /\ busy \in {Editing!Callback(w, "publish"), Editing!Callback(w, "rename")}
  BY DEF Editing!Recheck, Editing!RollBack, Editing!Published, Editing!Publish, Editing!ghosts
<1>2. \A f \in Files : SameMigrations(files[f], Half(w, f))
  BY <1>1 DEF MigrationInv, HalfInv, Publishing, At
<1>3. Together(publication.originals)
  BY <1>1 DEF MigrationInv, WholeInv, Editing!Callback
<1>4. "repository" \in Files /\ "plan" \in Files
  BY DEF Files, Editing!Files
<1>5. \A f \in Files : \A p \in Editing!Proposed(w, f) : p[2] \in 0 .. edits
  BY DEF Editing!Proposed, MigrationInv, NumberInv
<1>6. \A v \in Editors : ~ At(v, "open")
  BY <1>1 DEF At, Editing!Callback
<1>7. edits \in Nat /\ 0 \in 0 .. edits
  BY DEF MigrationInv, NumberInv
<1>8. CASE Editing!RollBack(w)
  <2>1. UNCHANGED <<memory, baseline>> /\ publication' = Editing!NoPublication /\ busy'.at = "loop"
    BY <1>8 DEF Editing!RollBack, Editing!documents, Editing!Done, Editing!Callback
  <2>2. files' = [f \in Files |-> IF f \in publication.replaced THEN publication.originals[f] ELSE files[f]]
    BY <1>8 DEF Editing!RollBack, Files
  <2>3. ShapeInv'
    BY <1>1, <2>1, <2>2 DEF MigrationInv, ShapeInv, Editing!NoPublication, Files
  <2>4. NumberInv'
    BY <1>1, <1>7, <2>1, <2>2 DEF MigrationInv, NumberInv, Editing!NoPublication, Editing!NoEdit, Files
  <2>5. OwnEditsInv'
    BY <1>1, <1>6, <2>1 DEF MigrationInv, OwnEditsInv, SameMigrations
  <2>6. FoundInv' /\ HalfInv'
    BY <2>1 DEF FoundInv, HalfInv, Publishing, At, Editing!Callback, Editing!Review, Editing!NoPublication
  <2>7. \A f \in Files : SameMigrations(publication.originals[f], files'[f])
    BY <1>2, <2>2 DEF SameMigrations, Half
  <2>8. Together(files')
    BY <1>3, <2>7, SameTogether
  <2>9. WholeInv'
    BY <1>1, <2>1, <2>8 DEF WholeInv, Together
  <2> QED BY <2>3, <2>4, <2>5, <2>6, <2>9 DEF MigrationInv
<1>9. CASE Editing!Published(w)
  <2>1. /\ files' = files /\ publication' = Editing!NoPublication /\ busy'.at = "loop"
        /\ memory' = [memory EXCEPT ![w] = Editing!Proposed(w, "plan")]
        /\ baseline' = [baseline EXCEPT ![w] = files["plan"]]
    BY <1>9 DEF Editing!Published, Editing!Done, Editing!Callback
  <2>2. \A f \in Files : SameMigrations(files[f], Editing!Proposed(w, f))
    BY <1>2, <1>9 DEF Editing!Published, Half, Files
  <2>3. ShapeInv'
    BY <1>1, <2>1 DEF MigrationInv, ShapeInv, Editing!NoPublication, Files
  <2>4. NumberInv'
    BY <1>1, <1>4, <1>5, <1>7, <2>1 DEF MigrationInv, NumberInv, ShapeInv, Editing!NoPublication,
      Editing!NoEdit, Files
  <2>5. OwnEditsInv'
    BY <1>1, <1>4, <1>6, <2>1, <2>2 DEF MigrationInv, OwnEditsInv, SameMigrations, ShapeInv
  <2>6. FoundInv' /\ HalfInv'
    BY <2>1 DEF FoundInv, HalfInv, Publishing, At, Editing!Callback, Editing!Review, Editing!NoPublication
  <2>7. \A f \in Files : SameMigrations([g \in Files |-> Editing!Proposed(w, g)][f], files[f])
    BY <2>2 DEF SameMigrations
  <2>8. Together(files)
    BY <1>3, <2>7, ProposedTogether, SameTogether
  <2>9. WholeInv'
    BY <1>1, <2>1, <2>8 DEF WholeInv, Together
  <2> QED BY <2>3, <2>4, <2>5, <2>6, <2>9 DEF MigrationInv
<1>10. ASSUME NEW f \in Files, Editing!Publish(w, f)
       PROVE  MigrationInv'
  <2>1. /\ UNCHANGED <<memory, baseline>> /\ busy' = Editing!Callback(w, "publish")
        /\ files' = [files EXCEPT ![f] = Editing!Proposed(w, f)]
        /\ publication' = [publication EXCEPT !.replaced = @ \cup {f}]
    BY <1>10 DEF Editing!Publish, Editing!documents
  <2>2. /\ publication'.originals = publication.originals /\ publication'.edit = publication.edit
        /\ publication'.replaced = publication.replaced \cup {f}
    BY <2>1 DEF MigrationInv, ShapeInv
  <2>3. ShapeInv'
    BY <1>1, <2>1 DEF MigrationInv, ShapeInv
  <2>4. NumberInv'
    BY <1>1, <1>5, <2>1, <2>2 DEF MigrationInv, NumberInv, ShapeInv
  <2>5. OwnEditsInv'
    BY <1>1, <1>6, <2>1 DEF MigrationInv, OwnEditsInv, SameMigrations
  <2>6. FoundInv'
    BY <2>1 DEF FoundInv, At, Editing!Callback, Editing!Review
  <2>7. \A v, g : Editing!Proposed(v, g)' = Editing!Proposed(w, g)
    BY <2>2 DEF Editing!Proposed
  <2>8. \A v \in Editors : \A g \in Files :
          Half(v, g)' = IF g = f THEN Editing!Proposed(w, f) ELSE Half(w, g)
    BY <2>2, <2>7 DEF Half, Editing!Proposed
  <2>9. \A g \in Files : files'[g] = IF g = f THEN Editing!Proposed(w, f) ELSE files[g]
    BY <2>1 DEF MigrationInv, ShapeInv
  <2>10. \A v \in Editors : \A g \in Files : SameMigrations(files[g], Half(v, g))'
    BY <1>1, <1>2, <2>8, <2>9 DEF SameMigrations
  <2>11. HalfInv'
    BY <2>1, <2>10 DEF HalfInv, Editing!Callback
  <2>12. WholeInv'
    BY <1>1, <1>3, <2>1, <2>2 DEF WholeInv, Together, Editing!Callback
  <2> QED BY <2>3, <2>4, <2>5, <2>6, <2>11, <2>12 DEF MigrationInv
<1>11. CASE Editing!Recheck(w)
  <2>1. UNCHANGED <<files, memory, baseline, publication>> /\ busy' = Editing!Callback(w, "rename")
    BY <1>11 DEF Editing!Recheck, Editing!documents
  <2>2. ShapeInv' /\ NumberInv'
    BY <1>1, <2>1 DEF MigrationInv, ShapeInv, NumberInv
  <2>3. OwnEditsInv'
    BY <1>1, <1>6, <2>1 DEF MigrationInv, OwnEditsInv, SameMigrations
  <2>4. FoundInv'
    BY <2>1 DEF FoundInv, At, Editing!Callback, Editing!Review
  <2>5. \A v \in Editors : \A f \in Files : SameMigrations(files[f], Half(v, f))'
    BY <1>1, <1>2, <2>1 DEF SameMigrations, Half, Editing!Proposed
  <2>6. HalfInv'
    BY <2>1, <2>5 DEF HalfInv, Editing!Callback
  <2>7. WholeInv'
    BY <1>1, <1>3, <2>1 DEF WholeInv, Together, Editing!Callback
  <2> QED BY <2>2, <2>3, <2>4, <2>6, <2>7 DEF MigrationInv
<1> QED BY <1>8, <1>9, <1>10, <1>11 DEF Files

LEMMA MigrationNext ==
  ASSUME MigrationInv, NewObjects \subseteq Objects, NewObjects # {}, Editing!Next
  PROVE  MigrationInv'
<1>1. ASSUME NEW w \in Editors,
             Editing!Editing(w) \/ Editing!ContextReady(w) \/ Editing!Save(w) \/ Editing!Confirm(w)
      PROVE  MigrationInv'
  <2>1. OnlyEdits
    BY <1>1, MigrationInLoop, EditingOnlyEdits, ReadyOnlyEdits, SaveOnlyEdits, ConfirmOnlyEdits
  <2>2. Adds
    BY <1>1, EditingAdds, ReadyAdds, SaveAdds, ConfirmAdds
  <2> QED BY <2>1, <2>2, AddsKeep
<1>2. ASSUME NEW w \in Editors,
             Editing!OpenLoad(w) \/ Editing!OpenFingerprint(w) \/ Editing!Close(w)
      PROVE  MigrationInv'
  BY <1>2, OpeningTogether
<1>3. ASSUME NEW w \in Editors, Editing!Saving(w)
      PROVE  MigrationInv'
  BY <1>1, <1>3, SavingTogether DEF Editing!Saving
<1>4. ASSUME NEW w \in Editors, Editing!Migrating(w)
      PROVE  MigrationInv'
  BY <1>1, <1>4, MigrateKeeps, PublishingTogether DEF Editing!Migrating
<1>5. ASSUME NEW f \in Files, Editing!Foreign(f)
      PROVE  MigrationInv'
  BY <1>5, ForeignTogether
<1> QED BY <1>1, <1>2, <1>3, <1>4, <1>5, ReviewTogether DEF Editing!Next, Editors, Files

LEMMA MigrationStutter ==
  ASSUME MigrationInv, UNCHANGED Editing!vars
  PROVE  MigrationInv'
<1>1. /\ UNCHANGED <<files, edits, migrations, window, subject, memory, baseline, typed>>
      /\ UNCHANGED <<busy, publication>>
  BY DEF Editing!vars, Editing!documents, Editing!ghosts
<1>2. ShapeInv'
  BY <1>1 DEF MigrationInv, ShapeInv
<1>3. NumberInv' /\ OwnEditsInv'
  BY <1>1 DEF MigrationInv, NumberInv, OwnEditsInv, SameMigrations, At
<1>4. FoundInv' /\ WholeInv'
  BY <1>1 DEF MigrationInv, FoundInv, WholeInv, Together, SameMigrations, At
<1>5. HalfInv'
  BY <1>1 DEF MigrationInv, HalfInv, Half, Publishing, SameMigrations, At, Editing!Proposed
<1> QED BY <1>2, <1>3, <1>4, <1>5 DEF MigrationInv

(* Outside a publication, each migration is in both files or in none: in   *)
(* whatever places another process adds to the files, inside callbacks and *)
(* publications as well, and whichever replacement failed, if what was     *)
(* replaced can be restored (see ArtifactEditing). That it brings an       *)
(* object (EditingAssumption) is the code's own guard: a plan with nothing *)
(* embedded is not migrated.                                               *)
THEOREM MigrationsAreWhole == Spec => [](part = "editing" => Editing!MigratedTogether)
<1> DEFINE MInv == part = "editing" => MigrationInv
<1>1. Init => MInv
  BY MigrationStart DEF Init
<1>2. MInv /\ [Next]_vars => MInv'
  <2> USE EditingAssumption
  <2> SUFFICES ASSUME MInv, [Next]_vars PROVE MInv'
    OBVIOUS
  <2>1. CASE vars' = vars
    <3>1. part' = part /\ UNCHANGED Editing!vars
      BY <2>1 DEF vars, onlyEditing, Editing!vars, Editing!ghosts, Editing!documents
    <3> QED BY <3>1, MigrationStutter
  <2>2. CASE Next
    <3>1. part' = part /\ (part = "editing" => Editing!Next)
      BY <2>2 DEF Next
    <3> QED BY <3>1, MigrationNext
  <2> QED BY <2>1, <2>2
<1>3. MInv => (part = "editing" => Editing!MigratedTogether)
  BY DEF MigrationInv, WholeInv, Together, Editing!MigratedTogether
<1> HIDE DEF MInv
<1> QED BY <1>1, <1>2, <1>3, PTL DEF Spec

-----------------------------------------------------------------------------
(* AtspiAdapter: the theorem of its own module, for the part of it here.   *)

(* The commands of any number of buttons are published in order, about the *)
(* object their history gives them, also when two buttons interleave.      *)
THEOREM ButtonsKeepTheirObjects == Spec => []PublishedAsAccepted
<1>1. Adapter!Init /\ [][Adapter!Next]_(Adapter!vars) => []Adapter!PublishedAsAccepted
  BY AdapterAssumption, Adapter!SafelyPublishes
<1> DEFINE Here == part = "adapter"
<1>2. Init /\ Here => Adapter!Init
  BY DEF Init
<1>3. [Next]_vars /\ Here => [Adapter!Next]_(Adapter!vars)
  BY DEF Next, vars, onlyAdapter, Adapter!vars, Adapter!lifeVars, Adapter!nativeVars, Adapter!workVars
<1>4. [Next]_vars => (Here <=> Here')
  BY DEF Next, vars
<1>5. Here /\ Adapter!PublishedAsAccepted => PublishedAsAccepted
  BY DEF PublishedAsAccepted
<1>6. ~ Here => PublishedAsAccepted
  BY DEF PublishedAsAccepted
<1> HIDE DEF Here
<1> QED BY <1>1, <1>2, <1>3, <1>4, <1>5, <1>6, PTL DEF Spec

-----------------------------------------------------------------------------
(* BundleRuns: what a run leaves behind and reports.                       *)

Started == {"display", "app", "health", "test"}
Over == {"publish", "done", "escaped"}

(* The verdict is known when the test is over, or what ended the run first *)
(* has one of its own; until then nothing says anything.                   *)
VerdictInv ==
  /\ pc \in {"check", "stop"} \cup Started \cup Over
  /\ pc = "check" \/ pc \in Started => tested = "no" /\ code = 99 /\ ~ interrupted
  /\ pc # "check" /\ code # 2 => tested = "broken" \/ ~ Bundles!Issues(bundle)
  /\ pc \in {"stop", "publish"} => code # 99 \/ interrupted
  /\ code = 0 => tested = "passed" /\ ~ Bundles!Issues(bundle)
  /\ code = 1 => tested \in {"failed", "unresolved"}
  /\ code \in {2, 3} => tested \in {"no", "broken"}
  /\ pc \in {"publish", "done"} => ~ interrupted
  /\ published \in {99, code}
  /\ pc \notin {"done", "escaped"} => published = 99
  /\ pc = "done" => published # 99

BundleInv ==
  /\ pc = "check" => app = "off" /\ display = "off"
  /\ Bundles!NothingLeftRunning
  /\ VerdictInv

LEMMA BundleStart == Bundles!Init => BundleInv
BY DEF Bundles!Init, BundleInv, VerdictInv, Bundles!NothingLeftRunning, Bundles!NoCode, Started, Over

LEMMA BundleNext == BundleInv /\ [Bundles!Next]_(Bundles!vars) => BundleInv'
<1> SUFFICES ASSUME BundleInv, [Bundles!Next]_(Bundles!vars) PROVE BundleInv'
  OBVIOUS
<1>0. CASE UNCHANGED Bundles!vars
  BY <1>0 DEF BundleInv, VerdictInv, Bundles!NothingLeftRunning, Bundles!vars, Bundles!Issues,
    Bundles!ReferenceIsWrong, Started, Over
<1> USE DEF BundleInv, VerdictInv, Bundles!NothingLeftRunning, Bundles!NoCode, Started, Over,
  Bundles!Raises, Bundles!Fault
<1>1. CASE Bundles!Check
  BY <1>1 DEF Bundles!Check
<1>2. CASE Bundles!StartDisplay
  BY <1>2 DEF Bundles!StartDisplay
<1>3. CASE Bundles!StartApp
  BY <1>3 DEF Bundles!StartApp
<1>4. CASE Bundles!HealthCheck
  BY <1>4 DEF Bundles!HealthCheck
<1>5. CASE Bundles!Test
  BY <1>5 DEF Bundles!Test
<1>6. CASE Bundles!Stop
  BY <1>6 DEF Bundles!Stop
<1>7. CASE Bundles!Publish
  BY <1>7 DEF Bundles!Publish
<1>8. CASE Bundles!Interrupt
  BY <1>8 DEF Bundles!Interrupt
<1>9. CASE Bundles!Ends
  BY <1>9 DEF Bundles!Ends
<1> QED BY <1>0, <1>1, <1>2, <1>3, <1>4, <1>5, <1>6, <1>7, <1>8, <1>9 DEF Bundles!Next

LEMMA BundleMeant == BundleInv => Bundles!NothingLeftRunning /\ Bundles!VerdictIsEarned
BY DEF BundleInv, VerdictInv, Bundles!VerdictIsEarned, Bundles!NoCode, Started, Over

-----------------------------------------------------------------------------
(* StepCalls: what is active, bound, returned and logged.                  *)

Hows == {"direct", "plain", "detailed"}
Kinds == {"unset", "scalar", "mapping", "list", "reference", "literal"}
Entries == [call : Nat, bindings : Calls!Bindings]
Captures == [on : BOOLEAN, entries : Seq(Entries)]
FrameTypes == [id : Nat, step : Calls!Registered, how : Hows, given : Kinds, binds : Calls!Bindings,
               active : Calls!Bindings, capture : Captures]
Events == {"started", "failed", "finished"} \X Nat
Outcomes == [how : Hows, result : {"raised", "running", "returned"}, entry : Entries]

CallTypes ==
  /\ made \in Nat /\ logFaults \in Nat
  /\ stack \in Seq(FrameTypes) /\ active \in Calls!Bindings /\ capture \in Captures
  /\ store \in [CallVars -> Kinds]
  /\ log \in Seq(Events) /\ outcomes \in Seq(Outcomes) /\ Len(outcomes) = made

LEMMA FrontIs ==
  ASSUME NEW S, NEW s \in Seq(S), s # <<>>, NEW t, t = Calls!Front(s)
  PROVE  /\ t \in Seq(S) /\ Len(t) = Len(s) - 1 /\ Len(s) \in Nat \ {0}
         /\ \A i \in 1 .. Len(t) : t[i] = s[i]
<1>1. Len(s) \in Nat \ {0}
  OBVIOUS
<1>2. t = [i \in 1 .. Len(s) - 1 |-> s[i]]
  BY <1>1 DEF Calls!Front
<1> QED BY <1>1, <1>2

LEMMA AppendIs ==
  ASSUME NEW S, NEW s \in Seq(S), NEW x \in S, NEW t, t = Append(s, x)
  PROVE  /\ t \in Seq(S) /\ Len(t) = Len(s) + 1 /\ Len(s) \in Nat /\ t[Len(s) + 1] = x
         /\ \A i \in 1 .. Len(s) : t[i] = s[i]
OBVIOUS

(* A call that is refused leaves its outcome, one that enters a frame.     *)
Refusing ==
  /\ made' = made + 1
  /\ \E how \in Hows :
       outcomes' = Append(outcomes, [how |-> how, result |-> "raised", entry |-> Calls!NoEntry])
  /\ UNCHANGED <<stack, active, capture, store, log, logFaults, commits>>

Entering(f) ==
  /\ made' = made + 1 /\ stack' = Append(stack, f)
  /\ f.id = made + 1 /\ f.active = active /\ f.capture = capture
  /\ IF f.how = "direct" THEN active' = active /\ capture' = capture
     ELSE active' = f.binds /\ capture' = [on |-> f.how = "detailed", entries |-> <<>>]
  /\ log' = Append(log, <<"started", made + 1>>)
  /\ outcomes' = Append(outcomes, [how |-> f.how, result |-> "running", entry |-> Calls!NoEntry])
  /\ UNCHANGED <<store, logFaults, commits>>

(* A frame ends with its event, and binds or changes nothing.              *)
Ending(f, finished, caught) ==
  /\ stack # <<>> /\ f = stack[Len(stack)] /\ Calls!Leave(f, finished, caught) /\ made' = made
  /\ caught \in {capture, Calls!Captured(f)}
  /\ log' = Append(log, <<IF finished THEN "finished" ELSE "failed", f.id>>)
  /\ \/ ~ finished /\ UNCHANGED <<store, commits, logFaults>>
     \/ /\ Calls!ValidBindings(f.step, active) /\ Calls!Commit(f)
        /\ IF finished THEN logFaults' = logFaults /\ caught = Calls!Captured(f)
           ELSE logFaults' = logFaults + 1

LEMMA BindingsFacts ==
  /\ {} \in Calls!Bindings
  /\ Calls!NoCapture \in Captures /\ Calls!Collecting \in Captures
  /\ Calls!NoEntry \in Entries
<1>1. {} \in Calls!Bindings
  BY DEF Calls!Bindings
<1>2. <<>> \in Seq(Entries)
  OBVIOUS
<1> QED BY <1>1, <1>2 DEF Calls!NoCapture, Calls!Collecting, Calls!NoEntry, Calls!Entry, Captures, Entries

LEMMA CallSteps ==
  ASSUME CallTypes, Calls!Next
  PROVE  \/ Refusing
         \/ \E f \in FrameTypes : Entering(f)
         \/ Calls!Change
         \/ \E finished \in BOOLEAN, caught \in {capture, Calls!Captured(stack[Len(stack)])} :
              Ending(stack[Len(stack)], finished, caught)
<1>1. ASSUME Calls!Call
      PROVE  Refusing \/ \E f \in FrameTypes : Entering(f)
  <2>1. PICK how \in Hows, s \in Calls!Registered \cup {Calls!Unknown} :
          \/ Calls!Refused(how)
          \/ \E bindings \in Calls!Bindings, arg \in CallVars \cup {Calls!Literal, Calls!Misfit} :
               Calls!Entered(how, s, bindings, arg) /\ ~ Calls!Refuses(how, s, bindings, arg)
               /\ (how = "direct" => s # Calls!Unknown)
    <3> DEFINE Requests(how) == (IF how = "direct" THEN {{}} ELSE Calls!Bindings)
                                  \X (CallVars \cup {Calls!Literal, Calls!Misfit})
    <3>1. PICK how \in Hows, s \in Calls!Registered \cup {Calls!Unknown} :
            /\ how = "direct" => s # Calls!Unknown
            /\ \/ Calls!Refused(how)
               \/ \E r \in Requests(how) : Calls!Entered(how, s, r[1], r[2]) /\ ~ Calls!Refuses(how, s, r[1], r[2])
      BY <1>1 DEF Calls!Call, Hows
    <3>2. \A r \in Requests(how) :
            r[1] \in Calls!Bindings /\ r[2] \in CallVars \cup {Calls!Literal, Calls!Misfit}
      BY BindingsFacts
    <3> HIDE DEF Requests
    <3> QED BY <3>1, <3>2
  <2>2. made' = made + 1
    BY <1>1 DEF Calls!Call, Calls!Id
  <2>3. CASE Calls!Refused(how)
    BY <2>2, <2>3 DEF Calls!Refused, Refusing
  <2>4. ASSUME NEW bindings \in Calls!Bindings, NEW arg \in CallVars \cup {Calls!Literal, Calls!Misfit},
               Calls!Entered(how, s, bindings, arg), ~ Calls!Refuses(how, s, bindings, arg),
               how = "direct" => s # Calls!Unknown
        PROVE  \E f \in FrameTypes : Entering(f)
    <3> DEFINE given == IF s = "script" THEN Calls!Passed(how, arg) ELSE Calls!Literal
               f == [id |-> made + 1, step |-> s, how |-> how, given |-> given, binds |-> bindings,
                     active |-> active, capture |-> capture]
    <3>1. s \in Calls!Registered
      BY <2>4 DEF Calls!Refuses
    <3>2. given \in Kinds
      BY <2>4 DEF Calls!Passed, Calls!Literal, CallTypes, Kinds
    <3>3. f \in FrameTypes
      BY <3>1, <3>2 DEF FrameTypes, CallTypes
    <3>4. Entering(f)
      BY <2>2, <2>4 DEF Entering, Calls!Entered, Calls!Activated, Calls!Log, Calls!Id, Calls!Collecting,
        Calls!NoCapture
    <3> QED BY <3>3, <3>4
  <2> QED BY <2>1, <2>3, <2>4
<1>2. ASSUME NEW f, f = stack[Len(stack)], stack # <<>>, made' = made,
             Calls!Fails(f) \/ (Calls!ValidBindings(f.step, active)
                                  /\ (Calls!Finishes(f) \/ Calls!LogFails(f)))
      PROVE  \E finished \in BOOLEAN, caught \in {capture, Calls!Captured(f)} : Ending(f, finished, caught)
  <2>1. CASE Calls!Fails(f)
    <3>1. Ending(f, FALSE, capture)
      BY <1>2, <2>1 DEF Ending, Calls!Fails, Calls!Log
    <3> QED BY <3>1
  <2>2. CASE Calls!ValidBindings(f.step, active) /\ Calls!Finishes(f)
    <3>1. Ending(f, TRUE, Calls!Captured(f))
      BY <1>2, <2>2 DEF Ending, Calls!Finishes, Calls!Log
    <3> QED BY <3>1
  <2>3. CASE Calls!ValidBindings(f.step, active) /\ Calls!LogFails(f)
    <3>1. PICK caught \in {capture, Calls!Captured(f)} : Calls!Leave(f, FALSE, caught)
      BY <2>3 DEF Calls!LogFails
    <3>2. Ending(f, FALSE, caught)
      BY <1>2, <2>3, <3>1 DEF Ending, Calls!LogFails, Calls!Log
    <3> QED BY <3>2
  <2> QED BY <1>2, <2>1, <2>2, <2>3
<1>3. Calls!Return \/ Calls!Raise \/ Calls!Script =>
        /\ stack # <<>> /\ made' = made
        /\ \/ Calls!Fails(Calls!Top)
           \/ /\ Calls!ValidBindings(Calls!Top.step, active)
              /\ Calls!Finishes(Calls!Top) \/ Calls!LogFails(Calls!Top)
  BY DEF Calls!Return, Calls!Raise, Calls!Script
<1>4. Calls!Top = stack[Len(stack)]
  BY DEF Calls!Top, Calls!Last
<1> QED BY <1>1, <1>2, <1>3, <1>4 DEF Calls!Next

LEMMA CapturedTypes ==
  ASSUME CallTypes, NEW f \in FrameTypes, NEW c \in {capture, Calls!Captured(f)}
  PROVE  /\ c \in Captures /\ c.on = capture.on /\ (~ capture.on => c = capture)
         /\ Calls!Entry(f.id, active) \in Entries
         /\ capture.on => Calls!Captured(f).entries = Append(capture.entries, Calls!Entry(f.id, active))
<1> USE DEF Captures, FrameTypes
<1>1. Calls!Entry(f.id, active) \in Entries
  BY DEF Calls!Entry, Entries, CallTypes
<1>2. PICK on \in BOOLEAN, entries \in Seq(Entries) : capture = [on |-> on, entries |-> entries]
  BY DEF CallTypes
<1>3. Append(entries, Calls!Entry(f.id, active)) \in Seq(Entries)
  BY <1>1
<1>4. CASE on = TRUE
  <2>1. Calls!Captured(f) = [on |-> TRUE, entries |-> Append(entries, Calls!Entry(f.id, active))]
    BY <1>2, <1>4 DEF Calls!Captured
  <2>2. capture \in Captures /\ Calls!Captured(f) \in Captures
    BY <1>2, <1>3, <2>1
  <2>3. capture.on = TRUE /\ capture.entries = entries /\ Calls!Captured(f).on = TRUE
        /\ Calls!Captured(f).entries = Append(entries, Calls!Entry(f.id, active))
    BY <1>2, <1>4, <2>1
  <2> HIDE DEF Captures
  <2> QED BY <1>1, <2>2, <2>3
<1>5. CASE on = FALSE
  <2>1. Calls!Captured(f) = capture
    BY <1>2, <1>5 DEF Calls!Captured
  <2> QED BY <1>1, <1>2, <1>5, <2>1
<1> QED BY <1>4, <1>5

LEMMA EndingTypes ==
  ASSUME CallTypes, NEW f, NEW finished \in BOOLEAN, NEW c \in {capture, Calls!Captured(f)},
         Ending(f, finished, c)
  PROVE  /\ f \in FrameTypes /\ Len(stack) \in Nat \ {0} /\ f = stack[Len(stack)]
         /\ stack' \in Seq(FrameTypes) /\ Len(stack') = Len(stack) - 1
         /\ \A i \in 1 .. Len(stack') : stack'[i] = stack[i]
         /\ c \in Captures /\ c.on = capture.on /\ (~ capture.on => c = capture)
         /\ IF f.how = "direct" THEN active' = active /\ capture' = c
            ELSE active' = f.active /\ capture' = f.capture
         /\ outcomes' = [outcomes EXCEPT ![f.id] = Calls!Outcome(f, finished, c)]
         /\ Calls!Outcome(f, finished, c) \in Outcomes
<1>1. Len(stack) \in Nat \ {0} /\ f = stack[Len(stack)] /\ stack # <<>> /\ stack \in Seq(FrameTypes)
  BY DEF Ending, CallTypes
<1>2. f \in FrameTypes
  BY <1>1
<1>3. stack' = Calls!Front(stack)
  BY DEF Ending, Calls!Leave
<1>4. PICK t : t = Calls!Front(stack)
  OBVIOUS
<1>5. t \in Seq(FrameTypes) /\ Len(t) = Len(stack) - 1 /\ \A i \in 1 .. Len(t) : t[i] = stack[i]
  BY <1>1, <1>4, FrontIs
<1>6. c \in Captures /\ c.on = capture.on /\ (~ capture.on => c = capture)
  BY <1>2, CapturedTypes
<1>7. Calls!Outcome(f, finished, c) \in Outcomes
  <2>1. Len(c.entries) = 1 => c.entries[1] \in Entries
    BY <1>6 DEF Captures
  <2>2. f.how \in Hows
    BY <1>2 DEF FrameTypes
  <2> QED BY <2>1, <2>2, BindingsFacts DEF Calls!Outcome, Outcomes
<1>8. /\ IF f.how = "direct" THEN active' = active /\ capture' = c
         ELSE active' = f.active /\ capture' = f.capture
      /\ outcomes' = [outcomes EXCEPT ![f.id] = Calls!Outcome(f, finished, c)]
  BY DEF Ending, Calls!Leave, Calls!Restored
<1> QED BY <1>1, <1>2, <1>3, <1>4, <1>5, <1>6, <1>7, <1>8

LEMMA CallTypesKept ==
  ASSUME CallTypes, Calls!Next
  PROVE  CallTypes'
<1>0. made + 1 \in Nat /\ made \in Nat
  BY DEF CallTypes
<1>1. CASE Refusing
  <2>1. PICK how \in Hows :
          outcomes' = Append(outcomes, [how |-> how, result |-> "raised", entry |-> Calls!NoEntry])
    BY <1>1 DEF Refusing
  <2>2. [how |-> how, result |-> "raised", entry |-> Calls!NoEntry] \in Outcomes
    BY BindingsFacts DEF Outcomes
  <2>3. outcomes' \in Seq(Outcomes) /\ Len(outcomes') = made + 1
    BY <2>1, <2>2 DEF CallTypes
  <2> QED BY <1>0, <1>1, <2>3 DEF Refusing, CallTypes
<1>2. ASSUME NEW f \in FrameTypes, Entering(f)
      PROVE  CallTypes'
  <2>1. [how |-> f.how, result |-> "running", entry |-> Calls!NoEntry] \in Outcomes
    BY BindingsFacts DEF Outcomes, FrameTypes
  <2>2. outcomes' \in Seq(Outcomes) /\ Len(outcomes') = made + 1
    BY <1>2, <2>1 DEF CallTypes, Entering
  <2>3. <<"started", made + 1>> \in Events
    BY <1>0 DEF Events
  <2>4. log' \in Seq(Events)
    BY <1>2, <2>3 DEF CallTypes, Entering
  <2>5. stack' \in Seq(FrameTypes)
    BY <1>2 DEF CallTypes, Entering
  <2>6. active' \in Calls!Bindings /\ capture' \in Captures
    <3>1. <<>> \in Seq(Entries)
      OBVIOUS
    <3>2. [on |-> f.how = "detailed", entries |-> <<>>] \in Captures
      BY <3>1 DEF Captures
    <3> QED BY <1>2, <3>2 DEF CallTypes, Entering, FrameTypes
  <2>7. UNCHANGED <<store, logFaults>> /\ made' = made + 1
    BY <1>2 DEF Entering
  <2> QED BY <1>0, <2>2, <2>4, <2>5, <2>6, <2>7 DEF CallTypes
<1>3. CASE Calls!Change
  <2>1. PICK v \in CallVars, kind \in Kinds : store' = [store EXCEPT ![v] = kind]
    BY <1>3 DEF Calls!Change, Calls!Set, Calls!Grow, Kinds
  <2>2. store' \in [CallVars -> Kinds]
    BY <2>1 DEF CallTypes
  <2>3. UNCHANGED <<stack, active, capture, log, made, logFaults, outcomes>>
    BY <1>3 DEF Calls!Change
  <2> QED BY <2>2, <2>3 DEF CallTypes
<1>4. ASSUME NEW f, NEW finished \in BOOLEAN, NEW c \in {capture, Calls!Captured(f)},
             Ending(f, finished, c)
      PROVE  CallTypes'
  <2>1. /\ f \in FrameTypes /\ stack' \in Seq(FrameTypes) /\ c \in Captures
        /\ IF f.how = "direct" THEN active' = active /\ capture' = c
           ELSE active' = f.active /\ capture' = f.capture
        /\ outcomes' = [outcomes EXCEPT ![f.id] = Calls!Outcome(f, finished, c)]
        /\ Calls!Outcome(f, finished, c) \in Outcomes
    BY <1>4, EndingTypes
  <2>2. active' \in Calls!Bindings /\ capture' \in Captures
    BY <2>1 DEF CallTypes, FrameTypes
  <2>3. outcomes' \in Seq(Outcomes) /\ Len(outcomes') = made
    <3>1. PICK k, o, t : k = f.id /\ o = Calls!Outcome(f, finished, c) /\ t = outcomes'
      OBVIOUS
    <3>2. o \in Outcomes /\ outcomes \in Seq(Outcomes) /\ t = [outcomes EXCEPT ![k] = o]
      BY <2>1, <3>1 DEF CallTypes
    <3>3. t \in Seq(Outcomes) /\ Len(t) = Len(outcomes)
      <4>1. CASE k \in 1 .. Len(outcomes)
        BY <3>2, <4>1, ExceptSeq
      <4>2. CASE k \notin 1 .. Len(outcomes)
        <5>1. t = outcomes
          BY <3>2, <4>2
        <5> QED BY <3>2, <5>1
      <4> QED BY <4>1, <4>2
    <3> QED BY <3>1, <3>3 DEF CallTypes
  <2>4. store' \in [CallVars -> Kinds]
    BY <1>4 DEF CallTypes, Ending, Calls!Commit, Calls!KindOf, Kinds
  <2>5. logFaults' \in Nat /\ made' = made
    BY <1>4 DEF CallTypes, Ending
  <2>6. log' \in Seq(Events)
    <3>1. f.id \in Nat
      BY <2>1 DEF FrameTypes
    <3>2. <<IF finished THEN "finished" ELSE "failed", f.id>> \in Events
      BY <3>1 DEF Events
    <3> QED BY <1>4, <3>2 DEF CallTypes, Ending
  <2> QED BY <1>0, <2>1, <2>2, <2>3, <2>4, <2>5, <2>6 DEF CallTypes
<1> QED BY <1>1, <1>2, <1>3, <1>4, CallSteps

-----------------------------------------------------------------------------
(* What is active                                                          *)

(* What was active before frame i of s: what the innermost frame below it  *)
(* that came through the registry asked for, or nothing.                   *)
Asked(s, i, bindings, caught) ==
  \/ /\ \A j \in 1 .. i - 1 : s[j].how = "direct"
     /\ bindings = {} /\ caught = Calls!NoCapture
  \/ \E m \in 1 .. i - 1 :
       /\ s[m].how # "direct" /\ \A j \in 1 .. i - 1 : s[j].how # "direct" => j <= m
       /\ bindings = s[m].binds /\ caught.on = (s[m].how = "detailed")

Plain(caught) == ~ caught.on => caught = Calls!NoCapture

ContextInv ==
  /\ Asked(stack, Len(stack) + 1, active, capture) /\ Plain(capture)
  /\ \A i \in 1 .. Len(stack) : Asked(stack, i, stack[i].active, stack[i].capture) /\ Plain(stack[i].capture)

LEMMA AskedBelow ==
  ASSUME NEW s, NEW t, NEW i \in Nat, \A j \in 1 .. i - 1 : t[j] = s[j],
         NEW b, NEW c, Asked(s, i, b, c)
  PROVE  Asked(t, i, b, c)
BY DEF Asked

LEMMA EnteringContext ==
  ASSUME CallTypes, ContextInv, NEW f \in FrameTypes, Entering(f)
  PROVE  ContextInv'
<1> DEFINE n == Len(stack)
<1>1. PICK t : t = stack'
  OBVIOUS
<1>2. /\ Len(t) = n + 1 /\ n \in Nat /\ t[n + 1] = f
      /\ \A i \in 1 .. n : t[i] = stack[i]
  BY <1>1, AppendIs DEF CallTypes, Entering
<1>3. f.active = active /\ f.capture = capture
  BY DEF Entering
<1>4. ASSUME NEW i \in 1 .. n + 1
      PROVE  Asked(t, i, t[i].active, t[i].capture) /\ Plain(t[i].capture)
  <2>1. Asked(stack, i, t[i].active, t[i].capture) /\ Plain(t[i].capture)
    BY <1>2, <1>3 DEF ContextInv
  <2>2. i \in Nat /\ \A j \in 1 .. i - 1 : t[j] = stack[j]
    BY <1>2
  <2> QED BY <2>1, <2>2, AskedBelow
<1>5. PICK a, c : a = active' /\ c = capture'
  OBVIOUS
<1>6. Asked(t, n + 2, a, c) /\ Plain(c)
  <2>1. CASE f.how = "direct"
    <3>1. a = active /\ c = capture
      BY <1>5, <2>1 DEF Entering
    <3>2. Asked(t, n + 1, a, c) /\ Plain(c)
      BY <1>2, <1>3, <1>4, <3>1
    <3> QED BY <1>2, <2>1, <3>2 DEF Asked
  <2>2. CASE f.how # "direct"
    <3>1. a = f.binds /\ c = [on |-> f.how = "detailed", entries |-> <<>>]
      BY <1>5, <2>2 DEF Entering
    <3>2. Plain(c)
      BY <3>1 DEF Plain, Calls!NoCapture
    <3>3. n + 1 \in 1 .. n + 2 - 1 /\ \A j \in 1 .. n + 2 - 1 : j <= n + 1
      BY <1>2
    <3>4. a = t[n + 1].binds /\ c.on = (t[n + 1].how = "detailed") /\ t[n + 1].how # "direct"
      BY <1>2, <2>2, <3>1
    <3> QED BY <3>2, <3>3, <3>4 DEF Asked
  <2> QED BY <2>1, <2>2
<1> QED BY <1>1, <1>2, <1>4, <1>5, <1>6 DEF ContextInv

LEMMA EndingContext ==
  ASSUME CallTypes, ContextInv, NEW f, NEW finished \in BOOLEAN, NEW c \in {capture, Calls!Captured(f)},
         Ending(f, finished, c)
  PROVE  ContextInv'
<1> DEFINE n == Len(stack)
<1>1. PICK t, a, d : t = stack' /\ a = active' /\ d = capture'
  OBVIOUS
<1>2. /\ n \in Nat \ {0} /\ f = stack[n] /\ Len(t) = n - 1 /\ \A i \in 1 .. n - 1 : t[i] = stack[i]
      /\ c.on = capture.on /\ (~ capture.on => c = capture)
      /\ IF f.how = "direct" THEN a = active /\ d = c ELSE a = f.active /\ d = f.capture
  BY <1>1, EndingTypes
<1>3. ASSUME NEW i \in 1 .. n - 1
      PROVE  Asked(t, i, t[i].active, t[i].capture) /\ Plain(t[i].capture)
  <2>1. Asked(stack, i, t[i].active, t[i].capture) /\ Plain(t[i].capture)
    BY <1>2 DEF ContextInv
  <2>2. i \in Nat /\ \A j \in 1 .. i - 1 : t[j] = stack[j]
    BY <1>2
  <2> QED BY <2>1, <2>2, AskedBelow
<1>4. Asked(stack, n, a, d) /\ Plain(d)
  <2>1. CASE f.how # "direct"
    BY <1>2, <2>1 DEF ContextInv
  <2>2. CASE f.how = "direct"
    <3>1. Asked(stack, n + 1, active, capture) /\ Plain(capture)
      BY DEF ContextInv
    <3>2. \A m \in 1 .. n : stack[m].how # "direct" => m \in 1 .. n - 1
      BY <1>2, <2>2
    <3>3. a = active /\ d = c
      BY <1>2, <2>2
    <3>4. CASE \A j \in 1 .. n : stack[j].how = "direct"
      BY <1>2, <3>1, <3>3, <3>4 DEF Asked, Calls!NoCapture, Plain
    <3>5. ASSUME NEW m \in 1 .. n, stack[m].how # "direct",
                 \A j \in 1 .. n : stack[j].how # "direct" => j <= m,
                 active = stack[m].binds, capture.on = (stack[m].how = "detailed")
          PROVE  Asked(stack, n, a, d) /\ Plain(d)
      BY <1>2, <3>1, <3>2, <3>3, <3>5 DEF Asked, Plain
    <3>6. (n + 1) - 1 = n
      BY <1>2
    <3>7. \/ \A j \in 1 .. n : stack[j].how = "direct"
          \/ \E m \in 1 .. n : /\ stack[m].how # "direct"
                              /\ \A j \in 1 .. n : stack[j].how # "direct" => j <= m
                              /\ active = stack[m].binds
                              /\ capture.on = (stack[m].how = "detailed")
      BY <3>1, <3>6 DEF Asked
    <3> QED BY <3>4, <3>5, <3>7
  <2> QED BY <2>1, <2>2
<1>5. Asked(t, n, a, d)
  BY <1>2, <1>4, AskedBelow
<1> QED BY <1>1, <1>2, <1>3, <1>4, <1>5 DEF ContextInv

LEMMA ContextKept ==
  ASSUME CallTypes, ContextInv, Calls!Next
  PROVE  ContextInv'
<1>1. CASE UNCHANGED <<stack, active, capture>>
  BY <1>1 DEF ContextInv
<1>2. Refusing \/ Calls!Change => UNCHANGED <<stack, active, capture>>
  BY DEF Refusing, Calls!Change
<1> QED BY <1>1, <1>2, CallSteps, EnteringContext, EndingContext

LEMMA ContextMeant ==
  ASSUME CallTypes, ContextInv
  PROVE  Calls!ContextIsInnermost
<1> DEFINE n == Len(stack)
           through == {i \in DOMAIN stack : stack[i].how # "direct"}
<1>1. n \in Nat /\ DOMAIN stack = 1 .. n
  BY DEF CallTypes
<1>2. CASE through = {}
  <2>1. Calls!Innermost = 0
    BY <1>2 DEF Calls!Innermost
  <2>2. active = {} /\ capture = Calls!NoCapture
    BY <1>1, <1>2 DEF ContextInv, Asked
  <2> QED BY <2>1, <2>2 DEF Calls!ContextIsInnermost
<1>3. CASE through # {}
  <2>1. PICK m \in 1 .. n :
          /\ stack[m].how # "direct" /\ \A j \in 1 .. n : stack[j].how # "direct" => j <= m
          /\ active = stack[m].binds /\ capture.on = (stack[m].how = "detailed")
    BY <1>1, <1>3 DEF ContextInv, Asked
  <2>2. m \in through /\ \A j \in through : j <= m
    BY <1>1, <2>1
  <2>3. Calls!Innermost = CHOOSE i \in through : \A j \in through : j <= i
    BY <1>3 DEF Calls!Innermost
  <2>4. \A i \in through : (\A j \in through : j <= i) => i = m
    BY <1>1, <2>2
  <2>5. Calls!Innermost = m
    BY <2>2, <2>3, <2>4
  <2> QED BY <1>1, <2>1, <2>5 DEF Calls!ContextIsInnermost
<1> QED BY <1>2, <1>3

-----------------------------------------------------------------------------
(* What is bound and returned                                              *)

(* Calls are numbered as they begin; one that runs has bound nothing yet.  *)
RunningInv ==
  /\ \A i \in 1 .. Len(stack) : stack[i].id \in 1 .. made
  /\ \A i, j \in 1 .. Len(stack) : i < j => stack[i].id < stack[j].id
  /\ \A c \in commits : c.by \in 1 .. made /\ \A i \in 1 .. Len(stack) : stack[i].id # c.by

BoundInv == RunningInv /\ Calls!CommitsAreWhole /\ Calls!ReturnedIsOwn

LEMMA EndingCommits ==
  ASSUME CallTypes, NEW f, NEW finished \in BOOLEAN, NEW c \in {capture, Calls!Captured(f)},
         Ending(f, finished, c)
  PROVE  \/ commits' = commits
         \/ /\ active # {} /\ Calls!ValidBindings(f.step, active)
            /\ commits' = commits \cup {[by |-> f.id, step |-> f.step, bindings |-> active]}
BY DEF Ending, Calls!Commit

LEMMA EnteringBound ==
  ASSUME CallTypes, BoundInv, NEW f \in FrameTypes, Entering(f)
  PROVE  BoundInv'
<1>1. PICK t, l, q : t = stack' /\ l = log' /\ q = outcomes'
  OBVIOUS
<1>2. /\ Len(t) = Len(stack) + 1 /\ Len(stack) \in Nat /\ t[Len(stack) + 1] = f
      /\ \A i \in 1 .. Len(stack) : t[i] = stack[i]
  BY <1>1, AppendIs DEF CallTypes, Entering
<1>3. f.id = made + 1 /\ made' = made + 1 /\ made \in Nat /\ commits' = commits /\ logFaults' = logFaults
  BY DEF Entering, CallTypes
<1>4. RunningInv'
  <2>1. \A i \in 1 .. Len(stack) : t[i].id \in 1 .. made /\ t[i].id = stack[i].id
    BY <1>2 DEF BoundInv, RunningInv
  <2>2. \A i \in 1 .. Len(t) : t[i].id \in 1 .. made + 1
    BY <1>2, <1>3, <2>1
  <2>3. ASSUME NEW i \in 1 .. Len(t), NEW j \in 1 .. Len(t), i < j
        PROVE  t[i].id < t[j].id
    <3>1. i \in 1 .. Len(stack)
      BY <1>2, <2>3
    <3>2. CASE j = Len(stack) + 1
      BY <1>2, <1>3, <2>1, <3>1, <3>2
    <3>3. CASE j # Len(stack) + 1
      <4>1. j \in 1 .. Len(stack)
        BY <1>2, <3>3
      <4> QED BY <2>1, <2>3, <3>1, <4>1 DEF BoundInv, RunningInv
    <3> QED BY <3>2, <3>3
  <2>4. \A x \in commits : x.by \in 1 .. made
    BY DEF BoundInv, RunningInv
  <2>5. \A x \in commits : x.by \in 1 .. made + 1 /\ \A i \in 1 .. Len(t) : t[i].id # x.by
    BY <1>2, <1>3, <2>1, <2>4 DEF BoundInv, RunningInv
  <2> QED BY <1>1, <1>3, <2>2, <2>3, <2>5 DEF RunningInv
<1>5. <<"started", made + 1>> \in Events
  BY <1>3 DEF Events
<1>6. /\ Len(l) = Len(log) + 1 /\ Len(log) \in Nat /\ \A i \in 1 .. Len(log) : l[i] = log[i]
      /\ DOMAIN l = 1 .. Len(log) + 1 /\ DOMAIN log = 1 .. Len(log)
  BY <1>1, <1>5 DEF CallTypes, Entering
<1>7. Calls!CommitsAreWhole'
  <2>1. Calls!ToSet(log) \subseteq Calls!ToSet(l)
    BY <1>6 DEF Calls!ToSet
  <2> QED BY <1>1, <1>3, <2>1 DEF BoundInv, Calls!CommitsAreWhole
<1>8. [how |-> f.how, result |-> "running", entry |-> Calls!NoEntry] \in Outcomes
  BY BindingsFacts DEF Outcomes, FrameTypes
<1>9. /\ DOMAIN q = 1 .. made + 1 /\ DOMAIN outcomes = 1 .. made
      /\ \A k \in 1 .. made : q[k] = outcomes[k]
      /\ q[made + 1].result = "running"
  BY <1>1, <1>8 DEF CallTypes, Entering
<1>10. Calls!ReturnedIsOwn'
  BY <1>1, <1>3, <1>9 DEF BoundInv, Calls!ReturnedIsOwn
<1> QED BY <1>4, <1>7, <1>10 DEF BoundInv

LEMMA RefusingBound ==
  ASSUME CallTypes, BoundInv, Refusing
  PROVE  BoundInv'
<1>1. made' = made + 1 /\ made \in Nat /\ UNCHANGED <<stack, commits, log, logFaults>>
  BY DEF Refusing, CallTypes
<1>2. RunningInv' /\ Calls!CommitsAreWhole'
  BY <1>1 DEF BoundInv, RunningInv, Calls!CommitsAreWhole
<1>3. PICK how \in Hows :
        outcomes' = Append(outcomes, [how |-> how, result |-> "raised", entry |-> Calls!NoEntry])
  BY DEF Refusing
<1> DEFINE q == outcomes'
<1>4. [how |-> how, result |-> "raised", entry |-> Calls!NoEntry] \in Outcomes
  BY BindingsFacts DEF Outcomes
<1>5. /\ DOMAIN q = 1 .. made + 1 /\ DOMAIN outcomes = 1 .. made
      /\ \A k \in 1 .. made : q[k] = outcomes[k]
      /\ q[made + 1].result = "raised"
  BY <1>3, <1>4 DEF CallTypes
<1>6. Calls!ReturnedIsOwn'
  BY <1>1, <1>3, <1>5 DEF BoundInv, Calls!ReturnedIsOwn
<1> QED BY <1>2, <1>6 DEF BoundInv

LEMMA EndingBound ==
  ASSUME CallTypes, ContextInv, BoundInv, NEW f, NEW finished \in BOOLEAN,
         NEW c \in {capture, Calls!Captured(f)}, Ending(f, finished, c)
  PROVE  BoundInv'
<1> DEFINE n == Len(stack)
           new == [by |-> f.id, step |-> f.step, bindings |-> active]
<1>1. PICK t, l, q : t = stack' /\ l = log' /\ q = outcomes'
  OBVIOUS
<1>2. /\ n \in Nat \ {0} /\ f = stack[n] /\ Len(t) = n - 1 /\ \A i \in 1 .. n - 1 : t[i] = stack[i]
      /\ f \in FrameTypes /\ q = [outcomes EXCEPT ![f.id] = Calls!Outcome(f, finished, c)]
  BY <1>1, EndingTypes
<1>3. made' = made /\ made \in Nat /\ DOMAIN outcomes = 1 .. made /\ f.id \in 1 .. made /\ f.id \in Nat
  BY <1>2 DEF Ending, CallTypes, BoundInv, RunningInv
<1>4. commits' = commits \/ (active # {} /\ Calls!ValidBindings(f.step, active) /\ commits' = commits \cup {new})
  BY EndingCommits
<1>5. RunningInv'
  <2>1. \A i \in 1 .. n - 1 : t[i].id # f.id /\ t[i].id \in 1 .. made
    BY <1>2, <1>3 DEF BoundInv, RunningInv
  <2>2. \A i, j \in 1 .. n - 1 : i < j => t[i].id < t[j].id
    BY <1>2 DEF BoundInv, RunningInv
  <2>3. \A x \in commits' : x.by \in 1 .. made /\ \A i \in 1 .. n - 1 : t[i].id # x.by
    BY <1>2, <1>3, <1>4, <2>1 DEF BoundInv, RunningInv
  <2> QED BY <1>1, <1>2, <1>3, <2>1, <2>2, <2>3 DEF RunningInv
<1>6. PICK e : e = <<IF finished THEN "finished" ELSE "failed", f.id>> /\ l = Append(log, e)
  BY <1>1 DEF Ending
<1>7. e \in Events
  BY <1>3, <1>6 DEF Events
<1>8. /\ DOMAIN l = 1 .. Len(log) + 1 /\ DOMAIN log = 1 .. Len(log) /\ Len(log) \in Nat
      /\ l[Len(log) + 1] = e /\ \A i \in 1 .. Len(log) : l[i] = log[i]
  BY <1>6, <1>7 DEF CallTypes
<1>9. Calls!CommitsAreWhole'
  <2>1. logFaults \in Nat /\ logFaults' \in {logFaults, logFaults + 1}
    BY DEF CallTypes, Ending
  <2>2. commits' # commits /\ ~ finished => logFaults' = logFaults + 1
    BY DEF Ending
  <2>3. \A x \in Calls!ToSet(log) : x \in Calls!ToSet(l)
    BY <1>8 DEF Calls!ToSet
  <2>4. e \in Calls!ToSet(l)
    BY <1>8 DEF Calls!ToSet
  <2>5. ASSUME NEW x \in commits'
        PROVE  /\ Calls!ValidBindings(x.step, x.bindings)
               /\ \A d \in commits' : d.by = x.by => d = x
               /\ logFaults' = 0 => <<"finished", x.by>> \in Calls!ToSet(l)
    <3>1. CASE x \in commits
      <4>1. x.by # f.id
        BY <1>2, <3>1 DEF BoundInv, RunningInv
      <4> QED BY <1>4, <2>1, <2>3, <3>1, <4>1 DEF BoundInv, Calls!CommitsAreWhole
    <3>2. CASE x \notin commits
      <4>1. x = new /\ Calls!ValidBindings(f.step, active) /\ commits' = commits \cup {new}
        BY <1>4, <2>5, <3>2
      <4>2. \A d \in commits : d.by # f.id
        BY <1>2 DEF BoundInv, RunningInv
      <4>3. logFaults' = 0 => finished
        BY <2>1, <2>2, <2>5, <3>2
      <4> QED BY <1>6, <2>4, <4>1, <4>2, <4>3
    <3> QED BY <3>1, <3>2
  <2> QED BY <1>1, <2>5 DEF Calls!CommitsAreWhole
<1>10. ASSUME NEW k \in DOMAIN q, q[k].how = "detailed", q[k].result = "returned"
       PROVE  /\ q[k].entry.call = k
              /\ q[k].entry.bindings # {} => \E x \in commits' : x.by = k /\ x.bindings = q[k].entry.bindings
  <2>1. CASE k # f.id
    <3>1. q[k] = outcomes[k] /\ k \in DOMAIN outcomes /\ commits \subseteq commits'
      BY <1>2, <1>4, <1>10, <2>1
    <3> QED BY <1>10, <3>1 DEF BoundInv, Calls!ReturnedIsOwn
  <2>2. CASE k = f.id
    <3>1. q[k] = Calls!Outcome(f, finished, c)
      BY <1>2, <1>3, <2>2
    <3>2. finished = TRUE /\ f.how = "detailed" /\ Len(c.entries) = 1 /\ q[k].entry = c.entries[1]
      BY <1>10, <3>1 DEF Calls!Outcome
    <3>3. capture.on = TRUE
      <4>1. ~ \A j \in 1 .. n + 1 - 1 : stack[j].how = "direct"
        BY <1>2, <3>2
      <4>2. PICK m \in 1 .. n + 1 - 1 :
              /\ \A j \in 1 .. n + 1 - 1 : stack[j].how # "direct" => j <= m
              /\ capture.on = (stack[m].how = "detailed")
        BY <4>1 DEF ContextInv, Asked
      <4>3. m = n
        BY <1>2, <3>2, <4>2
      <4> QED BY <1>2, <3>2, <4>2, <4>3
    <3>4. c = Calls!Captured(f)
      BY <3>2 DEF Ending
    <3>5. c.entries = Append(capture.entries, Calls!Entry(f.id, active)) /\ Calls!Entry(f.id, active) \in Entries
      BY <1>2, <3>3, <3>4, CapturedTypes
    <3>6. capture.entries \in Seq(Entries)
      BY DEF CallTypes, Captures
    <3>7. c.entries[1] = Calls!Entry(f.id, active)
      BY <3>2, <3>5, <3>6
    <3>8. q[k].entry.call = f.id /\ q[k].entry.bindings = active
      BY <3>2, <3>7 DEF Calls!Entry
    <3>9. active = {} \/ new \in commits'
      BY <3>2 DEF Ending, Calls!Commit
    <3> QED BY <2>2, <3>8, <3>9
  <2> QED BY <2>1, <2>2
<1>11. Calls!ReturnedIsOwn'
  BY <1>1, <1>10 DEF Calls!ReturnedIsOwn
<1> QED BY <1>5, <1>9, <1>11 DEF BoundInv

LEMMA BoundKept ==
  ASSUME CallTypes, ContextInv, BoundInv, Calls!Next
  PROVE  BoundInv'
<1>1. CASE Calls!Change
  BY <1>1 DEF Calls!Change, BoundInv, RunningInv, Calls!CommitsAreWhole, Calls!ReturnedIsOwn
<1> QED BY <1>1, CallSteps, EnteringBound, RefusingBound, EndingBound

-----------------------------------------------------------------------------
(* What is logged                                                          *)

(* A step that runs has its start in the log and nothing else, later than  *)
(* those of the steps around it; what follows it is of steps inside it     *)
(* that run, or has its own counterpart after the start.                   *)
OpenInv(s, n, l, h) ==
  \A i \in 1 .. n :
    /\ \E k \in 1 .. h : l[k][2] = s[i].id
    /\ \A k \in 1 .. h :
         l[k][2] = s[i].id =>
           /\ l[k][1] = "started"
           /\ \A m \in 1 .. h : l[m][2] = s[i].id => m = k
           /\ \A j \in 1 .. n, m \in 1 .. h : i < j /\ l[m][2] = s[j].id => k < m
           /\ \A m \in 1 .. h :
                m > k => \/ \E j \in 1 .. n : i < j /\ l[m][2] = s[j].id
                         \/ \E p \in 1 .. h : p > k /\ p # m /\ l[p][2] = l[m][2]

Nested(l, h) ==
  \A i, j \in 1 .. h :
    i < j /\ l[i][2] = l[j][2] =>
      /\ l[i][1] = "started" /\ l[j][1] # "started"
      /\ \A k \in i .. j : \E m \in i .. j : m # k /\ l[m][2] = l[k][2]

LogInv ==
  /\ \A k \in 1 .. Len(log) : log[k][2] \in 1 .. made
  /\ OpenInv(stack, Len(stack), log, Len(log)) /\ Nested(log, Len(log))

SameUpTo(n, t, s) == \A i \in 1 .. n : t[i] = s[i]
NotRunning(id, s, n) == \A i \in 1 .. n : s[i].id # id
NotLogged(id, l, h) == \A k \in 1 .. h : l[k][2] # id

(* A new step is inside those that run.                                    *)
LEMMA OpenEntering ==
  ASSUME NEW n \in Nat, NEW s, NEW t, SameUpTo(n, t, s), NEW id, t[n + 1].id = id,
         NEW h \in Nat, NEW l, NEW r, SameUpTo(h, r, l), r[h + 1] = <<"started", id>>,
         NotLogged(id, l, h), NotRunning(id, s, n), OpenInv(s, n, l, h), Nested(l, h)
  PROVE  OpenInv(t, n + 1, r, h + 1) /\ Nested(r, h + 1)
<1> USE DEF SameUpTo, NotRunning, NotLogged
<1>1. r[h + 1][1] = "started" /\ r[h + 1][2] = id
  OBVIOUS
<1>2. Nested(r, h + 1)
  <2> SUFFICES ASSUME NEW i \in 1 .. h + 1, NEW j \in 1 .. h + 1, i < j, r[i][2] = r[j][2]
               PROVE  /\ r[i][1] = "started" /\ r[j][1] # "started"
                      /\ \A k \in i .. j : \E m \in i .. j : m # k /\ r[m][2] = r[k][2]
    BY DEF Nested
  <2>1. i \in 1 .. h /\ j \in 1 .. h /\ \A k \in i .. j : k \in 1 .. h
    BY <1>1
  <2>2. r[i] = l[i] /\ r[j] = l[j] /\ l[i][1] = "started" /\ l[j][1] # "started"
    BY <2>1 DEF Nested
  <2>3. ASSUME NEW k \in i .. j
        PROVE  \E m \in i .. j : m # k /\ r[m][2] = r[k][2]
    <3>1. PICK m \in i .. j : m # k /\ l[m][2] = l[k][2]
      BY <2>1, <2>2 DEF Nested
    <3> QED BY <2>1, <3>1
  <2> QED BY <2>2, <2>3
<1>3. ASSUME NEW i \in 1 .. n + 1
      PROVE  \E k \in 1 .. h + 1 : r[k][2] = t[i].id
  <2>1. CASE i = n + 1
    BY <1>1, <2>1
  <2>2. CASE i # n + 1
    <3>1. i \in 1 .. n
      BY <2>2
    <3> QED BY <3>1 DEF OpenInv
  <2> QED BY <2>1, <2>2
<1>4. ASSUME NEW i \in 1 .. n + 1, NEW k \in 1 .. h + 1, r[k][2] = t[i].id
      PROVE  /\ r[k][1] = "started"
             /\ \A m \in 1 .. h + 1 : r[m][2] = t[i].id => m = k
             /\ \A j \in 1 .. n + 1, m \in 1 .. h + 1 : i < j /\ r[m][2] = t[j].id => k < m
             /\ \A m \in 1 .. h + 1 :
                  m > k => \/ \E j \in 1 .. n + 1 : i < j /\ r[m][2] = t[j].id
                           \/ \E p \in 1 .. h + 1 : p > k /\ p # m /\ r[p][2] = r[m][2]
  <2>1. CASE i = n + 1
    <3>1. k = h + 1
      BY <1>4, <2>1
    <3> QED BY <1>1, <2>1, <3>1
  <2>2. CASE i # n + 1
    <3>1. i \in 1 .. n /\ t[i] = s[i] /\ s[i].id # id
      BY <2>2
    <3>2. k \in 1 .. h /\ l[k][2] = s[i].id /\ r[k] = l[k]
      BY <1>1, <1>4, <3>1
    <3>3. /\ l[k][1] = "started"
          /\ \A m \in 1 .. h : l[m][2] = s[i].id => m = k
          /\ \A j \in 1 .. n, m \in 1 .. h : i < j /\ l[m][2] = s[j].id => k < m
          /\ \A m \in 1 .. h :
               m > k => \/ \E j \in 1 .. n : i < j /\ l[m][2] = s[j].id
                        \/ \E p \in 1 .. h : p > k /\ p # m /\ l[p][2] = l[m][2]
      BY <3>1, <3>2 DEF OpenInv
    <3>4. ASSUME NEW m \in 1 .. h + 1, r[m][2] = t[i].id
          PROVE  m = k
      BY <1>1, <3>1, <3>3, <3>4
    <3>5. ASSUME NEW j \in 1 .. n + 1, NEW m \in 1 .. h + 1, i < j, r[m][2] = t[j].id
          PROVE  k < m
      <4>1. CASE m = h + 1
        BY <3>2, <4>1
      <4>2. CASE m # h + 1
        <5>1. m \in 1 .. h /\ l[m] = r[m] /\ j # n + 1
          BY <3>5, <4>2
        <5> QED BY <3>3, <3>5, <5>1
      <4> QED BY <4>1, <4>2
    <3>6. ASSUME NEW m \in 1 .. h + 1, m > k
          PROVE  \/ \E j \in 1 .. n + 1 : i < j /\ r[m][2] = t[j].id
                 \/ \E p \in 1 .. h + 1 : p > k /\ p # m /\ r[p][2] = r[m][2]
      <4>1. CASE m = h + 1
        BY <1>1, <3>1, <4>1
      <4>2. CASE m # h + 1
        <5>1. m \in 1 .. h /\ r[m] = l[m]
          BY <4>2
        <5>2. CASE \E j \in 1 .. n : i < j /\ l[m][2] = s[j].id
          BY <5>1, <5>2
        <5>3. CASE \E p \in 1 .. h : p > k /\ p # m /\ l[p][2] = l[m][2]
          BY <5>1, <5>3
        <5> QED BY <3>3, <3>6, <5>1, <5>2, <5>3
      <4> QED BY <4>1, <4>2
    <3> QED BY <3>2, <3>3, <3>4, <3>5, <3>6
  <2> QED BY <2>1, <2>2
<1> QED BY <1>2, <1>3, <1>4 DEF OpenInv

(* The end of the innermost step closes what it contains.                  *)
LEMMA OpenEnding ==
  ASSUME NEW n \in Nat, NEW s, NEW t, SameUpTo(n, t, s), NEW id, s[n + 1].id = id,
         NEW h \in Nat, NEW l, NEW r, SameUpTo(h, r, l),
         r[h + 1][2] = id, r[h + 1][1] # "started", NotRunning(id, s, n),
         OpenInv(s, n + 1, l, h), Nested(l, h)
  PROVE  OpenInv(t, n, r, h + 1) /\ Nested(r, h + 1)
<1> USE DEF SameUpTo, NotRunning
<1>1. PICK start \in 1 .. h : l[start][2] = id
  BY DEF OpenInv
<1>2. /\ l[start][1] = "started" /\ \A m \in 1 .. h : l[m][2] = id => m = start
      /\ \A m \in 1 .. h : m > start => \E p \in 1 .. h : p > start /\ p # m /\ l[p][2] = l[m][2]
  <2>1. ~ \E j \in 1 .. n + 1 : n + 1 < j
    OBVIOUS
  <2> QED BY <1>1, <2>1 DEF OpenInv
<1>3. Nested(r, h + 1)
  <2> SUFFICES ASSUME NEW i \in 1 .. h + 1, NEW j \in 1 .. h + 1, i < j, r[i][2] = r[j][2]
               PROVE  /\ r[i][1] = "started" /\ r[j][1] # "started"
                      /\ \A k \in i .. j : \E m \in i .. j : m # k /\ r[m][2] = r[k][2]
    BY DEF Nested
  <2>1. CASE j # h + 1
    <3>1. i \in 1 .. h /\ j \in 1 .. h /\ \A k \in i .. j : k \in 1 .. h
      BY <2>1
    <3>2. r[i] = l[i] /\ r[j] = l[j] /\ l[i][1] = "started" /\ l[j][1] # "started"
      BY <3>1 DEF Nested
    <3>3. ASSUME NEW k \in i .. j
          PROVE  \E m \in i .. j : m # k /\ r[m][2] = r[k][2]
      <4>1. PICK m \in i .. j : m # k /\ l[m][2] = l[k][2]
        BY <3>1, <3>2 DEF Nested
      <4> QED BY <3>1, <4>1
    <3> QED BY <3>2, <3>3
  <2>2. CASE j = h + 1
    <3>1. i \in 1 .. h /\ l[i][2] = id
      BY <2>2
    <3>2. i = start /\ r[i] = l[i]
      BY <1>2, <3>1
    <3>3. ASSUME NEW k \in start .. h + 1
          PROVE  \E m \in start .. h + 1 : m # k /\ r[m][2] = r[k][2]
      <4>1. CASE k = start
        <5>1. h + 1 \in start .. h + 1 /\ h + 1 # k /\ r[h + 1][2] = r[k][2]
          BY <1>1, <4>1
        <5> QED BY <5>1
      <4>2. CASE k = h + 1
        <5>1. start \in start .. h + 1 /\ start # k /\ r[start][2] = r[k][2]
          BY <1>1, <4>2
        <5> QED BY <5>1
      <4>3. CASE k # start /\ k # h + 1
        <5>1. k \in 1 .. h /\ k > start
          BY <4>3
        <5>2. PICK p \in 1 .. h : p > start /\ p # k /\ l[p][2] = l[k][2]
          BY <1>2, <5>1
        <5>3. p \in start .. h + 1 /\ p # k /\ r[p][2] = r[k][2]
          BY <5>1, <5>2
        <5> QED BY <5>3
      <4> QED BY <4>1, <4>2, <4>3
    <3> QED BY <1>2, <2>2, <3>2, <3>3
  <2> QED BY <2>1, <2>2
<1>4. ASSUME NEW i \in 1 .. n
      PROVE  \E k \in 1 .. h + 1 : r[k][2] = t[i].id
  <2>1. PICK k \in 1 .. h : l[k][2] = s[i].id
    BY DEF OpenInv
  <2> QED BY <2>1
<1>5. ASSUME NEW i \in 1 .. n, NEW k \in 1 .. h + 1, r[k][2] = t[i].id
      PROVE  /\ r[k][1] = "started"
             /\ \A m \in 1 .. h + 1 : r[m][2] = t[i].id => m = k
             /\ \A j \in 1 .. n, m \in 1 .. h + 1 : i < j /\ r[m][2] = t[j].id => k < m
             /\ \A m \in 1 .. h + 1 :
                  m > k => \/ \E j \in 1 .. n : i < j /\ r[m][2] = t[j].id
                           \/ \E p \in 1 .. h + 1 : p > k /\ p # m /\ r[p][2] = r[m][2]
  <2>1. i \in 1 .. n + 1 /\ t[i] = s[i] /\ s[i].id # id
    OBVIOUS
  <2>2. k \in 1 .. h /\ l[k][2] = s[i].id /\ r[k] = l[k]
    BY <1>5, <2>1
  <2>3. /\ l[k][1] = "started"
        /\ \A m \in 1 .. h : l[m][2] = s[i].id => m = k
        /\ \A j \in 1 .. n + 1, m \in 1 .. h : i < j /\ l[m][2] = s[j].id => k < m
        /\ \A m \in 1 .. h :
             m > k => \/ \E j \in 1 .. n + 1 : i < j /\ l[m][2] = s[j].id
                      \/ \E p \in 1 .. h : p > k /\ p # m /\ l[p][2] = l[m][2]
    BY <2>1, <2>2 DEF OpenInv
  <2>4. start > k
    BY <1>1, <2>3
  <2>5. ASSUME NEW m \in 1 .. h + 1, r[m][2] = t[i].id
        PROVE  m = k
    BY <2>1, <2>3, <2>5
  <2>6. ASSUME NEW j \in 1 .. n, NEW m \in 1 .. h + 1, i < j, r[m][2] = t[j].id
        PROVE  k < m
    <3>1. m \in 1 .. h /\ j \in 1 .. n + 1 /\ l[m][2] = s[j].id
      BY <2>6
    <3> QED BY <2>3, <2>6, <3>1
  <2>7. ASSUME NEW m \in 1 .. h + 1, m > k
        PROVE  \/ \E j \in 1 .. n : i < j /\ r[m][2] = t[j].id
               \/ \E p \in 1 .. h + 1 : p > k /\ p # m /\ r[p][2] = r[m][2]
    <3>1. CASE m = h + 1
      <4>1. start > k /\ start # m /\ r[start][2] = r[m][2] /\ start \in 1 .. h + 1
        BY <1>1, <2>4, <3>1
      <4> QED BY <4>1
    <3>2. CASE m # h + 1 /\ l[m][2] = id
      <4>1. h + 1 > k /\ h + 1 # m /\ r[h + 1][2] = r[m][2]
        BY <2>2, <3>2
      <4> QED BY <4>1
    <3>3. CASE m # h + 1 /\ l[m][2] # id
      <4>1. m \in 1 .. h /\ r[m] = l[m]
        BY <3>3
      <4>2. ASSUME NEW j \in 1 .. n + 1, i < j, l[m][2] = s[j].id
            PROVE  \E x \in 1 .. n : i < x /\ r[m][2] = t[x].id
        <5>1. j \in 1 .. n /\ t[j] = s[j]
          BY <3>3, <4>2
        <5> QED BY <4>1, <4>2, <5>1
      <4>3. ASSUME NEW p \in 1 .. h, p > k, p # m, l[p][2] = l[m][2]
            PROVE  \E x \in 1 .. h + 1 : x > k /\ x # m /\ r[x][2] = r[m][2]
        BY <4>1, <4>3
      <4> QED BY <2>3, <2>7, <4>1, <4>2, <4>3
    <3> QED BY <3>1, <3>2, <3>3
  <2> QED BY <2>2, <2>3, <2>5, <2>6, <2>7
<1> QED BY <1>3, <1>4, <1>5 DEF OpenInv

LEMMA LogKept ==
  ASSUME CallTypes, BoundInv, LogInv, Calls!Next
  PROVE  LogInv'
<1> DEFINE n == Len(stack)
           h == Len(log)
<1>0. n \in Nat /\ h \in Nat /\ made \in Nat
  BY DEF CallTypes
<1>1. CASE Refusing \/ Calls!Change
  <2>1. UNCHANGED <<stack, log>> /\ made' \in {made, made + 1}
    BY <1>1 DEF Refusing, Calls!Change
  <2> QED BY <1>0, <2>1 DEF LogInv
<1>2. ASSUME NEW f \in FrameTypes, Entering(f)
      PROVE  LogInv'
  <2>1. PICK t, r : t = stack' /\ r = log'
    OBVIOUS
  <2>2. Len(t) = n + 1 /\ t[n + 1] = f /\ \A i \in 1 .. n : t[i] = stack[i]
    BY <1>2, <2>1, AppendIs DEF CallTypes, Entering
  <2>3. <<"started", made + 1>> \in Events
    BY <1>0 DEF Events
  <2>4. Len(r) = h + 1 /\ r[h + 1] = <<"started", made + 1>> /\ \A k \in 1 .. h : r[k] = log[k]
    BY <1>2, <2>1, <2>3 DEF CallTypes, Entering
  <2>5. f.id = made + 1 /\ made' = made + 1
    BY <1>2 DEF Entering
  <2>6. NotLogged(made + 1, log, h)
    BY <1>0 DEF LogInv, NotLogged
  <2>7. NotRunning(made + 1, stack, n)
    BY <1>0 DEF BoundInv, RunningInv, NotRunning
  <2>8. OpenInv(stack, n, log, h) /\ Nested(log, h)
    BY DEF LogInv
  <2>9. OpenInv(t, n + 1, r, h + 1) /\ Nested(r, h + 1)
    <3>1. t[n + 1].id = made + 1 /\ SameUpTo(n, t, stack) /\ SameUpTo(h, r, log)
      BY <2>2, <2>4, <2>5 DEF SameUpTo
    <3> HIDE DEF n, h
    <3> QED BY <1>0, <2>4, <2>6, <2>7, <2>8, <3>1, OpenEntering
  <2>10. \A k \in 1 .. h + 1 : r[k][2] \in 1 .. made + 1
    BY <1>0, <2>4 DEF LogInv
  <2> QED BY <2>1, <2>2, <2>4, <2>5, <2>9, <2>10 DEF LogInv
<1>3. ASSUME NEW f, NEW finished \in BOOLEAN, NEW c \in {capture, Calls!Captured(f)},
             Ending(f, finished, c)
      PROVE  LogInv'
  <2>1. PICK t, r : t = stack' /\ r = log'
    OBVIOUS
  <2>2. /\ n \in Nat \ {0} /\ f = stack[n] /\ f \in FrameTypes /\ Len(t) = n - 1
        /\ \A i \in 1 .. n - 1 : t[i] = stack[i]
    BY <1>3, <2>1, EndingTypes
  <2>3. f.id \in 1 .. made /\ made' = made
    BY <1>3, <2>2 DEF Ending, BoundInv, RunningInv
  <2>4. PICK e : e = <<IF finished THEN "finished" ELSE "failed", f.id>> /\ r = Append(log, e)
    BY <1>3, <2>1 DEF Ending
  <2>5. e \in Events /\ e[2] = f.id /\ e[1] # "started"
    BY <2>2, <2>4 DEF Events, FrameTypes
  <2>6. Len(r) = h + 1 /\ r[h + 1] = e /\ \A k \in 1 .. h : r[k] = log[k]
    BY <2>4, <2>5 DEF CallTypes
  <2>7. PICK m \in Nat : n = m + 1
    BY <2>2
  <2>8. NotRunning(f.id, stack, m)
    BY <2>2, <2>7 DEF BoundInv, RunningInv, NotRunning
  <2>9. OpenInv(stack, m + 1, log, h) /\ Nested(log, h) /\ stack[m + 1].id = f.id
    BY <2>2, <2>7 DEF LogInv
  <2>10. OpenInv(t, m, r, h + 1) /\ Nested(r, h + 1) /\ Len(t) = m
    <3>1. r[h + 1][2] = f.id /\ r[h + 1][1] # "started"
      BY <2>5, <2>6
    <3>2. SameUpTo(m, t, stack) /\ SameUpTo(h, r, log) /\ Len(t) = m
      BY <2>2, <2>6, <2>7 DEF SameUpTo
    <3> HIDE DEF n, h
    <3> QED BY <1>0, <2>8, <2>9, <3>1, <3>2, OpenEnding
  <2>11. \A k \in 1 .. h + 1 : r[k][2] \in 1 .. made
    BY <1>0, <2>3, <2>5, <2>6 DEF LogInv
  <2> QED BY <2>1, <2>2, <2>3, <2>6, <2>10, <2>11 DEF LogInv
<1> QED BY <1>1, <1>2, <1>3, CallSteps

-----------------------------------------------------------------------------
(* What a step binds, returns and logs, together                           *)

CallInv == CallTypes /\ ContextInv /\ BoundInv /\ LogInv

LEMMA CallStart == Calls!Init => CallInv
<1> SUFFICES ASSUME Calls!Init PROVE CallInv
  OBVIOUS
<1>1. /\ stack = <<>> /\ active = {} /\ capture = Calls!NoCapture /\ log = <<>> /\ outcomes = <<>>
      /\ commits = {} /\ made = 0 /\ logFaults = 0 /\ store = [v \in CallVars |-> "unset"]
  BY DEF Calls!Init, Calls!Unset
<1>2. <<>> \in Seq(FrameTypes) /\ <<>> \in Seq(Events) /\ <<>> \in Seq(Outcomes) /\ Len(<<>>) = 0
      /\ DOMAIN <<>> = {}
  OBVIOUS
<1>3. CallTypes
  BY <1>1, <1>2, BindingsFacts DEF CallTypes, Kinds
<1>4. Asked(stack, 1, active, capture) /\ Plain(capture)
  BY <1>1 DEF Asked, Plain
<1>5. ContextInv
  BY <1>1, <1>2, <1>4 DEF ContextInv
<1>6. BoundInv
  BY <1>1, <1>2 DEF BoundInv, RunningInv, Calls!CommitsAreWhole, Calls!ReturnedIsOwn
<1>7. LogInv
  BY <1>1, <1>2 DEF LogInv, OpenInv, Nested
<1> QED BY <1>3, <1>5, <1>6, <1>7 DEF CallInv

LEMMA CallStutter == CallInv /\ UNCHANGED Calls!vars => CallInv'
BY DEF CallInv, CallTypes, ContextInv, BoundInv, RunningInv, LogInv, Calls!CommitsAreWhole,
  Calls!ReturnedIsOwn, Calls!vars

LEMMA CallNext == CallInv /\ Calls!Next => CallInv'
BY CallTypesKept, ContextKept, BoundKept, LogKept DEF CallInv

LEMMA CallMeant == CallInv => Calls!InvocationsAreTransactions
<1> SUFFICES ASSUME CallInv PROVE Calls!InvocationsAreTransactions
  OBVIOUS
<1>1. DOMAIN log = 1 .. Len(log)
  BY DEF CallInv, CallTypes
<1>2. Calls!LogIsNested
  BY <1>1 DEF CallInv, LogInv, Nested, Calls!LogIsNested
<1> QED BY <1>2, ContextMeant DEF CallInv, BoundInv, Calls!InvocationsAreTransactions

(* Every step called through the registry or directly, however deep and    *)
(* however the steps around it end, binds what it declares in one          *)
(* transaction of its own, gives its caller its own result and logs its    *)
(* start and end around those of the steps inside it (StepRegistry._invoke *)
(* and its wrapper). A run of a bundle leaves nothing running, and its     *)
(* verdict is the one of its test (run_bundle).                            *)
THEOREM RunsHonestly == Spec => []RunsAreHonest
<1> DEFINE RunInv == (part = "calls" => CallInv) /\ (part = "bundles" => BundleInv)
<1>1. Init => RunInv
  BY CallStart, BundleStart DEF Init
<1>2. RunInv /\ [Next]_vars => RunInv'
  <2> SUFFICES ASSUME RunInv, [Next]_vars PROVE RunInv'
    OBVIOUS
  <2>1. CASE vars' = vars
    <3>1. part' = part /\ UNCHANGED Calls!vars /\ UNCHANGED Bundles!vars
      BY <2>1 DEF vars, onlyCalls, onlyBundles, Calls!vars, Bundles!vars
    <3> QED BY <3>1, CallStutter, BundleNext
  <2>2. CASE Next
    <3>1. part' = part /\ (part = "calls" => Calls!Next) /\ (part = "bundles" => Bundles!Next)
      BY <2>2 DEF Next
    <3> QED BY <3>1, CallNext, BundleNext
  <2> QED BY <2>1, <2>2
<1>3. RunInv => RunsAreHonest
  BY CallMeant, BundleMeant DEF RunsAreHonest
<1> HIDE DEF RunInv
<1> QED BY <1>1, <1>2, <1>3, PTL DEF Spec

-----------------------------------------------------------------------------
(* Induction over data: over the numbers, and over the elements a fold     *)
(* takes one by one, the largest index last.                               *)

LessThan == {ss \in Nat \X Nat : ss[1] < ss[2]}
LEMMA LessThanIsWellFounded == IsWellFoundedOn(LessThan, Nat)
<1>1. LessThan = OpToRel(<, Nat)
  BY DEF LessThan, OpToRel
<1> QED BY <1>1, NatLessThanWellFounded

LEMMA InductionOnSets ==
  ASSUME NEW T, 0 \in T, \A n \in Nat : n \in T => n + 1 \in T
  PROVE  Nat \subseteq T
<1> DEFINE U == Nat \ T
<1> SUFFICES ASSUME U # {} PROVE FALSE
  OBVIOUS
<1>1. PICK x \in U : \A y \in U : ~ (<<y, x>> \in LessThan)
  <2> HIDE DEF U
  <2>2. U \subseteq Nat
    BY DEF U
  <2> QED BY LessThanIsWellFounded, <2>2, WFMin
<1>2. x \in Nat /\ x # 0
  BY <1>1
<1>3. x - 1 \in Nat /\ x - 1 \notin U
  <2>1. x - 1 \in Nat /\ <<x - 1, x>> \in LessThan
    BY <1>2 DEF LessThan
  <2> QED BY <1>1, <2>1
<1> QED
  <2>1. x - 1 \in T
    BY <1>3
  <2>2. (x - 1) + 1 \in T
    BY <1>3, <2>1
  <2> QED BY <1>2, <2>2

(* The largest number of a set, as a fold over a sequence takes it.        *)
Largest(S) == CHOOSE x \in S : \A y \in S : x >= y

LEMMA LargestOfAll ==
  ASSUME NEW n \in Nat, NEW S, S \subseteq 1 .. n + 1, n + 1 \in S
  PROVE  Largest(S) = n + 1 /\ S \ {n + 1} \subseteq 1 .. n
<1>1. \A y \in S : n + 1 >= y
  OBVIOUS
<1>2. \A x \in S : (\A y \in S : x >= y) => x = n + 1
  OBVIOUS
<1>3. Largest(S) = n + 1
  BY <1>1, <1>2 DEF Largest
<1> QED BY <1>3

LEMMA LargestIn ==
  ASSUME NEW m \in Nat, NEW r \in SUBSET (1 .. m), r # {}
  PROVE  Largest(r) \in r
<1> DEFINE T == {n \in Nat : \A s \in SUBSET (1 .. n) : s # {} => Largest(s) \in s}
<1>1. 0 \in T
  <2>1. \A s \in SUBSET (1 .. 0) : s = {}
    OBVIOUS
  <2> QED BY <2>1
<1>2. ASSUME NEW n \in Nat, n \in T PROVE n + 1 \in T
  <2> SUFFICES ASSUME NEW s \in SUBSET (1 .. n + 1), s # {} PROVE Largest(s) \in s
    OBVIOUS
  <2>1. CASE n + 1 \in s
    BY <2>1, LargestOfAll
  <2>2. CASE n + 1 \notin s
    <3>1. s \in SUBSET (1 .. n)
      BY <2>2
    <3> QED BY <1>2, <3>1
  <2> QED BY <2>1, <2>2
<1>3. Nat \subseteq T
  <2> HIDE DEF T
  <2> QED BY <1>1, <1>2, InductionOnSets
<1> QED BY <1>3

(* Folds over the first n elements of a sequence, as functions of the set  *)
(* of indices that is folded.                                              *)
Folding(n, base, F, X) ==
  {g \in [SUBSET (1 .. n) -> X] :
     \A s \in SUBSET (1 .. n) : g[s] = IF s = {} THEN base ELSE F[Largest(s)][g[s \ {Largest(s)}]]}

LEMMA FoldExists ==
  ASSUME NEW X, NEW base \in X, NEW m \in Nat, NEW F \in [1 .. m -> [X -> X]]
  PROVE  Folding(m, base, F, X) # {}
<1> DEFINE T == {n \in Nat : n <= m => Folding(n, base, F, X) # {}}
<1>1. 0 \in T
  <2> DEFINE g == [s \in SUBSET (1 .. 0) |-> base]
  <2>1. g \in Folding(0, base, F, X)
    <3>1. \A s \in SUBSET (1 .. 0) : s = {}
      OBVIOUS
    <3> QED BY <3>1 DEF Folding
  <2> QED BY <2>1
<1>2. ASSUME NEW n \in Nat, n \in T PROVE n + 1 \in T
  <2> SUFFICES ASSUME n + 1 <= m PROVE Folding(n + 1, base, F, X) # {}
    OBVIOUS
  <2>1. PICK g : g \in Folding(n, base, F, X)
    BY <1>2
  <2> DEFINE h == [s \in SUBSET (1 .. n + 1) |->
                     IF n + 1 \in s THEN F[n + 1][g[s \ {n + 1}]] ELSE g[s]]
  <2>2. ASSUME NEW s \in SUBSET (1 .. n + 1), n + 1 \in s
        PROVE  /\ Largest(s) = n + 1 /\ s \ {n + 1} \in SUBSET (1 .. n)
               /\ g[s \ {n + 1}] \in X /\ h[s] \in X
               /\ h[s] = F[Largest(s)][h[s \ {Largest(s)}]]
    <3>1. Largest(s) = n + 1 /\ s \ {n + 1} \in SUBSET (1 .. n)
      BY <2>2, LargestOfAll
    <3>2. g[s \ {n + 1}] \in X
      BY <3>1, <2>1 DEF Folding
    <3>3. F[n + 1][g[s \ {n + 1}]] \in X
      BY <3>2
    <3>4. h[s \ {n + 1}] = g[s \ {n + 1}]
      BY <3>1
    <3> QED BY <3>1, <3>2, <3>3, <3>4, <2>2
  <2>3. ASSUME NEW s \in SUBSET (1 .. n + 1), n + 1 \notin s
        PROVE  /\ s \in SUBSET (1 .. n) /\ h[s] = g[s] /\ h[s] \in X
               /\ h[s] = IF s = {} THEN base ELSE F[Largest(s)][h[s \ {Largest(s)}]]
    <3>1. s \in SUBSET (1 .. n)
      BY <2>3
    <3>2. h[s] = g[s] /\ g[s] \in X
      BY <3>1, <2>3, <2>1 DEF Folding
    <3>3. g[s] = IF s = {} THEN base ELSE F[Largest(s)][g[s \ {Largest(s)}]]
      BY <3>1, <2>1 DEF Folding
    <3>4. h[s \ {Largest(s)}] = g[s \ {Largest(s)}]
      BY <2>3
    <3> QED BY <3>1, <3>2, <3>3, <3>4
  <2>4. h \in Folding(n + 1, base, F, X)
    <3> HIDE DEF h
    <3>1. h \in [SUBSET (1 .. n + 1) -> X]
      BY <2>2, <2>3 DEF h
    <3>2. \A s \in SUBSET (1 .. n + 1) :
            h[s] = IF s = {} THEN base ELSE F[Largest(s)][h[s \ {Largest(s)}]]
      BY <2>2, <2>3
    <3> QED BY <3>1, <3>2 DEF Folding
  <2> QED BY <2>4
<1>3. Nat \subseteq T
  <2> HIDE DEF T
  <2> QED BY <1>1, <1>2, InductionOnSets
<1> QED BY <1>3

(* What holds of the start of a fold and of each of its steps holds of it. *)
LEMMA FoldStays ==
  ASSUME NEW X, NEW m \in Nat, NEW iter, iter[{}] \in X,
         \A s \in SUBSET (1 .. m) : s # {} /\ iter[s \ {Largest(s)}] \in X => iter[s] \in X
  PROVE  iter[1 .. m] \in X
<1> DEFINE T == {n \in Nat : n <= m => \A s \in SUBSET (1 .. n) : iter[s] \in X}
<1>1. 0 \in T
  <2>1. \A s \in SUBSET (1 .. 0) : s = {}
    OBVIOUS
  <2> QED BY <2>1
<1>2. ASSUME NEW n \in Nat, n \in T PROVE n + 1 \in T
  <2> SUFFICES ASSUME n + 1 <= m, NEW s \in SUBSET (1 .. n + 1) PROVE iter[s] \in X
    OBVIOUS
  <2>1. CASE n + 1 \in s
    <3>1. Largest(s) = n + 1 /\ s \ {n + 1} \in SUBSET (1 .. n)
      BY <2>1, LargestOfAll
    <3>2. s \in SUBSET (1 .. m) /\ s # {}
      BY <2>1
    <3>3. iter[s \ {Largest(s)}] \in X
      <4>1. \A r \in SUBSET (1 .. n) : iter[r] \in X
        BY <1>2
      <4> QED BY <3>1, <4>1
    <3> QED BY <3>2, <3>3
  <2>2. CASE n + 1 \notin s
    <3>1. s \in SUBSET (1 .. n)
      BY <2>2
    <3> QED BY <1>2, <3>1
  <2> QED BY <2>1, <2>2
<1>3. Nat \subseteq T
  <2> HIDE DEF T
  <2> QED BY <1>1, <1>2, InductionOnSets
<1>4. \A s \in SUBSET (1 .. m) : iter[s] \in X
  BY <1>3
<1>5. 1 .. m \in SUBSET (1 .. m)
  OBVIOUS
<1> QED BY <1>4, <1>5

-----------------------------------------------------------------------------
(* IdentityForm: what the form shows, edits, recaptures and saves.         *)

LEMMA FirstIs ==
  ASSUME IsFiniteSet(Objects)
  PROVE  \E n \in Nat : /\ Identity!First \in [1 .. n -> Objects]
                        /\ \A i, j \in 1 .. n : Identity!First[i] = Identity!First[j] => i = j
                        /\ \A o \in Objects : \E i \in 1 .. n : Identity!First[i] = o
<1> DEFINE n == Cardinality(Objects)
<1>1. n \in Nat /\ ExistsBijection(1 .. n, Objects)
  BY FS_CardinalityType
<1>2. Identity!Cardinality(Objects) = n
  BY DEF Identity!Cardinality, Cardinality
<1> HIDE DEF n
<1>3. PICK f \in Bijection(1 .. n, Objects) : TRUE
  BY <1>1 DEF ExistsBijection
<1>4. f \in [1 .. n -> Objects] /\ Identity!IsInjective(f)
  BY <1>3 DEF Bijection, Injection, IsInjective, Identity!IsInjective
<1>5. Identity!First \in [1 .. n -> Objects] /\ Identity!IsInjective(Identity!First)
  BY <1>2, <1>4 DEF Identity!First, Identity!SetToSeq
<1>6. Identity!First \in Injection(1 .. n, Objects)
  BY <1>5 DEF Injection, IsInjective, Identity!IsInjective
<1>7. Cardinality(1 .. n) = n
  BY <1>1, FS_Interval
<1>8. Cardinality(1 .. n) = Cardinality(Objects)
  BY <1>7 DEF n
<1>9. Identity!First \in Surjection(1 .. n, Objects)
  BY <1>6, <1>8, FS_Injection
<1>10. \A o \in Objects : \E i \in 1 .. n : Identity!First[i] = o
  BY <1>9 DEF Surjection
<1> QED BY <1>1, <1>5, <1>10 DEF Identity!IsInjective

Fields == {"name", "kind", "locator", "rev", "properties", "inventory"}
Pair(c) == c = <<c[1], c[2]>>

(* Mandatory conditions of an object that captures or the user made.       *)
Made(o, conditions, by, shot) ==
  /\ \A c \in shot :
       c[1] \in Identity!Volatile \cup Identity!Session \/ <<o, c[1]>> \in by \/ c \in conditions
  /\ \A c \in conditions :
       Pair(c) /\ (c \in shot \/ (c[2] = Identity!Typed /\ <<o, c[1]>> \in by))

TreeInv ==
  /\ repo = [o \in DOMAIN repo |-> repo[o]]
  /\ DOMAIN repo \subseteq DOMAIN overrides /\ DOMAIN overrides \subseteq Objects
  /\ DOMAIN names = DOMAIN overrides /\ DOMAIN captured = Objects
  /\ tree \in Seq(DOMAIN repo)
  /\ \A i, j \in 1 .. Len(tree) : tree[i] = tree[j] => i = j
  /\ form.of \in seen \cup {Identity!Nobody}

(* Every object has a definition, and the names are apart.                 *)
Defined(d) ==
  /\ DOMAIN d = Fields /\ d.kind \in {"javafx", "atspi", "visual"}
  /\ "recorded" \in d.inventory
  /\ d.kind # "visual" => d.locator.mandatory # {}
DefinitionsInv ==
  /\ \A o \in DOMAIN repo : Defined(repo[o]) /\ Made(o, repo[o].locator.mandatory, touched, captured[o])
  /\ \A o \in DOMAIN repo : repo[o].kind # "visual" => overrides[o].mandatory # {}
  /\ \A o \in DOMAIN repo : \A p \in DOMAIN repo \ {o} : repo[p].name # repo[o].name
  /\ \A o \in DOMAIN overrides : Made(o, overrides[o].mandatory, touched, captured[o])

(* Nothing has been done to an object that was not shown.                  *)
Untouched(o) ==
  /\ repo[o].rev = 1 /\ repo[o].locator.mandatory = captured[o]
  /\ overrides[o] = repo[o].locator /\ names[o] = repo[o].name
UnseenInv == \A o \in DOMAIN repo \ seen : Untouched(o)

(* The rows of the form stand for mandatory conditions of its object.      *)
RowsMade(o, rows, by, shot) ==
  /\ \A r \in rows : DOMAIN r = {"section", "key", "was", "value", "on", "free"}
  /\ \A r \in rows : r.section = "mandatory" =>
       \/ r.value \in {Identity!Typed, Identity!Blank} /\ <<o, r.key>> \in by
       \/ <<r.key, r.value>> \in shot
  /\ \A c \in shot :
       \/ c[1] \in Identity!Volatile \cup Identity!Session \/ <<o, c[1]>> \in by
       \/ \E r \in rows : r.section = "mandatory" /\ r.on /\ r.key = c[1] /\ r.value = c[2]
FormInv ==
  /\ DOMAIN form = {"of", "rows", "ordinal", "counted"}
  /\ form.of = Identity!Nobody => form.rows = {}
  /\ form.of # Identity!Nobody => form.of \in Objects /\ RowsMade(form.of, form.rows, touched, captured[form.of])
CapturedInv == \A o \in Objects : \A c \in captured[o] : Pair(c)
IdentityInv == TreeInv /\ DefinitionsInv /\ UnseenInv /\ FormInv /\ CapturedInv

LEMMA PairIs == \A k, v : Pair(<<k, v>>) /\ <<k, v>>[1] = k /\ <<k, v>>[2] = v
BY DEF Pair

LEMMA SomePairs ==
  ASSUME NEW o, NEW n, NEW keys
  PROVE  \A c \in Identity!Some(o, n, keys) : Pair(c)
BY PairIs DEF Identity!Some, Identity!Of

LEMMA SomeThere ==
  ASSUME NEW o, NEW n, NEW keys, keys # {}
  PROVE  Identity!Some(o, n, keys) # {}
BY DEF Identity!Some

LEMMA AuthoredIs ==
  ASSUME NEW kind \in {"javafx", "atspi", "visual"}, NEW o, NEW n, NEW l \in Identity!Authored(kind, o, n)
  PROVE  /\ \A c \in l.mandatory : Pair(c)
         /\ kind # "visual" => l.mandatory # {}
<1>1. CASE kind = "visual"
  <2>1. l.mandatory = {}
    BY <1>1 DEF Identity!Authored, Identity!NoLocator, Identity!Locator
  <2> QED BY <2>1, <1>1
<1>2. CASE kind # "visual"
  <2>1. \E keys : keys # {} /\ l.mandatory = Identity!Some(o, n, keys)
    <3>1. CASE kind = "javafx"
      <4>1. l.mandatory = Identity!Some(o, n, {"id"}) \/ l.mandatory = Identity!Some(o, n, {"text", "role"})
        BY <3>1 DEF Identity!Authored, Identity!Locator
      <4>2. {"id"} # {} /\ {"text", "role"} # {}
        OBVIOUS
      <4> QED BY <4>1, <4>2
    <3>2. CASE kind = "atspi"
      <4>1. l.mandatory = Identity!Some(o, n, {"name", "role"})
        BY <3>2 DEF Identity!Authored, Identity!Locator
      <4>2. {"name", "role"} # {}
        OBVIOUS
      <4> QED BY <4>1, <4>2
    <3> QED BY <1>2, <3>1, <3>2
  <2> QED BY <2>1, SomePairs, SomeThere
<1> QED BY <1>1, <1>2

LEMMA DefinitionsAre ==
  ASSUME NEW o, NEW name, NEW d \in Identity!Definitions(o, name)
  PROVE  /\ Defined(d) /\ d.name = name /\ d.rev = 1
         /\ \A c \in d.locator.mandatory : Pair(c)
<1>1. \E kind \in {"javafx", "atspi", "visual"} : \E l :
        /\ d = Identity!Definition(o, kind, l, 1, name, {"recorded"})
        /\ l \in Identity!Authored(kind, o, 1) \/ (l = Identity!ByHand(o) /\ kind = "javafx")
  <2>1. Identity!NoLocator \in Identity!Authored("visual", o, 1)
    BY DEF Identity!Authored
  <2> QED BY <2>1 DEF Identity!Definitions
<1>2. PICK kind \in {"javafx", "atspi", "visual"} : \E l :
        /\ d = Identity!Definition(o, kind, l, 1, name, {"recorded"})
        /\ l \in Identity!Authored(kind, o, 1) \/ (l = Identity!ByHand(o) /\ kind = "javafx")
  BY <1>1
<1>3. PICK l : /\ d = Identity!Definition(o, kind, l, 1, name, {"recorded"})
               /\ l \in Identity!Authored(kind, o, 1) \/ (l = Identity!ByHand(o) /\ kind = "javafx")
  BY <1>2
<1>4. /\ \A c \in l.mandatory : Pair(c)
      /\ kind # "visual" => l.mandatory # {}
  <2>1. CASE l \in Identity!Authored(kind, o, 1)
    BY <2>1, AuthoredIs
  <2>2. CASE l = Identity!ByHand(o)
    <3>1. l.mandatory = Identity!Some(o, 1, {"class", "property", "state"})
      BY <2>2 DEF Identity!ByHand, Identity!Locator
    <3>2. {"class", "property", "state"} # {}
      OBVIOUS
    <3> QED BY <3>1, <3>2, SomePairs, SomeThere
  <2> QED BY <1>3, <2>1, <2>2
<1>5. /\ DOMAIN d = Fields /\ d.kind = kind /\ d.locator = l /\ d.name = name /\ d.rev = 1
      /\ d.inventory = {"recorded"}
  BY <1>3 DEF Identity!Definition, Fields
<1> QED BY <1>4, <1>5 DEF Defined

(* The rows a form is built with stand for its locator.                    *)
LEMMA RowsShown ==
  ASSUME NEW o, NEW l, NEW evidence, NEW common, NEW fx, NEW by, NEW shot, Made(o, l.mandatory, by, shot), \A c \in shot : Pair(c)
  PROVE  RowsMade(o, Identity!Rows(l, evidence, common, fx), by, shot)
<1> DEFINE rows == Identity!Rows(l, evidence, common, fx)
           MR == {Identity!Row("mandatory", c, c \in common, fx) : c \in l.mandatory}
           AR == {Identity!Row("assistive", c, c \in common, fx) : c \in l.assistive}
           Left == {c \in evidence : c[1] \notin Identity!Keys(Identity!Conditions(l))}
           ER == {Identity!Row("evidence", c, c \in common, fx) : c \in Left}
<1>1. rows = MR \cup AR \cup ER
  BY DEF Identity!Rows
<1>2. \A s, c, b : LET r == Identity!Row(s, c, b, fx) IN
        /\ DOMAIN r = {"section", "key", "was", "value", "on", "free"}
        /\ r.section = s /\ r.key = c[1] /\ r.value = c[2] /\ r.on = Identity!Selected(c[1], s, b, fx)
  BY DEF Identity!Row
<1>3. \A r \in rows : /\ DOMAIN r = {"section", "key", "was", "value", "on", "free"}
                      /\ r.section = "mandatory" => r \in MR
  BY <1>1, <1>2
<1>4. \A c : <<c[1], c[2]>> = c <=> Pair(c)
  BY DEF Pair
<1>5. ASSUME NEW r \in rows, r.section = "mandatory"
      PROVE  \/ r.value \in {Identity!Typed, Identity!Blank} /\ <<o, r.key>> \in by
             \/ <<r.key, r.value>> \in shot
  <2>1. PICK c \in l.mandatory : r = Identity!Row("mandatory", c, c \in common, fx)
    BY <1>3, <1>5
  <2>2. r.key = c[1] /\ r.value = c[2]
    BY <1>2, <2>1
  <2>3. Pair(c) /\ (c \in shot \/ (c[2] = Identity!Typed /\ <<o, c[1]>> \in by))
    BY DEF Made
  <2> QED BY <2>2, <2>3, <1>4
<1>6. ASSUME NEW c \in shot
      PROVE  \/ c[1] \in Identity!Volatile \cup Identity!Session \/ <<o, c[1]>> \in by
             \/ \E r \in rows : r.section = "mandatory" /\ r.on /\ r.key = c[1] /\ r.value = c[2]
  <2> SUFFICES ASSUME c[1] \notin Identity!Volatile \cup Identity!Session, <<o, c[1]>> \notin by
               PROVE  \E r \in rows : r.section = "mandatory" /\ r.on /\ r.key = c[1] /\ r.value = c[2]
    OBVIOUS
  <2>1. c \in l.mandatory
    BY DEF Made
  <2> DEFINE r == Identity!Row("mandatory", c, c \in common, fx)
  <2>2. r \in rows
    BY <1>1, <2>1
  <2>3. r.section = "mandatory" /\ r.key = c[1] /\ r.value = c[2]
        /\ r.on = Identity!Selected(c[1], "mandatory", c \in common, fx)
    BY <1>2
  <2>4. Identity!Selected(c[1], "mandatory", c \in common, fx)
    BY DEF Identity!Selected
  <2> HIDE DEF r, rows
  <2> QED BY <2>2, <2>3, <2>4
<1>7. RowsMade(o, rows, by, shot)
  <2> HIDE DEF rows, MR
  <2> QED BY <1>3, <1>5, <1>6 DEF RowsMade
<1> QED BY <1>7

(* What is on display is a locator that captures or the user made.         *)
LEMMA DisplayIsMade ==
  ASSUME RowsMade(form.of, form.rows, touched, captured[form.of]), Identity!Complete, CapturedInv, form.of \in Objects
  PROVE  /\ Made(form.of, Identity!CurrentIdentity.mandatory, touched, captured[form.of])
         /\ Identity!CurrentIdentity.mandatory # {}
<1> DEFINE ms == Identity!CurrentIdentity.mandatory
           o == form.of
<1>1. ms = {<<r.key, r.value>> : r \in {r \in form.rows : r.on /\ r.section \in {"mandatory"}}}
  BY DEF Identity!CurrentIdentity, Identity!Locator, Identity!Ticked
<1>2. ms # {}
  BY <1>1 DEF Identity!Complete, Identity!Ticked
<1>3. \A r \in form.rows : r.on => r.value # Identity!Blank
  BY DEF Identity!Complete
<1> HIDE DEF ms
<1>4. ASSUME NEW c \in captured[o],
             c[1] \notin Identity!Volatile \cup Identity!Session, <<o, c[1]>> \notin touched
      PROVE  c \in ms
  <2>1. PICK r \in form.rows : r.section = "mandatory" /\ r.on /\ r.key = c[1] /\ r.value = c[2]
    BY <1>4 DEF RowsMade
  <2>2. c = <<c[1], c[2]>>
    BY DEF CapturedInv, Pair
  <2> QED BY <1>1, <2>1, <2>2
<1>5. ASSUME NEW c \in ms
      PROVE  Pair(c) /\ (c \in captured[o] \/ (c[2] = Identity!Typed /\ <<o, c[1]>> \in touched))
  <2>1. PICK r \in form.rows : r.on /\ r.section = "mandatory" /\ c = <<r.key, r.value>>
    BY <1>1
  <2>2. \/ r.value \in {Identity!Typed, Identity!Blank} /\ <<o, r.key>> \in touched
        \/ <<r.key, r.value>> \in captured[o]
    BY <2>1 DEF RowsMade
  <2>3. r.value # Identity!Blank
    BY <1>3, <2>1
  <2>4. Pair(c) /\ c[1] = r.key /\ c[2] = r.value
    BY <2>1, PairIs
  <2> QED BY <2>1, <2>2, <2>3, <2>4
<1> QED BY <1>2, <1>4, <1>5 DEF Made, ms

LEMMA IdentityStart ==
  ASSUME ObjectsAssumption
  PROVE  Identity!Init => IdentityInv
<1> SUFFICES ASSUME Identity!Init PROVE IdentityInv
  OBVIOUS
<1>1. PICK n \in Nat : /\ Identity!First \in [1 .. n -> Objects]
                       /\ \A i, j \in 1 .. n : Identity!First[i] = Identity!First[j] => i = j
                       /\ \A o \in Objects : \E i \in 1 .. n : Identity!First[i] = o
  BY FirstIs DEF ObjectsAssumption
<1> DEFINE first == Identity!First
<1>2. /\ DOMAIN repo = Objects
      /\ \A i \in 1 .. n : repo[first[i]] \in Identity!Definitions(first[i], i)
  <2>1. DOMAIN first = 1 .. n
    BY <1>1
  <2> QED BY <2>1 DEF Identity!Init
<1>3. /\ tree = first /\ names = [o \in Objects |-> repo[o].name]
      /\ overrides = [o \in Objects |-> repo[o].locator]
      /\ form = Identity!Empty /\ seen = {} /\ touched = {}
      /\ captured = [o \in Objects |-> repo[o].locator.mandatory]
  BY DEF Identity!Init
<1> HIDE DEF first
<1>4. ASSUME NEW o \in Objects
      PROVE  /\ Defined(repo[o]) /\ repo[o].rev = 1
             /\ \A c \in repo[o].locator.mandatory : Pair(c)
             /\ \A p \in Objects \ {o} : repo[p].name # repo[o].name
  <2>1. PICK i \in 1 .. n : first[i] = o
    BY <1>1 DEF first
  <2>2. Defined(repo[o]) /\ repo[o].rev = 1 /\ repo[o].name = i /\ \A c \in repo[o].locator.mandatory : Pair(c)
    <3>1. repo[o] \in Identity!Definitions(o, i)
      BY <1>2, <2>1
    <3> QED BY <3>1, DefinitionsAre
  <2>3. ASSUME NEW p \in Objects \ {o} PROVE repo[p].name # i
    <3>1. PICK j \in 1 .. n : first[j] = p
      BY <1>1 DEF first
    <3>2. repo[p] \in Identity!Definitions(p, j)
      BY <1>2, <3>1
    <3>3. repo[p].name = j
      BY <3>2, DefinitionsAre
    <3> QED BY <2>1, <3>1, <3>3
  <2> QED BY <2>2, <2>3
<1>5. \A o \in Objects : Made(o, repo[o].locator.mandatory, touched, captured[o])
  BY <1>3, <1>4 DEF Made
<1>6. TreeInv
  <2>1. first \in Seq(Objects) /\ Len(first) = n
    BY <1>1 DEF first
  <2>2. repo = [o \in DOMAIN repo |-> repo[o]]
    BY DEF Identity!Init
  <2> QED BY <1>1, <1>2, <1>3, <2>1, <2>2 DEF TreeInv, Identity!Empty, first
<1>7. DefinitionsInv
  BY <1>2, <1>3, <1>4, <1>5 DEF DefinitionsInv, Defined
<1>8. UnseenInv
  BY <1>2, <1>3, <1>4 DEF UnseenInv, Untouched
<1>9. FormInv
  BY <1>3 DEF FormInv, Identity!Empty
<1>10. CapturedInv
  BY <1>3, <1>4 DEF CapturedInv
<1> QED BY <1>6, <1>7, <1>8, <1>9, <1>10 DEF IdentityInv

LEMMA ShownForm ==
  ASSUME NEW o, NEW l, NEW nodes, NEW by, NEW shot, Made(o, l.mandatory, by, shot), \A c \in shot : Pair(c)
  PROVE  LET f == Identity!ShowFrom(o, l, nodes) IN
         /\ f.of = o /\ DOMAIN f = {"of", "rows", "ordinal", "counted"}
         /\ RowsMade(o, f.rows, by, shot)
<1> DEFINE common == Identity!Common(o, nodes)
           fx == repo[o].kind = "javafx"
           rows == Identity!Rows(l, nodes[o], common, fx)
<1>1. RowsMade(o, rows, by, shot)
  <2> HIDE DEF common, fx
  <2> QED BY RowsShown
<1>2. Identity!ShowFrom(o, l, nodes) = [of |-> o, rows |-> rows, ordinal |-> l.ordinal, counted |-> TRUE]
  BY DEF Identity!ShowFrom
<1> HIDE DEF rows
<1> QED BY <1>1, <1>2

(* What the user touches takes nothing away.                               *)
LEMMA TouchingKeeps ==
  ASSUME NEW by, NEW more, by \subseteq more
  PROVE  /\ \A o, conditions, shot : Made(o, conditions, by, shot) => Made(o, conditions, more, shot)
         /\ \A o, rows, shot : RowsMade(o, rows, by, shot) => RowsMade(o, rows, more, shot)
<1>1. ASSUME NEW o, NEW conditions, NEW shot, Made(o, conditions, by, shot) PROVE Made(o, conditions, more, shot)
  BY <1>1 DEF Made
<1>2. ASSUME NEW o, NEW rows, NEW shot, RowsMade(o, rows, by, shot) PROVE RowsMade(o, rows, more, shot)
  BY <1>2 DEF RowsMade
<1> QED BY <1>1, <1>2

LEMMA RememberedIs ==
  ASSUME IdentityInv, "nobody" \notin Objects
  PROVE  /\ DOMAIN Identity!Remembered = DOMAIN overrides
         /\ \A o \in DOMAIN overrides : Made(o, Identity!Remembered[o].mandatory, touched, captured[o])
         /\ \A o \in DOMAIN repo : repo[o].kind # "visual" => Identity!Remembered[o].mandatory # {}
         /\ \A o \in DOMAIN repo \ seen : Identity!Remembered[o] = overrides[o]
<1>0. /\ \A o \in DOMAIN overrides : Made(o, overrides[o].mandatory, touched, captured[o])
      /\ \A o \in DOMAIN repo : repo[o].kind # "visual" => overrides[o].mandatory # {}
      /\ DOMAIN repo \subseteq DOMAIN overrides /\ DOMAIN overrides \subseteq Objects
      /\ form.of \in seen \cup {Identity!Nobody}
  BY DEF IdentityInv, TreeInv, DefinitionsInv
<1>1. CASE form.of \in DOMAIN overrides /\ Identity!Complete
  <2>1. Identity!Remembered = [overrides EXCEPT ![form.of] = Identity!CurrentIdentity]
    BY <1>1 DEF Identity!Remembered
  <2>2. form.of \in Objects /\ form.of # Identity!Nobody
    BY <1>0, <1>1 DEF Identity!Nobody
  <2>3. /\ Made(form.of, Identity!CurrentIdentity.mandatory, touched, captured[form.of])
        /\ Identity!CurrentIdentity.mandatory # {}
    BY <1>1, <2>2, DisplayIsMade DEF IdentityInv, FormInv
  <2>4. form.of \in seen
    BY <1>0, <2>2
  <2> DEFINE now == Identity!CurrentIdentity
  <2> HIDE DEF now
  <2>5. Identity!Remembered = [overrides EXCEPT ![form.of] = now] /\ Made(form.of, now.mandatory, touched, captured[form.of]) /\ now.mandatory # {}
    BY <2>1, <2>3 DEF now
  <2>6. \A o \in DOMAIN overrides : Identity!Remembered[o] = IF o = form.of THEN now ELSE overrides[o]
    BY <2>5
  <2>7. DOMAIN Identity!Remembered = DOMAIN overrides
    BY <2>5
  <2> QED BY <1>0, <2>4, <2>5, <2>6, <2>7
<1>2. CASE ~ (form.of \in DOMAIN overrides /\ Identity!Complete)
  <2>1. Identity!Remembered = overrides
    BY <1>2 DEF Identity!Remembered
  <2> QED BY <1>0, <2>1
<1> QED BY <1>1, <1>2

(* Definitions and locators, while the repository stays.                   *)
LEMMA DefinitionsStay ==
  ASSUME IdentityInv, repo' = repo, touched \subseteq touched', captured' = captured,
         \A o \in DOMAIN overrides' : Made(o, overrides'[o].mandatory, touched, captured[o]),
         \A o \in DOMAIN repo : repo[o].kind # "visual" => overrides'[o].mandatory # {}
  PROVE  DefinitionsInv' /\ CapturedInv'
<1>1. \A o, conditions, shot : Made(o, conditions, touched, shot) => Made(o, conditions, touched', shot)
  BY TouchingKeeps
<1>2. /\ \A o \in DOMAIN repo : Defined(repo[o]) /\ Made(o, repo[o].locator.mandatory, touched, captured[o])
      /\ \A o \in DOMAIN repo : \A p \in DOMAIN repo \ {o} : repo[p].name # repo[o].name
  BY DEF IdentityInv, DefinitionsInv
<1>3. \A o \in DOMAIN repo' : Defined(repo'[o]) /\ Made(o, repo'[o].locator.mandatory, touched', captured'[o])
  BY <1>1, <1>2
<1>4. \A o \in DOMAIN overrides' : Made(o, overrides'[o].mandatory, touched', captured'[o])
  BY <1>1
<1>5. \A o \in DOMAIN repo' : repo'[o].kind # "visual" => overrides'[o].mandatory # {}
  OBVIOUS
<1>6. \A o \in DOMAIN repo' : \A p \in DOMAIN repo' \ {o} : repo'[p].name # repo'[o].name
  BY <1>2
<1>7. CapturedInv'
  BY DEF IdentityInv, CapturedInv
<1> QED BY <1>3, <1>4, <1>5, <1>6, <1>7 DEF DefinitionsInv

(* The form, while it stays, and when another object is shown.             *)
LEMMA FormStays ==
  ASSUME FormInv, form' = form, touched \subseteq touched', captured' = captured
  PROVE  FormInv'
<1>1. \A o, rows, shot : RowsMade(o, rows, touched, shot) => RowsMade(o, rows, touched', shot)
  BY TouchingKeeps
<1> QED BY <1>1 DEF FormInv

LEMMA FormShows ==
  ASSUME NEW o \in Objects, NEW l, NEW nodes, form' = Identity!ShowFrom(o, l, nodes), "nobody" \notin Objects,
         Made(o, l.mandatory, touched', captured'[o]), \A c \in captured'[o] : Pair(c)
  PROVE  FormInv' /\ form'.of = o
<1>1. /\ form'.of = o /\ DOMAIN form' = {"of", "rows", "ordinal", "counted"}
      /\ RowsMade(o, form'.rows, touched', captured'[o])
  <2> DEFINE f == Identity!ShowFrom(o, l, nodes)
  <2>1. f.of = o /\ DOMAIN f = {"of", "rows", "ordinal", "counted"} /\ RowsMade(o, f.rows, touched', captured'[o])
    BY ShownForm
  <2>2. form' = f
    OBVIOUS
  <2> HIDE DEF f
  <2> QED BY <2>1, <2>2
<1>2. o # Identity!Nobody
  BY DEF Identity!Nobody
<1> QED BY <1>1, <1>2 DEF FormInv

LEMMA ContextKeeps ==
  ASSUME IdentityInv, Identity!ContextReady, "nobody" \notin Objects
  PROVE  IdentityInv'
<1>1. /\ names' = [o \in DOMAIN repo |-> repo[o].name]
      /\ overrides' = [o \in DOMAIN repo |-> repo[o].locator]
      /\ repo' = repo /\ tree' = tree /\ touched' = touched /\ captured' = captured
  BY DEF Identity!ContextReady, Identity!Loaded
<1>2. TreeInv /\ DefinitionsInv /\ CapturedInv /\ UnseenInv
  BY DEF IdentityInv
<1>3. /\ tree = <<>> => form' = Identity!Empty /\ seen' = seen
      /\ tree # <<>> => /\ seen' = seen \cup {tree[1]}
                        /\ \E nodes : form' = Identity!ShowFrom(tree[1], repo[tree[1]].locator, nodes)
  BY DEF Identity!ContextReady
<1>4. tree # <<>> => tree[1] \in DOMAIN repo /\ tree[1] \in Objects
  BY <1>2 DEF TreeInv
<1>5. DefinitionsInv' /\ CapturedInv'
  <2>1. \A o \in DOMAIN repo : /\ Made(o, overrides'[o].mandatory, touched, captured[o])
                               /\ repo[o].kind # "visual" => overrides'[o].mandatory # {}
    BY <1>1, <1>2 DEF DefinitionsInv, Defined
  <2>2. DOMAIN overrides' = DOMAIN repo /\ DOMAIN repo \subseteq DOMAIN overrides
    BY <1>1, <1>2 DEF TreeInv
  <2> QED BY <1>1, <2>1, <2>2, DefinitionsStay
<1>6. form'.of \in seen' \cup {Identity!Nobody} /\ FormInv'
  <2>1. CASE tree = <<>>
    BY <1>3, <2>1 DEF Identity!Empty, FormInv
  <2>2. CASE tree # <<>>
    <3> DEFINE o == tree[1]
               l == repo[o].locator
    <3>1. PICK nodes : form' = Identity!ShowFrom(o, l, nodes)
      BY <1>3, <2>2
    <3>2. o \in Objects /\ Made(o, l.mandatory, touched', captured'[o]) /\ \A c \in captured'[o] : Pair(c)
      BY <1>1, <1>2, <1>4, <2>2 DEF DefinitionsInv, CapturedInv
    <3>3. o \in seen'
      BY <1>3, <2>2
    <3> HIDE DEF o, l
    <3> QED BY <3>1, <3>2, <3>3, FormShows
  <2> QED BY <2>1, <2>2
<1>7. TreeInv'
  BY <1>1, <1>2, <1>6 DEF TreeInv
<1>8. UnseenInv'
  <2>1. seen \subseteq seen'
    BY <1>3
  <2> QED BY <1>1, <1>2, <2>1 DEF UnseenInv, Untouched
<1> QED BY <1>5, <1>6, <1>7, <1>8 DEF IdentityInv

LEMMA SelectKeeps ==
  ASSUME IdentityInv, NEW o \in Objects, Identity!Select(o), "nobody" \notin Objects
  PROVE  IdentityInv'
<1>1. /\ overrides' = Identity!Remembered /\ seen' = seen \cup {o}
      /\ form' = Identity!ShowFrom(o, overrides[o], payload)
      /\ o \in Identity!ToSet(tree)
      /\ repo' = repo /\ tree' = tree /\ names' = names /\ touched' = touched /\ captured' = captured
  BY DEF Identity!Select, Identity!ghosts, Identity!counters
<1>2. TreeInv /\ DefinitionsInv /\ CapturedInv /\ UnseenInv
  BY DEF IdentityInv
<1>3. /\ DOMAIN overrides' = DOMAIN overrides
      /\ \A p \in DOMAIN overrides : Made(p, overrides'[p].mandatory, touched, captured[p])
      /\ \A p \in DOMAIN repo : repo[p].kind # "visual" => overrides'[p].mandatory # {}
      /\ \A p \in DOMAIN repo \ seen : overrides'[p] = overrides[p]
  BY <1>1, RememberedIs
<1>4. DefinitionsInv' /\ CapturedInv'
  BY <1>1, <1>3, DefinitionsStay
<1>5. o \in DOMAIN overrides
  <2>1. o \in DOMAIN repo
    BY <1>1, <1>2 DEF TreeInv, Identity!ToSet
  <2> QED BY <1>2, <2>1 DEF TreeInv
<1>6. FormInv' /\ form'.of = o
  <2>1. Made(o, overrides[o].mandatory, touched', captured'[o]) /\ \A c \in captured'[o] : Pair(c)
    BY <1>1, <1>2, <1>5 DEF DefinitionsInv, CapturedInv
  <2> QED BY <1>1, <2>1, FormShows
<1>7. TreeInv'
  BY <1>1, <1>2, <1>3, <1>6 DEF TreeInv
<1>8. UnseenInv'
  BY <1>1, <1>2, <1>3 DEF UnseenInv, Untouched
<1> QED BY <1>4, <1>6, <1>7, <1>8 DEF IdentityInv

(* An edit of the form that leaves its rows what they stand for.           *)
LEMMA FormEditKeeps ==
  ASSUME IdentityInv, FormInv', form'.of = form.of, touched \subseteq touched',
         repo' = repo, tree' = tree, overrides' = overrides, seen' = seen, captured' = captured, names' = names
  PROVE  IdentityInv'
<1>1. TreeInv /\ DefinitionsInv /\ UnseenInv
  BY DEF IdentityInv
<1>2. TreeInv' /\ UnseenInv'
  BY <1>1 DEF TreeInv, UnseenInv, Untouched
<1>3. DefinitionsInv' /\ CapturedInv'
  <2>1. /\ \A o \in DOMAIN overrides' : Made(o, overrides'[o].mandatory, touched, captured[o])
        /\ \A o \in DOMAIN repo : repo[o].kind # "visual" => overrides'[o].mandatory # {}
    BY <1>1 DEF DefinitionsInv
  <2> QED BY <2>1, DefinitionsStay
<1> QED BY <1>2, <1>3 DEF IdentityInv

LEMMA RowEdit ==
  ASSUME NEW o, NEW rows, NEW by, NEW shot, NEW r \in rows, NEW other,
         RowsMade(o, rows, by, shot), DOMAIN other = DOMAIN r, other.section = r.section, other.key = r.key,
         other.value \in {r.value, Identity!Typed, Identity!Blank}, \A c \in shot : Pair(c)
  PROVE  RowsMade(o, (rows \ {r}) \cup {other}, by \cup {<<o, r.key>>}, shot)
<1> DEFINE more == by \cup {<<o, r.key>>}
           now == (rows \ {r}) \cup {other}
<1>1. RowsMade(o, rows, more, shot)
  BY TouchingKeeps
<1>2. <<o, other.key>> \in more
  OBVIOUS
<1> HIDE DEF more
<1>3. \A s \in now : DOMAIN s = {"section", "key", "was", "value", "on", "free"}
  BY <1>1 DEF RowsMade
<1>4. \A s \in now : s.section = "mandatory" =>
        \/ s.value \in {Identity!Typed, Identity!Blank} /\ <<o, s.key>> \in more
        \/ <<s.key, s.value>> \in shot
  BY <1>1, <1>2 DEF RowsMade
<1>5. ASSUME NEW c \in shot
      PROVE  \/ c[1] \in Identity!Volatile \cup Identity!Session \/ <<o, c[1]>> \in more
             \/ \E s \in now : s.section = "mandatory" /\ s.on /\ s.key = c[1] /\ s.value = c[2]
  <2>1. CASE \E s \in rows : s.section = "mandatory" /\ s.on /\ s.key = c[1] /\ s.value = c[2]
    <3>1. PICK s \in rows : s.section = "mandatory" /\ s.on /\ s.key = c[1] /\ s.value = c[2]
      BY <2>1
    <3>2. CASE s = r
      BY <1>2, <3>1, <3>2
    <3>3. CASE s # r
      BY <3>1, <3>3
    <3> QED BY <3>2, <3>3
  <2>2. CASE ~ \E s \in rows : s.section = "mandatory" /\ s.on /\ s.key = c[1] /\ s.value = c[2]
    BY <1>1, <2>2 DEF RowsMade
  <2> QED BY <2>1, <2>2
<1> HIDE DEF now
<1>6. RowsMade(o, now, more, shot)
  BY <1>3, <1>4, <1>5 DEF RowsMade
<1> QED BY <1>6 DEF now, more

LEMMA EditedKeeps ==
  ASSUME IdentityInv, NEW r, NEW other, Identity!Edited(r, other), DOMAIN r = DOMAIN other,
         other.section = r.section, other.key = r.key, other.value \in {r.value, Identity!Typed, Identity!Blank},
         "nobody" \notin Objects
  PROVE  IdentityInv'
<1>1. /\ r \in form.rows /\ form' = [form EXCEPT !.rows = (@ \ {r}) \cup {other}]
      /\ touched' = touched \cup {<<form.of, r.key>>}
      /\ repo' = repo /\ tree' = tree /\ names' = names /\ overrides' = overrides /\ seen' = seen
      /\ captured' = captured
  BY DEF Identity!Edited
<1>2. /\ DOMAIN form = {"of", "rows", "ordinal", "counted"} /\ form.of \in Objects
      /\ RowsMade(form.of, form.rows, touched, captured[form.of])
  BY <1>1 DEF IdentityInv, FormInv
<1>3. /\ form'.of = form.of /\ form'.rows = (form.rows \ {r}) \cup {other}
      /\ DOMAIN form' = {"of", "rows", "ordinal", "counted"}
  BY <1>1, <1>2
<1>4. RowsMade(form.of, (form.rows \ {r}) \cup {other}, touched \cup {<<form.of, r.key>>}, captured[form.of])
  <2>1. \A c \in captured[form.of] : Pair(c)
    BY <1>2 DEF IdentityInv, CapturedInv
  <2> QED BY <1>1, <1>2, <2>1, RowEdit
<1>5. form.of # Identity!Nobody
  BY <1>2 DEF Identity!Nobody
<1>6. FormInv'
  BY <1>1, <1>2, <1>3, <1>4, <1>5 DEF FormInv
<1> QED BY <1>1, <1>3, <1>6, FormEditKeeps

LEMMA ToggleKeeps ==
  ASSUME IdentityInv, NEW r \in form.rows, Identity!Toggle(r), "nobody" \notin Objects
  PROVE  IdentityInv'
<1> DEFINE other == [r EXCEPT !.on = ~ @]
<1>1. Identity!Edited(r, other)
  BY DEF Identity!Toggle
<1>2. DOMAIN r = {"section", "key", "was", "value", "on", "free"}
  BY DEF IdentityInv, FormInv, RowsMade
<1>3. DOMAIN other = DOMAIN r /\ other.section = r.section /\ other.key = r.key /\ other.value = r.value
  BY <1>2
<1> HIDE DEF other
<1> QED BY <1>1, <1>3, EditedKeeps

LEMMA EnterKeeps ==
  ASSUME IdentityInv, NEW r \in form.rows, NEW value \in {Identity!Typed, Identity!Blank}, Identity!Enter(r, value),
         "nobody" \notin Objects
  PROVE  IdentityInv'
<1> DEFINE other == [r EXCEPT !.value = value]
<1>1. Identity!Edited(r, other)
  BY DEF Identity!Enter
<1>2. DOMAIN r = {"section", "key", "was", "value", "on", "free"}
  BY DEF IdentityInv, FormInv, RowsMade
<1>3. DOMAIN other = DOMAIN r /\ other.section = r.section /\ other.key = r.key /\ other.value = value
  BY <1>2
<1> HIDE DEF other
<1> QED BY <1>1, <1>3, EditedKeeps

LEMMA OrdinalKeeps ==
  ASSUME IdentityInv, Identity!ToggleOrdinal
  PROVE  IdentityInv'
<1>1. /\ form' = [form EXCEPT !.counted = ~ @] /\ touched \subseteq touched'
      /\ repo' = repo /\ tree' = tree /\ names' = names /\ overrides' = overrides /\ seen' = seen
      /\ captured' = captured
  BY DEF Identity!ToggleOrdinal
<1>2. FormInv
  BY DEF IdentityInv
<1>3. /\ form'.of = form.of /\ form'.rows = form.rows /\ DOMAIN form' = {"of", "rows", "ordinal", "counted"}
  BY <1>1, <1>2 DEF FormInv
<1>4. FormInv'
  <2>1. \A o, rows, shot : RowsMade(o, rows, touched, shot) => RowsMade(o, rows, touched', shot)
    BY <1>1, TouchingKeeps
  <2> QED BY <1>1, <1>2, <1>3, <2>1 DEF FormInv
<1> QED BY <1>1, <1>3, <1>4, FormEditKeeps

LEMMA RenameKeeps ==
  ASSUME IdentityInv, NEW n, Identity!Rename(n), "nobody" \notin Objects
  PROVE  IdentityInv'
<1>1. /\ form.of \in DOMAIN names /\ names' = [names EXCEPT ![form.of] = n] /\ touched \subseteq touched'
      /\ repo' = repo /\ tree' = tree /\ overrides' = overrides /\ form' = form /\ seen' = seen
      /\ captured' = captured
  BY DEF Identity!Rename
<1>2. TreeInv /\ DefinitionsInv /\ UnseenInv /\ FormInv
  BY DEF IdentityInv
<1>3. form.of \in seen
  BY <1>1, <1>2 DEF TreeInv, Identity!Nobody
<1>4. TreeInv' /\ UnseenInv'
  <2>1. \A o \in DOMAIN repo \ seen : names'[o] = names[o]
    BY <1>1, <1>2, <1>3 DEF TreeInv
  <2>2. DOMAIN names' = DOMAIN names
    BY <1>1
  <2> QED BY <1>1, <1>2, <2>1, <2>2 DEF TreeInv, UnseenInv, Untouched
<1>5. DefinitionsInv' /\ CapturedInv'
  <2>1. /\ \A o \in DOMAIN overrides' : Made(o, overrides'[o].mandatory, touched, captured[o])
        /\ \A o \in DOMAIN repo : repo[o].kind # "visual" => overrides'[o].mandatory # {}
    BY <1>1, <1>2 DEF DefinitionsInv
  <2> QED BY <1>1, <2>1, DefinitionsStay
<1>6. FormInv'
  BY <1>1, <1>2, FormStays
<1> QED BY <1>4, <1>5, <1>6 DEF IdentityInv

LEMMA RemoveAtIs ==
  ASSUME NEW S, NEW s \in Seq(S), NEW i \in 1 .. Len(s), \A j, k \in 1 .. Len(s) : s[j] = s[k] => j = k
  PROVE  LET t == Identity!RemoveAt(s, i) IN
         /\ t \in Seq(S \ {s[i]})
         /\ \A j, k \in 1 .. Len(t) : t[j] = t[k] => j = k
<1> DEFINE n == Len(s)
           a == SubSeq(s, 1, i - 1)
           b == SubSeq(s, i + 1, n)
           t == a \o b
           Was(j) == IF j < i THEN j ELSE j + 1
<1>1. /\ a \in Seq(S) /\ Len(a) = i - 1 /\ \A j \in 1 .. i - 1 : a[j] = s[j]
  OBVIOUS
<1>2. /\ b \in Seq(S) /\ Len(b) = n - i /\ \A j \in 1 .. n - i : b[j] = s[i + j]
  OBVIOUS
<1>3. t \in Seq(S) /\ Len(t) = n - 1
  <2> HIDE DEF a, b
  <2> QED BY <1>1, <1>2
<1>4. ASSUME NEW j \in 1 .. n - 1 PROVE t[j] = s[Was(j)] /\ Was(j) \in 1 .. n /\ Was(j) # i
  <2>1. CASE j < i
    <3>1. t[j] = a[j]
      <4> HIDE DEF a, b
      <4> QED BY <1>1, <1>2, <2>1
    <3> QED BY <1>1, <2>1, <3>1
  <2>2. CASE ~ j < i
    <3>1. t[j] = b[j - (i - 1)]
      <4> HIDE DEF a, b
      <4> QED BY <1>1, <1>2, <2>2
    <3>2. j - (i - 1) \in 1 .. n - i
      BY <2>2
    <3>3. b[j - (i - 1)] = s[i + (j - (i - 1))]
      BY <1>2, <3>2
    <3>4. i + (j - (i - 1)) = j + 1
      OBVIOUS
    <3> HIDE DEF t, b
    <3> QED BY <2>2, <3>1, <3>3, <3>4
  <2> QED BY <2>1, <2>2
<1> HIDE DEF t
<1>5. \A j \in 1 .. n - 1 : t[j] \in S \ {s[i]}
  BY <1>4
<1>6. t \in Seq(S \ {s[i]})
  BY <1>3, <1>5
<1>7. \A j, k \in 1 .. n - 1 : t[j] = t[k] => j = k
  BY <1>4
<1>8. Identity!RemoveAt(s, i) = t
  BY DEF Identity!RemoveAt, t
<1> QED BY <1>3, <1>6, <1>7, <1>8

LEMMA DeleteKeeps ==
  ASSUME IdentityInv, Identity!Delete
  PROVE  IdentityInv'
<1> DEFINE left == DOMAIN repo \ {form.of}
<1>1. /\ \E i \in DOMAIN tree : tree[i] = form.of /\ tree' = Identity!RemoveAt(tree, i)
      /\ repo' = [o \in left |-> repo[o]]
      /\ names' = names /\ overrides' = overrides /\ form' = form /\ seen' = seen
      /\ touched' = touched /\ captured' = captured
  BY DEF Identity!Delete, Identity!ghosts, Identity!counters
<1>2. TreeInv /\ DefinitionsInv /\ UnseenInv /\ FormInv /\ CapturedInv
  BY DEF IdentityInv
<1>3. tree' \in Seq(left) /\ \A i, j \in 1 .. Len(tree') : tree'[i] = tree'[j] => i = j
  <2>1. PICK i \in DOMAIN tree : tree[i] = form.of /\ tree' = Identity!RemoveAt(tree, i)
    BY <1>1
  <2>2. tree \in Seq(DOMAIN repo) /\ i \in 1 .. Len(tree)
        /\ \A j, k \in 1 .. Len(tree) : tree[j] = tree[k] => j = k
    BY <1>2, <2>1 DEF TreeInv
  <2> QED BY <2>1, <2>2, RemoveAtIs
<1>4. DOMAIN repo' = left /\ \A o \in left : repo'[o] = repo[o]
  BY <1>1
<1>5. TreeInv'
  BY <1>1, <1>2, <1>3, <1>4 DEF TreeInv
<1>6. DefinitionsInv'
  BY <1>1, <1>2, <1>4 DEF DefinitionsInv
<1>7. UnseenInv'
  BY <1>1, <1>2, <1>4 DEF UnseenInv, Untouched
<1>8. FormInv' /\ CapturedInv'
  BY <1>1, <1>2 DEF FormInv, CapturedInv
<1> QED BY <1>5, <1>6, <1>7, <1>8 DEF IdentityInv

LEMMA ShotIs ==
  ASSUME NEW o, repo[o].kind \in {"javafx", "atspi", "visual"}, NEW shot \in Identity!Shots(o)
  PROVE  /\ shot.locator \in Identity!Authored(repo[o].kind, o, 2)
         /\ "seen" \in shot.inventory
         /\ \A c \in shot.locator.mandatory : Pair(c)
         /\ repo[o].kind # "visual" => shot.locator.mandatory # {}
<1> DEFINE kind == repo[o].kind
<1>1. PICK l \in Identity!Authored(kind, o, 2) : shot = Identity!Definition(o, kind, l, 2, repo[o].name, {"seen"})
  BY DEF Identity!Shots
<1>2. shot.locator = l /\ shot.inventory = {"seen"}
  BY <1>1 DEF Identity!Definition
<1> HIDE DEF kind
<1>3. kind \in {"javafx", "atspi", "visual"}
  BY DEF kind
<1>4. /\ \A c \in l.mandatory : Pair(c)
      /\ kind # "visual" => l.mandatory # {}
  BY <1>3, AuthoredIs
<1> QED BY <1>2, <1>4 DEF kind

LEMMA RecapturedIs ==
  ASSUME NEW d, NEW shot, Defined(d), d.kind # "visual" => shot.locator.mandatory # {}
  PROVE  LET e == Identity!Recaptured(d, shot) IN
         /\ Defined(e) /\ e.locator = shot.locator /\ e.name = d.name /\ e.kind = d.kind
<1> DEFINE e == Identity!Recaptured(d, shot)
<1>1. /\ DOMAIN e = Fields /\ e.locator = shot.locator /\ e.name = d.name /\ e.kind = d.kind
      /\ e.inventory = d.inventory \cup shot.inventory
  BY DEF Identity!Recaptured, Defined, Fields
<1> HIDE DEF e
<1>2. Defined(e)
  BY <1>1 DEF Defined
<1> QED BY <1>1, <1>2 DEF e

LEMMA RecaptureKeeps ==
  ASSUME IdentityInv, NEW shot \in Identity!Shots(form.of), NEW matches, Identity!Recapture(shot, matches),
         "nobody" \notin Objects
  PROVE  IdentityInv'
<1> DEFINE o == form.of
           l == shot.locator
           d == Identity!Recaptured(repo[o], shot)
<1>1. /\ o \in Identity!ToSet(tree)
      /\ repo' = [repo EXCEPT ![o] = d]
      /\ overrides' = [overrides EXCEPT ![o] = l]
      /\ form' = Identity!ShowFrom(o, l, payload)
      /\ touched' = {t \in touched : t[1] # o} \cup {<<o, "captured">>}
      /\ captured' = [captured EXCEPT ![o] = l.mandatory]
      /\ tree' = tree /\ names' = names /\ seen' = seen
  BY DEF Identity!Recapture
<1>2. TreeInv /\ DefinitionsInv /\ UnseenInv /\ CapturedInv
  BY DEF IdentityInv
<1>3. o \in DOMAIN repo /\ o \in DOMAIN overrides /\ o \in Objects
  <2>1. o \in DOMAIN repo
    BY <1>1, <1>2 DEF TreeInv, Identity!ToSet
  <2> QED BY <1>2, <2>1 DEF TreeInv
<1>4. /\ \A c \in l.mandatory : Pair(c)
      /\ repo[o].kind # "visual" => l.mandatory # {}
  <2>1. repo[o].kind \in {"javafx", "atspi", "visual"}
    BY <1>2, <1>3 DEF DefinitionsInv, Defined
  <2> QED BY <2>1, ShotIs
<1>5. Defined(d) /\ d.locator = l /\ d.name = repo[o].name /\ d.kind = repo[o].kind
  <2>1. Defined(repo[o])
    BY <1>2, <1>3 DEF DefinitionsInv
  <2> QED BY <1>4, <2>1, RecapturedIs
<1> HIDE DEF o, l, d
<1>6. /\ DOMAIN repo' = DOMAIN repo /\ DOMAIN overrides' = DOMAIN overrides /\ DOMAIN captured' = DOMAIN captured
      /\ repo'[o] = d /\ overrides'[o] = l /\ captured'[o] = l.mandatory
      /\ \A p \in Objects \ {o} : captured'[p] = captured[p]
      /\ \A p \in DOMAIN repo \ {o} : repo'[p] = repo[p]
      /\ \A p \in DOMAIN overrides \ {o} : overrides'[p] = overrides[p]
  <2>1. DOMAIN captured = Objects
    BY <1>2 DEF TreeInv
  <2> QED BY <1>1, <1>3, <2>1
<1>7. Made(o, l.mandatory, touched', captured'[o])
  BY <1>4, <1>6 DEF Made
<1>8. ASSUME NEW p \in Objects, p # o, NEW conditions, Made(p, conditions, touched, captured[p])
      PROVE  Made(p, conditions, touched', captured'[p])
  <2>1. \A k : <<p, k>> \in touched => <<p, k>> \in touched'
    BY <1>1, <1>8
  <2> QED BY <1>6, <1>8, <2>1 DEF Made
<1>9. DefinitionsInv'
  <2>1. DOMAIN repo \subseteq DOMAIN overrides /\ DOMAIN overrides \subseteq Objects
    BY <1>2 DEF TreeInv
  <2>2. ASSUME NEW p \in DOMAIN repo PROVE Defined(repo'[p]) /\ Made(p, repo'[p].locator.mandatory, touched', captured'[p])
    <3>1. CASE p = o
      BY <1>5, <1>6, <1>7, <3>1
    <3>2. CASE p # o
      BY <1>2, <1>6, <1>8, <2>1, <3>2 DEF DefinitionsInv
    <3> QED BY <3>1, <3>2
  <2>3. ASSUME NEW p \in DOMAIN repo, repo'[p].kind # "visual" PROVE overrides'[p].mandatory # {}
    <3>1. CASE p = o
      BY <1>4, <1>5, <1>6, <2>3, <3>1
    <3>2. CASE p # o
      BY <1>2, <1>6, <2>1, <2>3, <3>2 DEF DefinitionsInv
    <3> QED BY <3>1, <3>2
  <2>4. \A p \in DOMAIN repo : repo'[p].name = repo[p].name
    BY <1>5, <1>6
  <2>5. \A p \in DOMAIN repo : \A q \in DOMAIN repo \ {p} : repo'[q].name # repo'[p].name
    BY <1>2, <2>4 DEF DefinitionsInv
  <2>6. ASSUME NEW p \in DOMAIN overrides PROVE Made(p, overrides'[p].mandatory, touched', captured'[p])
    <3>1. CASE p = o
      BY <1>6, <1>7, <3>1
    <3>2. CASE p # o
      BY <1>2, <1>6, <1>8, <2>1, <3>2 DEF DefinitionsInv
    <3> QED BY <3>1, <3>2
  <2> QED BY <1>6, <2>2, <2>3, <2>5, <2>6 DEF DefinitionsInv
<1>10. FormInv' /\ form'.of = o
  <2>1. \A c \in captured'[o] : Pair(c)
    BY <1>4, <1>6
  <2> QED BY <1>1, <1>3, <1>7, <2>1, FormShows
<1>11. o \in seen
  BY <1>2, <1>3 DEF TreeInv, o, Identity!Nobody
<1>12. TreeInv'
  <2>1. repo' = [p \in DOMAIN repo' |-> repo'[p]]
    BY <1>1
  <2> QED BY <1>1, <1>2, <1>6, <1>10, <1>11, <2>1 DEF TreeInv
<1>13. UnseenInv'
  <2>1. \A p \in DOMAIN repo \ seen : p \in DOMAIN overrides /\ p \in Objects /\ p # o
    BY <1>2, <1>11 DEF TreeInv
  <2> QED BY <1>1, <1>2, <1>6, <2>1 DEF UnseenInv, Untouched
<1>14. CapturedInv'
  BY <1>2, <1>4, <1>6 DEF CapturedInv
<1> QED BY <1>9, <1>10, <1>12, <1>13, <1>14 DEF IdentityInv

SavedOne(held, i) == Identity!SaveNode(held, tree[i], Identity!Remembered[tree[i]])
LEMMA SaveFolds ==
  ASSUME NEW n \in Nat, DOMAIN tree = 1 .. n, NEW X, [repo |-> repo, failed |-> FALSE] \in X,
         \A held \in X, i \in 1 .. n : SavedOne(held, i) \in X
  PROVE  Identity!FoldLeft(LAMBDA held, o : Identity!SaveNode(held, o, Identity!Remembered[o]),
                            [repo |-> repo, failed |-> FALSE], tree) \in X
<1> DEFINE base == [repo |-> repo, failed |-> FALSE]
           F == [i \in 1 .. n |-> [held \in X |-> SavedOne(held, i)]]
           Unfold(g) == [s \in SUBSET (1 .. n) |->
                         IF s = {} THEN base ELSE SavedOne(g[s \ {Largest(s)}], Largest(s))]
           iter == CHOOSE g : g = Unfold(g)
<1>0. \A s \in SUBSET (1 .. n) : s # {} => Largest(s) \in s /\ Largest(s) \in 1 .. n
  BY LargestIn
<1>1. \E g : g = Unfold(g)
  <2>1. base \in X /\ F \in [1 .. n -> [X -> X]]
    OBVIOUS
  <2>2. PICK g : g \in Folding(n, base, F, X)
    <3> HIDE DEF F, base
    <3> QED BY <2>1, FoldExists
  <2>3. \A s \in SUBSET (1 .. n) : g[s] = IF s = {} THEN base ELSE SavedOne(g[s \ {Largest(s)}], Largest(s))
    <3> SUFFICES ASSUME NEW s \in SUBSET (1 .. n), s # {}
                 PROVE  F[Largest(s)][g[s \ {Largest(s)}]] = SavedOne(g[s \ {Largest(s)}], Largest(s))
      <4> HIDE DEF F
      <4> QED BY <2>2 DEF Folding
    <3>1. g[s \ {Largest(s)}] \in X
      BY <2>2 DEF Folding
    <3> QED BY <1>0, <3>1
  <2> QED BY <2>2, <2>3 DEF Folding
<1>2. iter = Unfold(iter)
  BY <1>1
<1>3. iter[1 .. n] \in X
  <2>1. \A s \in SUBSET (1 .. n) : iter[s] = IF s = {} THEN base ELSE SavedOne(iter[s \ {Largest(s)}], Largest(s))
    BY <1>2
  <2> HIDE DEF iter
  <2>2. iter[{}] \in X
    BY <2>1
  <2>3. \A s \in SUBSET (1 .. n) : s # {} /\ iter[s \ {Largest(s)}] \in X => iter[s] \in X
    BY <1>0, <2>1
  <2> QED BY <2>2, <2>3, FoldStays
<1>4. Identity!FoldLeft(LAMBDA held, o : Identity!SaveNode(held, o, Identity!Remembered[o]),
                        base, tree) = iter[1 .. n]
  BY DEF Identity!FoldLeft, Identity!MapThenFoldSet, Identity!Max, Largest, SavedOne
<1> QED BY <1>3, <1>4

(* What a save may leave of each object, and of all of them.               *)
Rewritten(o) ==
  [repo[o] EXCEPT !.name = names[o], !.locator = Identity!Remembered[o], !.rev = @ + 1]
Survivors ==
  {r \in [DOMAIN repo -> UNION {{repo[o], Rewritten(o)} : o \in DOMAIN repo}] :
     /\ \A o \in DOMAIN repo : r[o] \in {repo[o], Rewritten(o)} /\ (o \notin seen => r[o] = repo[o])
     /\ \A o \in DOMAIN repo : \A p \in DOMAIN repo \ {o} : r[p].name # r[o].name}
Saves == [repo : Survivors, failed : BOOLEAN]

LEMMA ChangedIs ==
  ASSUME NEW o, Defined(repo[o])
  PROVE  /\ DOMAIN Rewritten(o) = Fields /\ Rewritten(o).kind = repo[o].kind
         /\ Rewritten(o).inventory = repo[o].inventory
         /\ Rewritten(o).name = names[o] /\ Rewritten(o).locator = Identity!Remembered[o]
BY DEF Defined, Fields, Rewritten

LEMMA SaveStep ==
  ASSUME IdentityInv, "nobody" \notin Objects, NEW held \in Saves, NEW i \in 1 .. Len(tree)
  PROVE  SavedOne(held, i) \in Saves
<1> DEFINE o == tree[i]
           d == held.repo[o]
           now == Identity!Remembered[o]
           next == [held.repo EXCEPT ![o] = Rewritten(o)]
<1>1. /\ o \in DOMAIN repo /\ Defined(repo[o])
      /\ \A p \in DOMAIN repo \ seen : Untouched(p)
      /\ DOMAIN repo \subseteq DOMAIN overrides
  BY DEF IdentityInv, TreeInv, DefinitionsInv, UnseenInv
<1>2. held.repo \in Survivors /\ held.failed \in BOOLEAN /\ held = [repo |-> held.repo, failed |-> held.failed]
  BY DEF Saves
<1>3. d = repo[o] \/ d = Rewritten(o)
  BY <1>1, <1>2 DEF Survivors
<1>4. CASE SavedOne(held, i) = held
  BY <1>4
<1>5. CASE SavedOne(held, i) = [held EXCEPT !.failed = TRUE]
  <2>1. [held EXCEPT !.failed = TRUE] \in Saves
    <3> HIDE DEF Survivors
    <3> QED BY DEF Saves
  <2> QED BY <1>5, <2>1
<1>6. ASSUME SavedOne(held, i) # held, SavedOne(held, i) # [held EXCEPT !.failed = TRUE]
      PROVE  /\ ~ (d.name = names[o] /\ d.locator = now)
             /\ \A p \in DOMAIN held.repo \ {o} : held.repo[p].name # names[o]
             /\ SavedOne(held, i) = [held EXCEPT !.repo[o] = [d EXCEPT !.name = names[o], !.locator = now, !.rev = @ + 1]]
  BY <1>6 DEF SavedOne, Identity!SaveNode
<1>7. CASE SavedOne(held, i) # held /\ SavedOne(held, i) # [held EXCEPT !.failed = TRUE]
  <2>1. d = repo[o]
    BY <1>1, <1>3, <1>6, <1>7, ChangedIs
  <2>2. [d EXCEPT !.name = names[o], !.locator = now, !.rev = @ + 1] = Rewritten(o)
    BY <2>1 DEF Rewritten
  <2>3. SavedOne(held, i) = [held EXCEPT !.repo[o] = Rewritten(o)]
    BY <1>6, <1>7, <2>2
  <2>4. SavedOne(held, i) = [repo |-> next, failed |-> held.failed]
    <3> HIDE DEF d, now
    <3> QED BY <1>2, <2>3
  <2>5. o \in seen
    <3>1. ASSUME o \notin seen PROVE repo[o].name = names[o] /\ repo[o].locator = now
      <4>1. Untouched(o) /\ Identity!Remembered[o] = overrides[o]
        BY <1>1, <3>1, RememberedIs
      <4> QED BY <4>1 DEF Untouched
    <3> QED BY <1>6, <1>7, <2>1, <3>1
  <2>6. Rewritten(o).name = names[o]
    BY <1>1, ChangedIs
  <2> DEFINE c == Rewritten(o)
  <2> HIDE DEF c, o, d, now
  <2>7. next = [held.repo EXCEPT ![o] = c]
    BY DEF c
  <2> HIDE DEF next
  <2>8. /\ DOMAIN next = DOMAIN repo /\ next[o] = c
        /\ \A p \in DOMAIN repo \ {o} : next[p] = held.repo[p]
    BY <1>1, <1>2, <2>7 DEF Survivors
  <2>9. /\ \A p \in DOMAIN repo : next[p] \in {repo[p], Rewritten(p)}
        /\ \A p \in DOMAIN repo : p \notin seen => next[p] = repo[p]
    BY <1>1, <1>2, <2>5, <2>8 DEF Survivors, c
  <2>10. \A p \in DOMAIN repo \ {o} : held.repo[p].name # c.name
    <3>1. DOMAIN held.repo = DOMAIN repo
      BY <1>2 DEF Survivors
    <3> QED BY <1>6, <1>7, <2>6, <3>1 DEF c
  <2>11. \A p \in DOMAIN repo : \A q \in DOMAIN repo \ {p} : next[q].name # next[p].name
    BY <1>1, <1>2, <2>8, <2>10 DEF Survivors
  <2>12. next \in [DOMAIN repo -> UNION {{repo[p], Rewritten(p)} : p \in DOMAIN repo}]
    <3>1. next = [p \in DOMAIN repo |-> next[p]]
      BY <1>2, <2>7, <2>8 DEF Survivors
    <3> QED BY <2>9, <3>1
  <2>13. next \in Survivors
    BY <2>9, <2>11, <2>12 DEF Survivors
  <2> QED BY <1>2, <2>4, <2>13 DEF Saves
<1> QED BY <1>4, <1>5, <1>7

LEMMA SaveKeeps ==
  ASSUME IdentityInv, Identity!Save, "nobody" \notin Objects
  PROVE  IdentityInv'
<1> DEFINE result == Identity!FoldLeft(LAMBDA held, o : Identity!SaveNode(held, o, Identity!Remembered[o]),
                                       [repo |-> repo, failed |-> FALSE], tree)
<1>1. /\ overrides' = Identity!Remembered /\ repo' = result.repo
      /\ tree' = tree /\ names' = names /\ form' = form /\ seen' = seen /\ touched' = touched /\ captured' = captured
  BY DEF Identity!Save, Identity!ghosts
<1>2. TreeInv /\ DefinitionsInv /\ UnseenInv /\ FormInv /\ CapturedInv
  BY DEF IdentityInv
<1>3. result \in Saves
  <2>1. [repo |-> repo, failed |-> FALSE] \in Saves
    <3>1. repo = [o \in DOMAIN repo |-> repo[o]]
      BY <1>2 DEF TreeInv
    <3>2. repo \in [DOMAIN repo -> UNION {{repo[o], Rewritten(o)} : o \in DOMAIN repo}]
      BY <3>1
    <3>3. repo \in Survivors
      BY <1>2, <3>2 DEF Survivors, DefinitionsInv
    <3> QED BY <3>3 DEF Saves
  <2>2. Len(tree) \in Nat /\ DOMAIN tree = 1 .. Len(tree)
    BY <1>2 DEF TreeInv
  <2>3. \A held \in Saves, i \in 1 .. Len(tree) : SavedOne(held, i) \in Saves
    BY SaveStep
  <2> QED BY <2>1, <2>2, <2>3, SaveFolds
<1> HIDE DEF result
<1>4. repo' \in Survivors
  BY <1>1, <1>3 DEF Saves
<1>5. /\ DOMAIN repo' = DOMAIN repo
      /\ \A o \in DOMAIN repo : repo'[o] = repo[o] \/ repo'[o] = Rewritten(o)
      /\ \A o \in DOMAIN repo \ seen : repo'[o] = repo[o]
      /\ \A o \in DOMAIN repo : \A p \in DOMAIN repo \ {o} : repo'[p].name # repo'[o].name
  BY <1>4 DEF Survivors
<1>6. /\ DOMAIN overrides' = DOMAIN overrides
      /\ \A o \in DOMAIN overrides : Made(o, overrides'[o].mandatory, touched, captured[o])
      /\ \A o \in DOMAIN repo : repo[o].kind # "visual" => overrides'[o].mandatory # {}
      /\ \A o \in DOMAIN repo \ seen : overrides'[o] = overrides[o]
  BY <1>1, RememberedIs
<1>7. ASSUME NEW o \in DOMAIN repo
      PROVE  /\ Defined(repo'[o]) /\ repo'[o].kind = repo[o].kind
             /\ Made(o, repo'[o].locator.mandatory, touched, captured[o])
  <2>1. Defined(repo[o]) /\ Made(o, repo[o].locator.mandatory, touched, captured[o]) /\ o \in DOMAIN overrides
    BY <1>2 DEF DefinitionsInv, TreeInv
  <2>2. CASE repo'[o] = repo[o]
    BY <2>1, <2>2
  <2>3. CASE repo'[o] = Rewritten(o)
    <3>1. /\ DOMAIN Rewritten(o) = Fields /\ Rewritten(o).kind = repo[o].kind
          /\ Rewritten(o).inventory = repo[o].inventory /\ Rewritten(o).locator = overrides'[o]
      BY <1>1, <2>1, ChangedIs
    <3>2. DOMAIN repo'[o] = Fields /\ repo'[o].kind = repo[o].kind /\ repo'[o].inventory = repo[o].inventory
          /\ repo'[o].locator = overrides'[o]
      BY <2>3, <3>1
    <3> QED BY <1>6, <2>1, <3>2 DEF Defined
  <2> QED BY <1>5, <2>2, <2>3
<1>8. DefinitionsInv'
  BY <1>1, <1>5, <1>6, <1>7 DEF DefinitionsInv
<1>9. TreeInv' /\ UnseenInv'
  <2>1. repo' = [o \in DOMAIN repo' |-> repo'[o]]
    <3> HIDE DEF Rewritten
    <3> QED BY <1>4 DEF Survivors
  <2> QED BY <1>1, <1>2, <1>5, <1>6, <2>1 DEF TreeInv, UnseenInv, Untouched
<1>10. FormInv' /\ CapturedInv'
  BY <1>1, <1>2 DEF FormInv, CapturedInv
<1> QED BY <1>8, <1>9, <1>10 DEF IdentityInv

LEMMA IdentityNext ==
  ASSUME ObjectsAssumption, IdentityInv, [Identity!Next]_(Identity!vars)
  PROVE  IdentityInv'
<1>0. "nobody" \notin Objects
  BY DEF ObjectsAssumption, Identity!Nobody
<1>1. CASE UNCHANGED Identity!vars
  BY <1>1 DEF Identity!vars, IdentityInv, TreeInv, DefinitionsInv, UnseenInv, Untouched, FormInv, CapturedInv
<1>2. CASE Identity!ContextReady
  BY <1>0, <1>2, ContextKeeps
<1>3. CASE Identity!ToggleOrdinal
  BY <1>0, <1>3, OrdinalKeeps
<1>4. CASE Identity!Save
  BY <1>0, <1>4, SaveKeeps
<1>5. CASE Identity!Delete
  BY <1>0, <1>5, DeleteKeeps
<1>6. CASE \E o \in Objects : Identity!Select(o)
  BY <1>0, <1>6, SelectKeeps
<1>7. CASE \E n \in Identity!Names : Identity!Rename(n)
  BY <1>0, <1>7, RenameKeeps
<1>8. CASE \E r \in form.rows : \/ Identity!Toggle(r)
                                \/ \E value \in {Identity!Typed, Identity!Blank} : Identity!Enter(r, value)
  BY <1>0, <1>8, ToggleKeeps, EnterKeeps
<1>9. CASE \E shot \in Identity!Shots(form.of), matches \in 0 .. 2 : Identity!Recapture(shot, matches)
  BY <1>0, <1>9, RecaptureKeeps
<1> QED BY <1>1, <1>2, <1>3, <1>4, <1>5, <1>6, <1>7, <1>8, <1>9 DEF Identity!Next

LEMMA IdentityMeant == IdentityInv => Identity!IdentityIsAuthored
<1> SUFFICES ASSUME IdentityInv PROVE Identity!IdentityIsAuthored
  OBVIOUS
<1>1. Identity!UnseenIsKept
  BY DEF IdentityInv, UnseenInv, Untouched, Identity!UnseenIsKept
<1>2. Identity!ConditionsAreAuthored
  BY DEF IdentityInv, DefinitionsInv, Made, Identity!ConditionsAreAuthored
<1>3. Identity!RepositoryIsSound
  BY DEF IdentityInv, DefinitionsInv, Defined, Identity!RepositoryIsSound
<1> QED BY <1>1, <1>2, <1>3 DEF Identity!IdentityIsAuthored

-----------------------------------------------------------------------------
(* BundleRuns: what the check of a bundle foresees.                        *)

LibraryRecords ==
  [file : {1, 2}, state : {"ok", "syntax", "raises"},
   step : [name : Bundles!Names, alias : Bundles!Names \cup {"no alias"}, outputs : BOOLEAN, needs : BOOLEAN,
           form : {"plain", "computed", "nested", "broken"}]]

LEMMA LibraryTyped ==
  ASSUME NEW e \in {1, 2}, NEW s \in {"ok", "syntax", "raises"}, NEW n \in Bundles!Names,
         NEW a \in Bundles!Names \cup {"no alias"}, NEW o \in BOOLEAN, NEW d \in BOOLEAN,
         NEW f \in {"plain", "computed", "nested", "broken"}
  PROVE  Bundles!Library(e, Bundles!Declaration(n, a, o, d, f), s) \in LibraryRecords
BY DEF Bundles!Library, Bundles!Declaration, LibraryRecords

LEMMA LibraryFile ==
  \A e, d, s : Bundles!Library(e, d, s).file = e
BY DEF Bundles!Library

LEMMA LibrariesAre ==
  ASSUME NEW ls \in Bundles!Libraries
  PROVE  \/ ls = <<>>
         \/ \E l \in LibraryRecords : ls = <<l>>
         \/ \E l, k \in LibraryRecords : ls = <<l, k>> /\ (l.file = k.file => l = k)
<1>1. ASSUME NEW l \in Bundles!First PROVE l \in LibraryRecords /\ l.file = 1
  <2> DEFINE DA(n, a, p) == Bundles!Library(1, Bundles!Declaration(n, a, p[1], p[2], "plain"), "ok")
             DB(n, f) == Bundles!Library(1, Bundles!Declaration(n, Bundles!NoAlias, TRUE, FALSE, f), "ok")
             DC(n, s) == Bundles!Library(1, Bundles!Declaration(n, Bundles!NoAlias, TRUE, FALSE, "plain"), s)
             P == {<<TRUE, FALSE>>, <<FALSE, FALSE>>, <<TRUE, TRUE>>}
             Q == {"computed", "nested", "broken"}
             R == {"syntax", "raises"}
             A == {DA(n, a, p) : n \in Bundles!Names, a \in Bundles!Names \cup {Bundles!NoAlias}, p \in P}
             B == {DB(n, f) : n \in Bundles!Names, f \in Q}
             C == {DC(n, s) : n \in UserNames, s \in R}
  <2>0. Bundles!First = A \cup B \cup C
    BY DEF Bundles!First
  <2> HIDE DEF DA, DB, DC, P, Q, R
  <2>1. CASE l \in A
    <3>1. PICK n \in Bundles!Names, a \in Bundles!Names \cup {Bundles!NoAlias}, p \in P : l = DA(n, a, p)
      BY <2>1
    <3>2. p = <<TRUE, FALSE>> \/ p = <<FALSE, FALSE>> \/ p = <<TRUE, TRUE>>
      BY DEF P
    <3>3. p[1] \in BOOLEAN /\ p[2] \in BOOLEAN
      <4>1. CASE p = <<TRUE, FALSE>>
        BY <4>1
      <4>2. CASE p = <<FALSE, FALSE>>
        BY <4>2
      <4>3. CASE p = <<TRUE, TRUE>>
        BY <4>3
      <4> QED BY <3>2, <4>1, <4>2, <4>3
    <3>8. l.file = 1
      BY <3>1, LibraryFile DEF DA
    <3>9. l \in LibraryRecords
       BY <3>1, <3>3, LibraryTyped DEF Bundles!NoAlias, DA
    <3> QED BY <3>8, <3>9
  <2>2. CASE l \in B
    <3>1. PICK n \in Bundles!Names, f \in Q : l = DB(n, f)
      BY <2>2
    <3>2. f \in {"plain", "computed", "nested", "broken"}
      BY DEF Q
    <3>3. \A o \in BOOLEAN, d \in BOOLEAN :
            Bundles!Library(1, Bundles!Declaration(n, "no alias", o, d, f), "ok") \in LibraryRecords
      BY <3>2, LibraryTyped
    <3>8. l.file = 1
      BY <3>1, LibraryFile DEF DB
    <3>9. l \in LibraryRecords
       BY <3>1, <3>3 DEF Bundles!NoAlias, DB
    <3> QED BY <3>8, <3>9
  <2>3. CASE l \in C
    <3>1. PICK n \in UserNames, s \in R : l = DC(n, s)
      BY <2>3
    <3>2. s \in {"ok", "syntax", "raises"} /\ n \in Bundles!Names
      BY DEF R, Bundles!Names
    <3>3. \A o \in BOOLEAN, d \in BOOLEAN :
            Bundles!Library(1, Bundles!Declaration(n, "no alias", o, d, "plain"), s) \in LibraryRecords
      BY <3>2, LibraryTyped
    <3>8. l.file = 1
      BY <3>1, LibraryFile DEF DC
    <3>9. l \in LibraryRecords
       BY <3>1, <3>3 DEF Bundles!NoAlias, DC
    <3> QED BY <3>8, <3>9
  <2> HIDE DEF A, B, C
  <2> QED BY <1>1, <2>0, <2>1, <2>2, <2>3
<1>2. ASSUME NEW l \in Bundles!Second PROVE l \in LibraryRecords /\ l.file = 2
  <2>1. PICK n \in UserNames : l = Bundles!Library(2, Bundles!Declaration(n, Bundles!NoAlias, TRUE, FALSE, "plain"), "ok")
    BY <1>2 DEF Bundles!Second
  <2>2. \A o \in BOOLEAN, d \in BOOLEAN :
          Bundles!Library(2, Bundles!Declaration(n, "no alias", o, d, "plain"), "ok") \in LibraryRecords
    BY LibraryTyped DEF Bundles!Names
  <2>3. l.file = 2
    BY <2>1, LibraryFile
  <2>4. l \in LibraryRecords
    BY <2>1, <2>2 DEF Bundles!NoAlias
  <2> QED BY <2>3, <2>4
<1>3. \/ ls = <<>> \/ \E l \in Bundles!First : ls = <<l>> \/ ls = <<l, l>>
      \/ \E l \in Bundles!First, k \in Bundles!Second : ls = <<l, k>>
  BY DEF Bundles!Libraries
<1> QED BY <1>1, <1>2, <1>3

Registries ==
  [ok : BOOLEAN, files : SUBSET {1, 2}, steps : SUBSET ({Bundles!TheBuiltin} \cup {l.step : l \in LibraryRecords})]

LEMMA ExecutedTyped ==
  ASSUME NEW r \in Registries, NEW l \in LibraryRecords
  PROVE  Bundles!Executed(r, l) \in Registries
<1>1. /\ r.ok \in BOOLEAN /\ r.files \in SUBSET {1, 2} /\ l.file \in {1, 2}
      /\ r.steps \in SUBSET ({Bundles!TheBuiltin} \cup {k.step : k \in LibraryRecords})
  BY DEF Registries, LibraryRecords
<1>2. l.step \in {k.step : k \in LibraryRecords}
  OBVIOUS
<1>3. ASSUME NEW ok \in BOOLEAN, NEW added \in SUBSET {l.step}
      PROVE  [ok |-> ok, files |-> r.files \cup {l.file}, steps |-> r.steps \cup added] \in Registries
  <2> HIDE DEF LibraryRecords
  <2> QED BY <1>1, <1>2 DEF Registries
<1> HIDE DEF Registries, LibraryRecords
<1>4. CASE ~ r.ok \/ l.file \in r.files
  BY <1>4 DEF Bundles!Executed
<1>5. CASE ~ (~ r.ok \/ l.file \in r.files)
  <2> DEFINE taken == Bundles!NamesOf(l.step) \cap Bundles!NamesIn(r) # {}
             ok == CASE l.step.form = "broken" -> FALSE
                     [] l.step.form = "nested" -> l.state = "ok"
                     [] OTHER -> l.state = "ok" /\ ~ taken
             added == IF ok /\ l.step.form # "nested" THEN {l.step} ELSE {}
  <2>1. ok \in BOOLEAN
    OBVIOUS
  <2>2. added \in SUBSET {l.step}
    OBVIOUS
  <2>3. Bundles!Executed(r, l) = [ok |-> ok, files |-> r.files \cup {l.file}, steps |-> r.steps \cup added]
    BY <1>5 DEF Bundles!Executed
  <2> HIDE DEF ok, added
  <2> QED BY <1>3, <2>1, <2>2, <2>3
<1> QED BY <1>4, <1>5

(* What the folds over no library, one and two of them are.                *)
LEMMA LoadedIs ==
  ASSUME NEW b, NEW n \in Nat, DOMAIN b.libraries = 1 .. n, \A i \in 1 .. n : b.libraries[i] \in LibraryRecords
  PROVE  /\ n = 0 => Bundles!Loaded(b) = Bundles!NoSteps
         /\ n = 1 => Bundles!Loaded(b) = Bundles!Executed(Bundles!NoSteps, b.libraries[1])
         /\ n = 2 => Bundles!Loaded(b) = Bundles!Executed(Bundles!Executed(Bundles!NoSteps, b.libraries[1]), b.libraries[2])
<1> DEFINE X == Registries
           base == Bundles!NoSteps
           Step(r, i) == Bundles!Executed(r, b.libraries[i])
           F == [i \in 1 .. n |-> [r \in X |-> Step(r, i)]]
           Unfold(g) == [s \in SUBSET (1 .. n) |->
                         IF s = {} THEN base ELSE Step(g[s \ {Largest(s)}], Largest(s))]
           iter == CHOOSE g : g = Unfold(g)
<1>0. \A s \in SUBSET (1 .. n) : s # {} => Largest(s) \in s /\ Largest(s) \in 1 .. n
  BY LargestIn
<1>1. \E g : g = Unfold(g)
  <2>1. base \in X
    BY DEF Registries, Bundles!NoSteps
  <2>9. F \in [1 .. n -> [X -> X]]
    BY ExecutedTyped
  <2>2. PICK g : g \in Folding(n, base, F, X)
    <3> HIDE DEF F, base, X
    <3> QED BY <2>1, <2>9, FoldExists
  <2>3. \A s \in SUBSET (1 .. n) : g[s] = IF s = {} THEN base ELSE Step(g[s \ {Largest(s)}], Largest(s))
    <3> SUFFICES ASSUME NEW s \in SUBSET (1 .. n), s # {}
                 PROVE  F[Largest(s)][g[s \ {Largest(s)}]] = Step(g[s \ {Largest(s)}], Largest(s))
      <4> HIDE DEF F, X, base
      <4> QED BY <2>2 DEF Folding
    <3>1. g[s \ {Largest(s)}] \in X
      BY <2>2 DEF Folding
    <3> HIDE DEF X
    <3> QED BY <1>0, <3>1
  <2> QED BY <2>2, <2>3 DEF Folding
<1>2. iter = Unfold(iter)
  BY <1>1
<1>3. Bundles!Loaded(b) = iter[1 .. n]
  BY DEF Bundles!Loaded, Bundles!FoldLeft, Bundles!MapThenFoldSet, Bundles!Max, Largest
<1>4. \A s \in SUBSET (1 .. n) : iter[s] = IF s = {} THEN base ELSE Step(iter[s \ {Largest(s)}], Largest(s))
  BY <1>2
<1> HIDE DEF iter, base, Step
<1>5. iter[{}] = base
  BY <1>4
<1>6. n >= 1 => iter[1 .. 1] = Step(base, 1)
  <2>1. Largest(1 .. 1) = 1 /\ (1 .. 1) \ {1} = {}
    BY LargestOfAll
  <2> QED BY <1>4, <1>5, <2>1
<1>7. n >= 2 => iter[1 .. 2] = Step(Step(base, 1), 2)
  <2>1. (1 .. 2) \ {2} = 1 .. 1 /\ 1 .. 2 \subseteq 1 .. 1 + 1 /\ 1 + 1 \in 1 .. 2 /\ 1 + 1 = 2
    OBVIOUS
  <2>2. Largest(1 .. 2) = 1 + 1
    BY <2>1, LargestOfAll
  <2> QED BY <1>4, <1>6, <2>1, <2>2
<1>8. n = 0 => 1 .. n = {}
  OBVIOUS
<1>9. n = 0 => Bundles!Loaded(b) = base
  BY <1>3, <1>5, <1>8
<1>10. n = 1 => Bundles!Loaded(b) = Step(base, 1)
  BY <1>3, <1>6
<1>11. n = 2 => Bundles!Loaded(b) = Step(Step(base, 1), 2)
  BY <1>3, <1>7
<1> QED BY <1>9, <1>10, <1>11 DEF base, Step

Ordinary(l) == l.step.form = "plain" /\ l.state = "ok"

LEMMA ExecutedOk ==
  ASSUME NEW r \in Registries, NEW l \in LibraryRecords, r.ok, l.file \notin r.files,
         l.step.form \in {"plain", "broken"}
  PROVE  LET e == Bundles!Executed(r, l) IN
         /\ e.ok <=> (Ordinary(l) /\ Bundles!NamesOf(l.step) \cap Bundles!NamesIn(r) = {})
         /\ e.ok => e.steps = r.steps \cup {l.step}
         /\ e.files = r.files \cup {l.file}
<1> DEFINE taken == Bundles!NamesOf(l.step) \cap Bundles!NamesIn(r) # {}
<1>1. CASE l.step.form = "broken"
  <2>1. Bundles!Executed(r, l) = [ok |-> FALSE, files |-> r.files \cup {l.file}, steps |-> r.steps \cup {}]
    BY <1>1 DEF Bundles!Executed
  <2> QED BY <2>1, <1>1 DEF Ordinary
<1>2. CASE l.step.form = "plain" /\ Ordinary(l) /\ ~taken
  <2>1. Bundles!Executed(r, l) = [ok |-> TRUE, files |-> r.files \cup {l.file}, steps |-> r.steps \cup {l.step}]
    BY <1>2 DEF Bundles!Executed, Ordinary
  <2> QED BY <2>1, <1>2 DEF Ordinary
<1>3. CASE l.step.form = "plain" /\ ~(Ordinary(l) /\ ~taken)
  <2>1. Bundles!Executed(r, l) = [ok |-> FALSE, files |-> r.files \cup {l.file}, steps |-> r.steps \cup {}]
    BY <1>3 DEF Bundles!Executed, Ordinary
  <2> QED BY <2>1, <1>3 DEF Ordinary
<1> QED BY <1>1, <1>2, <1>3

LEMMA ExecutedNot ==
  ASSUME NEW r \in Registries, NEW l, ~ r.ok
  PROVE  Bundles!Executed(r, l) = r
BY DEF Bundles!Executed

LEMMA NamesOfNoSteps ==
  ASSUME NamesAssumption
  PROVE  /\ Bundles!NoSteps \in Registries /\ Bundles!NoSteps.ok /\ Bundles!NoSteps.files = {}
         /\ Bundles!NoSteps.steps = {Bundles!TheBuiltin}
         /\ Bundles!NamesOf(Bundles!TheBuiltin) = {Builtin}
         /\ Bundles!NamesIn(Bundles!NoSteps) = {Builtin}
<1>1. Bundles!NamesOf(Bundles!TheBuiltin) = {Builtin}
  BY DEF NamesAssumption, Bundles!NamesOf, Bundles!TheBuiltin, Bundles!Declaration, Bundles!Names, Bundles!NoAlias
<1>2. /\ Bundles!NoSteps \in Registries /\ Bundles!NoSteps.ok /\ Bundles!NoSteps.files = {}
      /\ Bundles!NoSteps.steps = {Bundles!TheBuiltin}
  BY DEF Bundles!NoSteps, Registries
<1> QED BY <1>1, <1>2 DEF Bundles!NamesIn

(* A load of n libraries of different files, none of which hides what it   *)
(* declares: it works when nothing is broken and no name is taken.         *)
LEMMA LoadedWhole ==
  ASSUME NamesAssumption,
         NEW b, NEW n \in {0, 1, 2}, DOMAIN b.libraries = 1 .. n,
         \A i \in 1 .. n : b.libraries[i] \in LibraryRecords /\ b.libraries[i].step.form \in {"plain", "broken"},
         n = 2 => b.libraries[1].file # b.libraries[2].file
  PROVE  /\ Bundles!Loaded(b).ok <=>
              /\ \A i \in 1 .. n : Ordinary(b.libraries[i]) /\ Builtin \notin Bundles!NamesOf(b.libraries[i].step)
              /\ n = 2 => Bundles!NamesOf(b.libraries[1].step) \cap Bundles!NamesOf(b.libraries[2].step) = {}
         /\ Bundles!Loaded(b).ok =>
              Bundles!Loaded(b).steps = {Bundles!TheBuiltin} \cup {b.libraries[i].step : i \in 1 .. n}
<1> DEFINE none == Bundles!NoSteps
           l == b.libraries[1]
           k == b.libraries[2]
           one == Bundles!Executed(none, l)
           two == Bundles!Executed(one, k)
<1>1. none \in Registries /\ none.ok /\ none.files = {} /\ none.steps = {Bundles!TheBuiltin}
      /\ Bundles!NamesIn(none) = {Builtin}
  BY NamesOfNoSteps
<1>0. /\ n = 0 => Bundles!Loaded(b) = none /\ 1 .. n = {}
      /\ n = 1 => Bundles!Loaded(b) = one /\ 1 .. n = {1}
      /\ n = 2 => Bundles!Loaded(b) = two /\ 1 .. n = {1, 2}
  <2>1. n \in Nat /\ \A i \in 1 .. n : b.libraries[i] \in LibraryRecords
    OBVIOUS
  <2>2. /\ n = 0 => 1 .. n = {}
        /\ n = 1 => 1 .. n = {1}
        /\ n = 2 => 1 .. n = {1, 2}
    OBVIOUS
  <2>3. /\ n = 0 => Bundles!Loaded(b) = none
        /\ n = 1 => Bundles!Loaded(b) = one
        /\ n = 2 => Bundles!Loaded(b) = two
    BY <2>1, LoadedIs
  <2> HIDE DEF none, one, two
  <2> QED BY <2>2, <2>3
<1>2. CASE n = 0
  <2>1. Bundles!Loaded(b) = none /\ 1 .. n = {}
    <3> HIDE DEF none
    <3> QED BY <1>0, <1>2
  <2> HIDE DEF none
  <2> QED BY <1>1, <1>2, <2>1
<1>3. ASSUME n >= 1
      PROVE  /\ l \in LibraryRecords /\ one \in Registries
             /\ one.ok <=> (Ordinary(l) /\ Builtin \notin Bundles!NamesOf(l.step))
             /\ one.ok => one.steps = {Bundles!TheBuiltin} \cup {l.step}
             /\ one.files = {l.file}
  <2>1. 1 \in 1 .. n
    BY <1>3
  <2>2. l \in LibraryRecords /\ l.step.form \in {"plain", "broken"}
    BY <2>1
  <2> HIDE DEF l, none
  <2>3. /\ one.ok <=> (Ordinary(l) /\ Bundles!NamesOf(l.step) \cap Bundles!NamesIn(none) = {})
        /\ one.ok => one.steps = none.steps \cup {l.step}
        /\ one.files = none.files \cup {l.file}
    BY <1>1, <2>2, ExecutedOk
  <2>4. one \in Registries
    BY <1>1, <2>2, ExecutedTyped
  <2> HIDE DEF one
  <2> QED BY <2>2, <2>3, <2>4, <1>1
<1>4. CASE n = 1
  <2>1. Bundles!Loaded(b) = one /\ 1 .. n = {1}
    <3> HIDE DEF one
    <3> QED BY <1>0, <1>4
  <2>2. {b.libraries[i].step : i \in 1 .. n} = {l.step}
    BY <2>1
  <2>3. (\A i \in 1 .. n : Ordinary(b.libraries[i]) /\ Builtin \notin Bundles!NamesOf(b.libraries[i].step))
         <=> (Ordinary(l) /\ Builtin \notin Bundles!NamesOf(l.step))
    BY <2>1
  <2> HIDE DEF one, l
  <2> QED BY <1>3, <1>4, <2>1, <2>2, <2>3
<1>5. CASE n = 2
  <2>1. Bundles!Loaded(b) = two /\ 1 .. n = {1, 2}
    <3> HIDE DEF two
    <3> QED BY <1>0, <1>5
  <2>2. {b.libraries[i].step : i \in 1 .. n} = {l.step, k.step}
    BY <2>1
  <2>3. (\A i \in 1 .. n : Ordinary(b.libraries[i]) /\ Builtin \notin Bundles!NamesOf(b.libraries[i].step))
         <=> (Ordinary(l) /\ Builtin \notin Bundles!NamesOf(l.step) /\ Ordinary(k) /\ Builtin \notin Bundles!NamesOf(k.step))
    BY <2>1
  <2>4. k \in LibraryRecords /\ k.step.form \in {"plain", "broken"} /\ l.file # k.file
    BY <2>1, <1>5
  <2> HIDE DEF one, l, k
  <2>5. one \in Registries /\ one.files = {l.file}
        /\ (one.ok <=> (Ordinary(l) /\ Builtin \notin Bundles!NamesOf(l.step)))
        /\ (one.ok => one.steps = {Bundles!TheBuiltin} \cup {l.step})
    BY <1>3, <1>5
  <2>6. CASE ~ one.ok
    <3>1. two = one
      BY <2>5, <2>6, ExecutedNot
    <3> HIDE DEF two
    <3> QED BY <2>1, <2>3, <2>5, <2>6, <3>1
  <2>7. CASE one.ok
    <3>1. /\ two.ok <=> (Ordinary(k) /\ Bundles!NamesOf(k.step) \cap Bundles!NamesIn(one) = {})
          /\ two.ok => two.steps = one.steps \cup {k.step}
      BY <2>4, <2>5, <2>7, ExecutedOk
    <3>2. Bundles!NamesIn(one) = {Builtin} \cup Bundles!NamesOf(l.step)
      <4>1. one.steps = none.steps \cup {l.step}
        BY <1>1, <2>5, <2>7
      <4> HIDE DEF none
      <4>2. Bundles!NamesIn(one) = Bundles!NamesIn(none) \cup Bundles!NamesOf(l.step)
        BY <4>1 DEF Bundles!NamesIn
      <4> QED BY <4>2, <1>1
    <3> HIDE DEF two
    <3> QED BY <1>5, <2>1, <2>2, <2>3, <2>5, <2>7, <3>1, <3>2
  <2> QED BY <2>6, <2>7
<1> QED BY <1>2, <1>4, <1>5

(* What the libraries of a bundle can be.                                  *)
LibrariesOf(b, n) ==
  /\ DOMAIN b.libraries = 1 .. n
  /\ \A i \in 1 .. n : b.libraries[i] \in LibraryRecords
  /\ n = 2 /\ b.libraries[1].file = b.libraries[2].file => b.libraries[1] = b.libraries[2]

LEMMA BundleIs ==
  ASSUME NEW b \in Bundles!Bundles
  PROVE  /\ \E n \in {0, 1, 2} : LibrariesOf(b, n)
         /\ b.ref \in Bundles!References /\ b.capable \in BOOLEAN
<1> DEFINE ls == b.libraries
<1>1. /\ ls \in Bundles!Libraries /\ b.ref \in Bundles!References /\ b.capable \in BOOLEAN
  BY DEF Bundles!Bundles
<1>2. CASE ls = <<>>
  BY <1>2, <1>1 DEF LibrariesOf
<1>3. CASE \E l \in LibraryRecords : ls = <<l>>
  <2>1. PICK l \in LibraryRecords : ls = <<l>>
    BY <1>3
  <2>2. LibrariesOf(b, 1)
    BY <2>1 DEF LibrariesOf
  <2> QED BY <1>1, <2>2
<1>4. CASE \E l, k \in LibraryRecords : ls = <<l, k>> /\ (l.file = k.file => l = k)
  <2>1. PICK l \in LibraryRecords, k \in LibraryRecords : ls = <<l, k>> /\ (l.file = k.file => l = k)
    BY <1>4
  <2>2. LibrariesOf(b, 2)
    BY <2>1 DEF LibrariesOf
  <2> QED BY <1>1, <2>2
<1> QED BY <1>1, <1>2, <1>3, <1>4, LibrariesAre

LEMMA SeenIs ==
  ASSUME NEW b, NEW n \in {0, 1, 2}, LibrariesOf(b, n), \A i \in 1 .. n : Bundles!Readable(b.libraries[i])
  PROVE  Bundles!Seen(b) = [i \in 1 .. n |-> b.libraries[i].step]
<1>1. {k \in DOMAIN b.libraries : Bundles!Readable(b.libraries[k])} = 1 .. n
  BY DEF LibrariesOf
<1> QED BY <1>1 DEF Bundles!Seen

LEMMA CollidesIs ==
  ASSUME NEW b, NEW n \in {0, 1, 2}, LibrariesOf(b, n), \A i \in 1 .. n : Bundles!Readable(b.libraries[i])
  PROVE  ~ Bundles!Collides(Bundles!Seen(b)) <=>
           /\ \A i \in 1 .. n : /\ Builtin \notin Bundles!NamesOf(b.libraries[i].step)
                                /\ b.libraries[i].step.alias # b.libraries[i].step.name
           /\ n = 2 => Bundles!NamesOf(b.libraries[1].step) \cap Bundles!NamesOf(b.libraries[2].step) = {}
<1> DEFINE s == Bundles!Seen(b)
<1>1. s = [i \in 1 .. n |-> b.libraries[i].step]
  BY SeenIs
<1>2. DOMAIN s = 1 .. n /\ \A i \in 1 .. n : s[i] = b.libraries[i].step
  <2> HIDE DEF s
  <2> QED BY <1>1
<1> HIDE DEF s
<1>3. (\E i \in 1 .. n : \E j \in 1 .. n : j < i /\ Bundles!NamesOf(s[j]) \cap Bundles!NamesOf(s[i]) # {})
      <=> (n = 2 /\ Bundles!NamesOf(s[1]) \cap Bundles!NamesOf(s[2]) # {})
  <2>1. ASSUME NEW i \in 1 .. n, NEW j \in 1 .. n, j < i PROVE n = 2 /\ j = 1 /\ i = 2
    BY <2>1
  <2>2. n = 2 => 1 \in 1 .. n /\ 2 \in 1 .. n /\ 1 < 2
    OBVIOUS
  <2> QED BY <2>1, <2>2
<1>4. Bundles!Collides(s) <=>
        \/ \E i \in 1 .. n : Builtin \in Bundles!NamesOf(s[i]) \/ s[i].alias = s[i].name
        \/ n = 2 /\ Bundles!NamesOf(s[1]) \cap Bundles!NamesOf(s[2]) # {}
  BY <1>2, <1>3 DEF Bundles!Collides
<1>5. n = 2 => 1 \in 1 .. n /\ 2 \in 1 .. n
  OBVIOUS
<1> QED BY <1>2, <1>4, <1>5 DEF s

(* A library repeated collides with itself.                                *)
LEMMA RepeatedCollides ==
  ASSUME NamesAssumption, NEW l \in LibraryRecords
  PROVE  Bundles!NamesOf(l.step) # {}
BY DEF NamesAssumption, LibraryRecords, Bundles!NamesOf

(* The declaration that a name stands for is the one that is found.        *)
LEMMA FoundIsMeant ==
  ASSUME NamesAssumption,
         NEW b, NEW n \in {0, 1, 2}, LibrariesOf(b, n), \A i \in 1 .. n : Bundles!Readable(b.libraries[i]),
         ~ Bundles!Collides(Bundles!Seen(b)), NEW t \in Bundles!Names
  PROVE  {d \in {Bundles!TheBuiltin} \cup {b.libraries[i].step : i \in 1 .. n} : t \in Bundles!NamesOf(d)}
           = Bundles!Meant(t, Bundles!Seen(b))
<1> DEFINE s == [i \in 1 .. n |-> b.libraries[i].step]
           found == {d \in {Bundles!TheBuiltin} \cup {b.libraries[i].step : i \in 1 .. n} : t \in Bundles!NamesOf(d)}
           with == {i \in DOMAIN s : t \in Bundles!NamesOf(s[i])}
<1>1. Bundles!Seen(b) = s
  BY SeenIs
<1>2. /\ \A i \in 1 .. n : Builtin \notin Bundles!NamesOf(b.libraries[i].step)
      /\ n = 2 => Bundles!NamesOf(b.libraries[1].step) \cap Bundles!NamesOf(b.libraries[2].step) = {}
  BY CollidesIs
<1>3. Bundles!NamesOf(Bundles!TheBuiltin) = {Builtin}
  BY NamesOfNoSteps
<1>4. CASE t = Builtin
  <2>1. found = {Bundles!TheBuiltin}
    BY <1>2, <1>3, <1>4
  <2>2. Bundles!Meant(t, s) = {Bundles!TheBuiltin}
    BY <1>4 DEF Bundles!Meant
  <2> QED BY <1>1, <2>1, <2>2
<1>5. CASE t # Builtin
  <2>1. \A i, j \in with : i = j
    <3> SUFFICES ASSUME NEW i \in with, NEW j \in with, i # j PROVE FALSE
      OBVIOUS
    <3>1. i \in 1 .. n /\ j \in 1 .. n /\ t \in Bundles!NamesOf(b.libraries[i].step)
          /\ t \in Bundles!NamesOf(b.libraries[j].step)
      OBVIOUS
    <3>2. n = 2 /\ ((i = 1 /\ j = 2) \/ (i = 2 /\ j = 1))
      BY <3>1
    <3> QED BY <1>2, <3>1, <3>2
  <2>2. {i \in with : \A j \in with : i <= j} = with
    <3>1. \A i \in with : i \in Nat
      OBVIOUS
    <3> HIDE DEF with
    <3> QED BY <2>1, <3>1
  <2>3. Bundles!Meant(t, s) = {s[i] : i \in {i \in with : \A j \in with : i <= j}}
    BY <1>5 DEF Bundles!Meant
  <2>4. Bundles!Meant(t, s) = {s[i] : i \in with}
    BY <2>2, <2>3
  <2>5. found = {s[i] : i \in with}
    <3>1. ~ t \in Bundles!NamesOf(Bundles!TheBuiltin)
      BY <1>3, <1>5
    <3>2. ASSUME NEW d \in found PROVE d \in {s[i] : i \in with}
      BY <3>1
    <3>3. ASSUME NEW i \in with PROVE s[i] \in found
      OBVIOUS
    <3> HIDE DEF s, with, found
    <3> QED BY <3>2, <3>3
  <2> QED BY <1>1, <2>4, <2>5
<1> QED BY <1>4, <1>5

(* What a load of libraries that hide nothing agrees on with the check.    *)
LEMMA OpenLoads ==
  ASSUME NamesAssumption, NEW b, NEW n \in {0, 1, 2}, LibrariesOf(b, n),
         \A i \in 1 .. n : b.libraries[i].step.form \in {"plain", "broken"},
         n = 2 => b.libraries[1].file # b.libraries[2].file
  PROVE  /\ Bundles!Loaded(b).ok =>
              /\ \A i \in 1 .. n : Ordinary(b.libraries[i]) /\ Bundles!Readable(b.libraries[i])
              /\ (\A i \in 1 .. n : b.libraries[i].step.alias # b.libraries[i].step.name)
                   => ~ Bundles!Collides(Bundles!Seen(b))
         /\ (\A i \in 1 .. n : Ordinary(b.libraries[i])) /\ ~ Bundles!Collides(Bundles!Seen(b)) => Bundles!Loaded(b).ok
         /\ Bundles!Loaded(b).ok =>
              Bundles!Loaded(b).steps = {Bundles!TheBuiltin} \cup {b.libraries[i].step : i \in 1 .. n}
<1>1. DOMAIN b.libraries = 1 .. n
      /\ \A i \in 1 .. n : b.libraries[i] \in LibraryRecords /\ b.libraries[i].step.form \in {"plain", "broken"}
  BY DEF LibrariesOf
<1>2. /\ Bundles!Loaded(b).ok <=>
              /\ \A i \in 1 .. n : Ordinary(b.libraries[i]) /\ Builtin \notin Bundles!NamesOf(b.libraries[i].step)
              /\ n = 2 => Bundles!NamesOf(b.libraries[1].step) \cap Bundles!NamesOf(b.libraries[2].step) = {}
      /\ Bundles!Loaded(b).ok =>
              Bundles!Loaded(b).steps = {Bundles!TheBuiltin} \cup {b.libraries[i].step : i \in 1 .. n}
  BY <1>1, LoadedWhole
<1>3. \A i \in 1 .. n : Ordinary(b.libraries[i]) => Bundles!Readable(b.libraries[i])
  BY DEF Ordinary, Bundles!Readable
<1>4. (\A i \in 1 .. n : Ordinary(b.libraries[i])) =>
        (~ Bundles!Collides(Bundles!Seen(b)) <=>
           /\ \A i \in 1 .. n : /\ Builtin \notin Bundles!NamesOf(b.libraries[i].step)
                                /\ b.libraries[i].step.alias # b.libraries[i].step.name
           /\ n = 2 => Bundles!NamesOf(b.libraries[1].step) \cap Bundles!NamesOf(b.libraries[2].step) = {})
  BY <1>3, CollidesIs
<1> QED BY <1>2, <1>3, <1>4

Rejects(b, d) ==
  \/ b.ref.bind \in {"undeclared", "dotted", "spaced"}
  \/ b.ref.bind # "no" /\ ~ d.outputs
  \/ d.needs /\ ~ b.capable

LEMMA ReferenceBits ==
  ASSUME NEW b, b.ref \in Bundles!References
  PROVE  /\ b.ref.bind \in Bundles!Bindings /\ b.ref.kind \in {"component", "step"}
         /\ b.ref.kind = "step" => b.ref.target \in Bundles!Names
<1> QED BY DEF Bundles!References, Bundles!Bindings

LEMMA WrongIsRejected ==
  ASSUME NEW b, b.ref.bind \in Bundles!Bindings, NEW d
  PROVE  /\ b.ref.bind # "spaced" /\ Rejects(b, d) =>
              Bundles!BindingIsWrong(d, b.ref.bind) \/ (d.needs /\ ~ b.capable)
         /\ b.ref.bind # "computed" /\ (Bundles!BindingIsWrong(d, b.ref.bind) \/ (d.needs /\ ~ b.capable))
              => Rejects(b, d)
BY DEF Rejects, Bundles!BindingIsWrong, Bundles!Bindings

LEMMA UnresolvedIs ==
  ASSUME NEW b
  PROVE  Bundles!Unresolved(b) <=>
           \/ ~ Bundles!Loaded(b).ok
           \/ b.ref.kind = "component" /\ b.ref.target = "unknown"
           \/ /\ b.ref.kind # "component"
              /\ LET found == {d \in Bundles!Loaded(b).steps : b.ref.target \in Bundles!NamesOf(d)}
                 IN found = {} \/ \E d \in found : Rejects(b, d)
BY DEF Bundles!Unresolved, Rejects

(* The check and the test process find the same wrong with a reference,    *)
(* once the libraries load.                                                *)
LEMMA SameReference ==
  ASSUME NamesAssumption, NEW b, NEW n \in {0, 1, 2}, LibrariesOf(b, n), b.ref \in Bundles!References,
         \A i \in 1 .. n : Bundles!Readable(b.libraries[i]),
         ~ Bundles!Collides(Bundles!Seen(b)), Bundles!Loaded(b).ok,
         Bundles!Loaded(b).steps = {Bundles!TheBuiltin} \cup {b.libraries[i].step : i \in 1 .. n}
  PROVE  /\ b.ref.literal /\ b.ref.bind # "spaced" /\ Bundles!Unresolved(b) => Bundles!ReferenceIsWrong(b)
         /\ b.ref.bind # "computed" /\ Bundles!ReferenceIsWrong(b) => Bundles!Unresolved(b)
<1> DEFINE found == {d \in Bundles!Loaded(b).steps : b.ref.target \in Bundles!NamesOf(d)}
           meant == Bundles!Meant(b.ref.target, Bundles!Seen(b))
<1>1. b.ref.bind \in Bundles!Bindings /\ b.ref.kind \in {"component", "step"}
      /\ (b.ref.kind = "step" => b.ref.target \in Bundles!Names)
  BY ReferenceBits
<1>2. Bundles!Unresolved(b) <=>
           \/ b.ref.kind = "component" /\ b.ref.target = "unknown"
           \/ b.ref.kind = "step" /\ (found = {} \/ \E d \in found : Rejects(b, d))
  BY <1>1, UnresolvedIs
<1>3. Bundles!ReferenceIsWrong(b) <=>
        /\ b.ref.literal
        /\ \/ b.ref.kind = "component" /\ b.ref.target = "unknown"
           \/ b.ref.kind = "step"
              /\ (meant = {} \/ \E d \in meant : Bundles!BindingIsWrong(d, b.ref.bind) \/ (d.needs /\ ~ b.capable))
  BY <1>1 DEF Bundles!ReferenceIsWrong
<1>4. b.ref.kind = "step" => found = meant
  BY <1>1, FoundIsMeant
<1>5. \A d : /\ b.ref.bind # "spaced" /\ Rejects(b, d) =>
                  Bundles!BindingIsWrong(d, b.ref.bind) \/ (d.needs /\ ~ b.capable)
             /\ b.ref.bind # "computed" /\ (Bundles!BindingIsWrong(d, b.ref.bind) \/ (d.needs /\ ~ b.capable))
                  => Rejects(b, d)
  BY <1>1, WrongIsRejected
<1> HIDE DEF found, meant
<1> QED BY <1>2, <1>3, <1>4, <1>5

(* What the check accepts works, unless the source hides it.               *)
LEMMA AcceptedWorks ==
  ASSUME NamesAssumption, NEW b \in Bundles!Bundles, ~ Bundles!Issues(b), Bundles!Unresolved(b)
  PROVE  Bundles!Hidden(b)
<1> SUFFICES ASSUME ~ Bundles!Hidden(b) PROVE FALSE
  OBVIOUS
<1>1. PICK n \in {0, 1, 2} : LibrariesOf(b, n)
  BY BundleIs
<1>2. b.ref \in Bundles!References
  BY BundleIs
<1>3. /\ b.ref.literal /\ b.ref.bind # "spaced"
      /\ \A i \in 1 .. n : b.libraries[i].state # "raises" /\ b.libraries[i].step.form \notin {"nested", "broken"}
  BY <1>1 DEF Bundles!Hidden, LibrariesOf
<1>4. /\ \A i \in 1 .. n : Bundles!Readable(b.libraries[i])
      /\ ~ Bundles!Collides(Bundles!Seen(b)) /\ ~ Bundles!ReferenceIsWrong(b)
  BY <1>1 DEF Bundles!Issues, LibrariesOf
<1>5. \A i \in 1 .. n : b.libraries[i] \in LibraryRecords
  BY <1>1 DEF LibrariesOf
<1>6. \A i \in 1 .. n : Ordinary(b.libraries[i]) /\ b.libraries[i].step.form \in {"plain", "broken"}
  BY <1>3, <1>4, <1>5 DEF Ordinary, LibraryRecords, Bundles!Readable
<1>7. n = 2 => b.libraries[1].file # b.libraries[2].file
  <2> SUFFICES ASSUME n = 2, b.libraries[1].file = b.libraries[2].file PROVE FALSE
    OBVIOUS
  <2>1. b.libraries[1] = b.libraries[2]
    BY <1>1 DEF LibrariesOf
  <2>2. Bundles!NamesOf(b.libraries[1].step) \cap Bundles!NamesOf(b.libraries[2].step) = {}
    BY <1>1, <1>4, CollidesIs
  <2>3. 1 \in 1 .. n
    OBVIOUS
  <2> QED BY <2>1, <2>2, <2>3, <1>5, RepeatedCollides
<1>8. Bundles!Loaded(b).ok
      /\ Bundles!Loaded(b).steps = {Bundles!TheBuiltin} \cup {b.libraries[i].step : i \in 1 .. n}
  <2>1. \A i \in 1 .. n : b.libraries[i].step.form \in {"plain", "broken"}
    BY <1>6
  <2>2. (\A i \in 1 .. n : Ordinary(b.libraries[i])) /\ ~ Bundles!Collides(Bundles!Seen(b)) => Bundles!Loaded(b).ok
    BY <1>1, <1>7, <2>1, OpenLoads
  <2>3. Bundles!Loaded(b).ok =>
          Bundles!Loaded(b).steps = {Bundles!TheBuiltin} \cup {b.libraries[i].step : i \in 1 .. n}
    BY <1>1, <1>7, <2>1, OpenLoads
  <2> QED BY <1>4, <1>6, <2>2, <2>3
<1> QED BY <1>1, <1>2, <1>3, <1>4, <1>8, SameReference

(* What it refuses does not work, unless it is stricter than the test.     *)
LEMMA RefusedFails ==
  ASSUME NamesAssumption, NEW b \in Bundles!Bundles, Bundles!Issues(b), ~ Bundles!Strict(b)
  PROVE  Bundles!Unresolved(b)
<1>1. PICK n \in {0, 1, 2} : LibrariesOf(b, n)
  BY BundleIs
<1>2. b.ref \in Bundles!References
  BY BundleIs
<1>3. DOMAIN b.libraries = 1 .. n /\ \A i \in 1 .. n : b.libraries[i] \in LibraryRecords
  BY <1>1 DEF LibrariesOf
<1>4. /\ b.ref.bind # "computed"
      /\ \A i \in 1 .. n : /\ b.libraries[i].step.form \notin {"computed", "nested"}
                           /\ b.libraries[i].step.alias # b.libraries[i].step.name
                           /\ \A j \in 1 .. n : i # j => b.libraries[i].file # b.libraries[j].file
  BY <1>3 DEF Bundles!Strict
<1>5. \A i \in 1 .. n : b.libraries[i].step.form \in {"plain", "broken"}
  BY <1>3, <1>4 DEF LibraryRecords
<1>6. n = 2 => b.libraries[1].file # b.libraries[2].file
  <2>1. n = 2 => 1 \in 1 .. n /\ 2 \in 1 .. n
    OBVIOUS
  <2> QED BY <2>1, <1>4
<1>7. CASE ~ Bundles!Loaded(b).ok
  BY <1>7, UnresolvedIs
<1>8. CASE Bundles!Loaded(b).ok
  <2>1. /\ \A i \in 1 .. n : Bundles!Readable(b.libraries[i])
        /\ ~ Bundles!Collides(Bundles!Seen(b))
        /\ Bundles!Loaded(b).steps = {Bundles!TheBuiltin} \cup {b.libraries[i].step : i \in 1 .. n}
    BY <1>1, <1>4, <1>5, <1>6, <1>8, OpenLoads
  <2>2. Bundles!ReferenceIsWrong(b)
    BY <1>3, <2>1 DEF Bundles!Issues
  <2> QED BY <1>1, <1>2, <1>4, <1>8, <2>1, <2>2, SameReference
<1> QED BY <1>7, <1>8

(* What a test found unresolved is unresolved in files the check accepted. *)
ForeseenInv ==
  /\ bundle \in Bundles!Bundles
  /\ tested = "unresolved" => Bundles!Unresolved(bundle) /\ ~ Bundles!Issues(bundle)

LEMMA ForeseenStart == Bundles!Init => ForeseenInv
BY DEF Bundles!Init, ForeseenInv

LEMMA ForeseenNext == BundleInv /\ ForeseenInv /\ [Bundles!Next]_(Bundles!vars) => ForeseenInv'
<1> SUFFICES ASSUME BundleInv, ForeseenInv, [Bundles!Next]_(Bundles!vars) PROVE ForeseenInv'
  OBVIOUS
<1>1. bundle' = bundle /\ (tested' = tested \/ (tested' = "unresolved" =>
         pc = "test" /\ Bundles!Unresolved(bundle)))
  BY DEF Bundles!Next, Bundles!vars, Bundles!Check, Bundles!StartDisplay, Bundles!StartApp, Bundles!HealthCheck,
    Bundles!Test, Bundles!Stop, Bundles!Publish, Bundles!Interrupt, Bundles!Ends
<1>2. pc = "test" => ~ Bundles!Issues(bundle)
  BY DEF BundleInv, VerdictInv, Started
<1> QED BY <1>1, <1>2 DEF ForeseenInv

LEMMA ForeseenMeant == NamesAssumption /\ ForeseenInv => Bundles!CheckForesees
<1> SUFFICES ASSUME NamesAssumption, ForeseenInv PROVE Bundles!CheckForesees
  OBVIOUS
<1>1. tested = "unresolved" => Bundles!Hidden(bundle)
  BY AcceptedWorks DEF ForeseenInv
<1>2. Bundles!Issues(bundle) /\ ~ Bundles!Strict(bundle) => Bundles!Unresolved(bundle)
  BY RefusedFails DEF ForeseenInv
<1> QED BY <1>1, <1>2 DEF Bundles!CheckForesees


(* Showing, editing, recapturing, deleting and saving objects in any order *)
(* changes no definition the form has not shown, leaves mandatory only     *)
(* conditions that captures or the user made, keeps those nobody touched,  *)
(* and keeps names apart (see IdentityForm; repository_identity_workbench_ *)
(* window.py, object_identity_workbench.py).                               *)
THEOREM FormsKeepIdentities == Spec => [](part = "identity" => Identity!IdentityIsAuthored)
<1> DEFINE IInv == part = "identity" => IdentityInv
<1>1. Init => IInv
  BY ObjectsAssumption, IdentityStart DEF Init
<1>2. IInv /\ [Next]_vars => IInv'
  <2> SUFFICES ASSUME IInv, [Next]_vars PROVE IInv'
    OBVIOUS
  <2>1. part' = part /\ (part = "identity" => [Identity!Next]_(Identity!vars))
    BY DEF Next, vars, onlyIdentity, Identity!vars
  <2> QED BY <2>1, ObjectsAssumption, IdentityNext
<1>3. IInv => (part = "identity" => Identity!IdentityIsAuthored)
  BY IdentityMeant
<1> HIDE DEF IInv
<1> QED BY <1>1, <1>2, <1>3, PTL DEF Spec

(* What the check of a bundle accepts, the test process resolves, unless   *)
(* the source hides it; what it refuses would not have been resolved,      *)
(* unless it is stricter on purpose (see BundleRuns; validator.py,         *)
(* step_registry.py).                                                      *)
THEOREM ChecksForesee == Spec => [](part = "bundles" => Bundles!CheckForesees)
<1> DEFINE BInv == part = "bundles" => BundleInv /\ ForeseenInv
<1>1. Init => BInv
  BY BundleStart, ForeseenStart DEF Init
<1>2. BInv /\ [Next]_vars => BInv'
  <2> SUFFICES ASSUME BInv, [Next]_vars PROVE BInv'
    OBVIOUS
  <2>1. part' = part /\ (part = "bundles" => [Bundles!Next]_(Bundles!vars))
    BY DEF Next, vars, onlyBundles, Bundles!vars
  <2> QED BY <2>1, BundleNext, ForeseenNext
<1>3. BInv => (part = "bundles" => Bundles!CheckForesees)
  BY ForeseenMeant, NamesAssumption
<1> HIDE DEF BInv
<1> QED BY <1>1, <1>2, <1>3, PTL DEF Spec

(* The artifacts of a project stay sound: migrations whole wherever other  *)
(* processes save, locators as they were authored, checks right.           *)
THEOREM ArtifactsSound == Spec => []ArtifactsAreSound
<1>1. (part = "editing" => Editing!MigratedTogether) /\ (part = "identity" => Identity!IdentityIsAuthored)
        /\ (part = "bundles" => Bundles!CheckForesees) => ArtifactsAreSound
  BY DEF ArtifactsAreSound
<1> QED BY <1>1, MigrationsAreWhole, FormsKeepIdentities, ChecksForesee, PTL
=============================================================================
