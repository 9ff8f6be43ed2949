------------------------- MODULE MCRecordingSettings -------------------------
(* Three settings of a recording, chosen at its start. "native": the       *)
(* native agent reports alone. "both": two adapters, each report as late   *)
(* as it likes. "calm": two adapters and a user who waits for them.        *)
EXTENDS MCRecordingSession

VARIABLE setting

(* With the proofs about it: RecordingSettingsProofs cites them.           *)
NativeObjects == {"button", "check", "selector", "menu", "item"}
Native == INSTANCE RecordingSessionProofs WITH
  Objects <- NativeObjects, Kind <- [x \in NativeObjects |-> x], Adapters <- Single,
  AtspiFrameworks <- {"atspi"}, Calm <- FALSE, Gaps <- {1, 2, 4}, MaxGestures <- 4

BothObjects == {"button", "field", "menu", "item"}
Twice == INSTANCE RecordingSessionProofs WITH
  Objects <- BothObjects, Kind <- [x \in BothObjects |-> x], Adapters <- Both,
  Calm <- FALSE, Gaps <- {1, 3}, MaxGestures <- 3

CalmObjects == {"button", "check", "tabs", "selector", "menu", "item"}
CalmValues == {"a"}
Patient == INSTANCE RecordingSessionProofs WITH
  Objects <- CalmObjects, Kind <- [x \in CalmObjects |-> x], Values <- CalmValues, Adapters <- Both,
  Calm <- TRUE, Gaps <- {1, 3}, MaxGestures <- 3

ASSUME SettingsAssumption ==
  NativeObjects \cup BothObjects \cup CalmObjects \subseteq Objects /\ CalmValues \subseteq Values

SettingsInit ==
  \/ setting = "native" /\ Native!Init
  \/ setting = "both" /\ Twice!Init
  \/ setting = "calm" /\ Patient!Init

SettingsNext ==
  /\ UNCHANGED setting
  /\ \/ setting = "native" /\ Native!Next
     \/ setting = "both" /\ Twice!Next
     \/ setting = "calm" /\ Patient!Next

SettingsSpec == SettingsInit /\ [][SettingsNext]_<<setting, vars>>

-----------------------------------------------------------------------------
(* What the native agent reports alone is recorded exactly: every gesture  *)
(* outside the shadow of an opener, in order, with its menu (see Faithful, *)
(* InOrder and ChoicesKnowTheirMenu of RecordingSession).                  *)
NativeFaithful ==
  setting = "native" => Native!Faithful /\ Native!InOrder /\ Native!ChoicesKnowTheirMenu

(* With two adapters, the last text of a field wins and what one adapter   *)
(* heard is recorded, whatever becomes of the other.                       *)
HeardIsKept == setting = "both" => Twice!LastTextWins /\ Twice!HeardIsRecorded

(* The two reports of one click or selection of a user who waits for them  *)
(* become one interaction.                                                 *)
RecordedOnce ==
  setting = "calm" => Patient!ClicksRecordedOnce /\ Patient!SelectionsRecordedOnce
=============================================================================
