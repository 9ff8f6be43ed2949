---------------------- MODULE RecordingSettingsProofs ----------------------
(***************************************************************************)
(* The session theorems for three settings of a recording, whatever the    *)
(* values and the windows of the code. Two adapters report the gestures,   *)
(* each as late as it likes: the last text of a field wins and what one    *)
(* adapter heard is recorded. The native agent reports alone: what it      *)
(* reports is recorded exactly. Two adapters and a user who waits for      *)
(* them: what both report is recorded once.                                *)
(***************************************************************************)
EXTENDS MCRecordingSettings, TLAPS

(* The setting meets the assumptions of the session.                       *)
LEMMA TwiceAssumptions ==
  /\ Twice!ObjectsAssumption /\ Twice!AdaptersAssumption /\ Twice!WindowsAssumption
  /\ Twice!TabsAreHeard
<1>1. Twice!ObjectsAssumption
  BY ObjectsAssumption, SettingsAssumption DEF Twice!ObjectsAssumption, Twice!Kinds, BothObjects
<1>2. Twice!AdaptersAssumption
  BY AdaptersAssumption DEF Twice!AdaptersAssumption, Twice!Frameworks, Frameworks, Both
<1>3. Twice!WindowsAssumption
  BY WindowsAssumption DEF Twice!WindowsAssumption
<1>4. Twice!TabsAreHeard
  BY DEF Twice!TabsAreHeard, BothObjects
<1> QED BY <1>1, <1>2, <1>3, <1>4

HeardSoFar == setting = "both" => Twice!TInv /\ Twice!HInv

LEMMA InitHeardSoFar == SettingsInit => HeardSoFar
<1>1. Twice!Init => Twice!TInv /\ Twice!HInv
  BY TwiceAssumptions, Twice!InitTInv, Twice!InitHInv
<1> QED BY <1>1 DEF SettingsInit, HeardSoFar

LEMMA NextHeardSoFar == HeardSoFar /\ [SettingsNext]_<<setting, vars>> => HeardSoFar'
<1> SUFFICES ASSUME HeardSoFar, [SettingsNext]_<<setting, vars>>, setting' = "both"
             PROVE  (Twice!TInv /\ Twice!HInv)'
  BY DEF HeardSoFar
<1>1. setting = "both"
  BY DEF SettingsNext
<1>2. [Twice!Next]_(Twice!vars)
  BY <1>1 DEF SettingsNext, vars, Twice!vars, transcript, contexts, user,
              Twice!transcript, Twice!contexts, Twice!user
<1>3. Twice!TInv /\ Twice!HInv
  BY <1>1 DEF HeardSoFar
<1> QED BY <1>2, <1>3, TwiceAssumptions, Twice!NextTInv, Twice!NextHInv

(* With two adapters that report as late as they like, the last text of a  *)
(* field is recorded last and what one of them heard is recorded, whatever *)
(* becomes of the other.                                                   *)
THEOREM TwoAdaptersKept == SettingsSpec => []HeardIsKept
<1>1. HeardSoFar => HeardIsKept
  BY TwiceAssumptions, Twice!LastOfTInv, Twice!HeardOfHInv DEF HeardSoFar, HeardIsKept
<1> QED BY <1>1, InitHeardSoFar, NextHeardSoFar, PTL DEF SettingsSpec

-----------------------------------------------------------------------------
(* The native agent alone *)

LEMMA NativeAssumptions ==
  /\ Native!ObjectsAssumption /\ Native!AdaptersAssumption /\ Native!WindowsAssumption
  /\ Native!Alone /\ Native!NativeWindow
<1>1. Native!ObjectsAssumption
  BY ObjectsAssumption, SettingsAssumption DEF Native!ObjectsAssumption, Native!Kinds, NativeObjects
<1>2. Native!AdaptersAssumption
  BY AdaptersAssumption DEF Native!AdaptersAssumption, Native!Frameworks, Frameworks, Single
<1>3. Native!WindowsAssumption
  BY WindowsAssumption DEF Native!WindowsAssumption
<1>4. Native!Alone
  BY DEF Native!Alone, Single
<1>5. Native!NativeWindow
  BY DEF Native!NativeWindow, Native!NativeKinds, NativeObjects
<1> QED BY <1>1, <1>2, <1>3, <1>4, <1>5

KeptSoFar == setting = "native" => Native!CInv /\ Native!NInv

LEMMA InitKeptSoFar == SettingsInit => KeptSoFar
<1>1. Native!Init => Native!CInv /\ Native!NInv
  BY NativeAssumptions, Native!InitCInv, Native!InitNInv
<1> QED BY <1>1 DEF SettingsInit, KeptSoFar

LEMMA NextKeptSoFar == KeptSoFar /\ [SettingsNext]_<<setting, vars>> => KeptSoFar'
<1> SUFFICES ASSUME KeptSoFar, [SettingsNext]_<<setting, vars>>, setting' = "native"
             PROVE  (Native!CInv /\ Native!NInv)'
  BY DEF KeptSoFar
<1>1. setting = "native"
  BY DEF SettingsNext
<1>2. [Native!Next]_(Native!vars)
  BY <1>1 DEF SettingsNext, vars, Native!vars, transcript, contexts, user,
              Native!transcript, Native!contexts, Native!user
<1>3. Native!CInv /\ Native!NInv
  BY <1>1 DEF KeptSoFar
<1>4. Native!CInv'
  BY <1>2, <1>3, NativeAssumptions, Native!NextCInv
<1>5. Native!NInv'
  BY <1>2, <1>3, NativeAssumptions, Native!NextNInv
<1> QED BY <1>4, <1>5

(* What the native agent reports alone is recorded exactly: every gesture  *)
(* outside the shadow of an opener becomes one interaction on its object,  *)
(* with its action and value, in order, and a choice with its menu.        *)
THEOREM NativeRecordedExactly == SettingsSpec => []NativeFaithful
<1>1. KeptSoFar => NativeFaithful
  BY NativeAssumptions, Native!FaithfulOfNInv, Native!InOrderOfNInv, Native!MenusOfNInv
     DEF KeptSoFar, NativeFaithful
<1> QED BY <1>1, InitKeptSoFar, NextKeptSoFar, PTL DEF SettingsSpec

-----------------------------------------------------------------------------
(* A user who waits for both adapters *)

LEMMA PatientAssumptions ==
  /\ Patient!ObjectsAssumption /\ Patient!AdaptersAssumption /\ Patient!WindowsAssumption
  /\ Patient!PatientUser
<1>1. Patient!ObjectsAssumption
  <2>1. CalmObjects \subseteq Objects /\ NoObject \notin Objects
    BY ObjectsAssumption, SettingsAssumption
  <2>2. NoValue \notin CalmValues
    BY ObjectsAssumption, SettingsAssumption
  <2> QED BY <2>1, <2>2 DEF Patient!ObjectsAssumption, Patient!Kinds, CalmObjects
<1>2. Patient!AdaptersAssumption
  BY AdaptersAssumption DEF Patient!AdaptersAssumption, Patient!Frameworks, Frameworks, Both
<1>3. Patient!WindowsAssumption
  BY WindowsAssumption DEF Patient!WindowsAssumption
<1>4. Patient!PatientUser
  BY DEF Patient!PatientUser, Both
<1> QED BY <1>1, <1>2, <1>3, <1>4

OnceSoFar == setting = "calm" => Patient!CInv /\ Patient!PInv

LEMMA InitOnceSoFar == SettingsInit => OnceSoFar
<1>1. Patient!Init => Patient!CInv /\ Patient!PInv
  BY PatientAssumptions, Patient!InitCInv, Patient!InitPInv
<1> QED BY <1>1 DEF SettingsInit, OnceSoFar

LEMMA NextOnceSoFar == OnceSoFar /\ [SettingsNext]_<<setting, vars>> => OnceSoFar'
<1> SUFFICES ASSUME OnceSoFar, [SettingsNext]_<<setting, vars>>, setting' = "calm"
             PROVE  (Patient!CInv /\ Patient!PInv)'
  BY DEF OnceSoFar
<1>1. setting = "calm"
  BY DEF SettingsNext
<1>2. [Patient!Next]_(Patient!vars)
  BY <1>1 DEF SettingsNext, vars, Patient!vars, transcript, contexts, user,
              Patient!transcript, Patient!contexts, Patient!user
<1>3. Patient!CInv /\ Patient!PInv
  BY <1>1 DEF OnceSoFar
<1>4. Patient!CInv'
  BY <1>2, <1>3, PatientAssumptions, Patient!NextCInv
<1>5. Patient!PInv'
  BY <1>2, <1>3, PatientAssumptions, Patient!NextPInv
<1> QED BY <1>4, <1>5

(* The two reports of one click or selection of a user who waits for them  *)
(* become one interaction that carries the native identity.                *)
THEOREM BothReportsRecordedOnce == SettingsSpec => []RecordedOnce
<1>1. OnceSoFar => RecordedOnce
  BY PatientAssumptions, Patient!ClicksOfPInv, Patient!SelectionsOfPInv
     DEF OnceSoFar, RecordedOnce
<1> QED BY <1>1, InitOnceSoFar, NextOnceSoFar, PTL DEF SettingsSpec
=============================================================================
