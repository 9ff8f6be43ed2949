------------------------- MODULE MCRecordingSession -------------------------
(* One object of each kind, or of the kinds a run is about. *)
EXTENDS RecordingSession

MCKind == [x \in Objects |-> x]
Single == <<"javafx">>
Both == <<"atspi", "javafx">>
=============================================================================
