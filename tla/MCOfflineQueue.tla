--------------------------- MODULE MCOfflineQueue ---------------------------
(***************************************************************************)
(* Two submissions, each of a maintenance visit that is filled in          *)
(* correctly or of a campaign visit without its slant heights.             *)
(***************************************************************************)
EXTENDS OfflineQueue

MCVisit == [station |-> "code", method |-> "continuous", antenna |-> FALSE, slants |-> FALSE,
            times |-> FALSE, fits |-> TRUE, observers |-> FALSE, photo |-> TRUE]
MCKinds == {MCVisit, [MCVisit EXCEPT !.method = "campaign", !.antenna = TRUE]}
=============================================================================
