-------------------------- MODULE MCStationService --------------------------
EXTENDS StationService
MCSentence == <<"velocity", "unended", "badsum", "displacement">>
MCGaps == {-1, 0, 1, 2, 5}
MCModes == {"ntrip", "raw", "replay"}
=============================================================================
