------------------------- MODULE MCBerneseCampaign -------------------------
(***************************************************************************)
(* Two sessions, two configurations (the second with another antenna and   *)
(* antenna file), and data files in both naming schemes for TLC.           *)
(***************************************************************************)
EXTENDS BerneseCampaign

Site(code, antenna) == [code |-> code, receiver |-> "R", antenna |-> antenna]
MCConfigs ==
    {[stations |-> {Site("PZAM", "A")}, atx |-> "igs14", models |-> {"A"}, blq |-> TRUE],
     [stations |-> {Site("PZAM", "A"), Site("PLG2", "B")}, atx |-> "igs20",
      models |-> {"A", "B"}, blq |-> FALSE]}

File(code, naming, day, receiver, antenna) ==
    [code |-> code, marker |-> "", naming |-> naming, day |-> day,
     receiver |-> receiver, antenna |-> antenna]

MCSessions == {2026084, 2026085}
MCFiles == {File("PZAM", "short", 2026084, "R", "A"),
            [File("PL", "long", 2026085, "R", "B") EXCEPT !.marker = "PLG2"]}
=============================================================================
