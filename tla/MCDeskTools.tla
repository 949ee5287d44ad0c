----------------------------- MODULE MCDeskTools -----------------------------
(***************************************************************************)
(* A small panel tree and a small recycle bin for TLC.                     *)
(***************************************************************************)
EXTENDS DeskTools

\* A panel line as PanelProvision!Line has it; the MAXPAR line has nothing else.
L(sep, stamp, ascii, comment) ==
    [comment |-> comment, sep |-> sep, drive |-> FALSE, stamp |-> stamp, date |-> FALSE,
     ceiling |-> FALSE, ascii |-> ascii]
Maxpar == [L("none", FALSE, TRUE, FALSE) EXCEPT !.ceiling = TRUE]
PanelKind == [p \in Panels |-> CASE p = "ADDNEQ2.INP" -> "addneq2"
                                 [] p = "CRDMERGE.INP" -> "panel"
                                 [] OTHER -> "script"]
PanelVersions == [p \in Panels |->
    CASE p = "ADDNEQ2.INP" -> {{Maxpar, L("mixed", FALSE, TRUE, FALSE)}, {Maxpar, L("slash", TRUE, TRUE, FALSE)},
                               {L("mixed", FALSE, TRUE, FALSE)}}
      [] p = "CRDMERGE.INP" -> {{L("slash", TRUE, TRUE, TRUE)},
                                {L("none", FALSE, FALSE, FALSE), L("mixed", FALSE, TRUE, FALSE)}}
      [] OTHER -> {{L("mixed", TRUE, TRUE, FALSE)}}]

\* Two deleted files, a $I stub among the records, and a deleted directory with two
\* members; the $I files may be missing, invalid, choke the parser or climb, and may
\* name the directory's place or the place of a member.
R(sid, kind, name, sub, size) ==
    [bin |-> TRUE, wanted |-> TRUE, deep |-> TRUE, sid |-> sid, kind |-> kind, name |-> name,
     sub |-> sub, size |-> size]
MCCatalogs == {<<R("S1", "R", "$Ra", <<>>, 1), R("S1", "I", "$Ia", <<>>, 1), R("S1", "R", "$Rb", <<"x">>, 1),
                  R("S1", "R", "$Rb", <<"$Ra">>, 2), R("S2", "R", "$Ra", <<>>, 2)>>}
Named(at) == [kind |-> "named", at |-> at]
MCInfos == [{<<"S1", "$Ra">>, <<"S1", "$Rb">>, <<"S2", "$Ra">>} ->
               {Named(<<"C", "p">>), Named(<<"C", "p", "x">>), Named(<<"C", "..">>),
                [kind |-> "invalid", at |-> <<"C">>], [kind |-> "raises", at |-> <<"C">>]}]
PanelOrder == <<"ADDNEQ2.INP", "CRDMERGE.INP", "PPP.pl">>
=============================================================================
