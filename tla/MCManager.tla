----------------------------- MODULE MCManager -----------------------------
(* Instances of Manager for TLC: configurations that differ from the first *)
(* in a few things each.                                                   *)
EXTENDS Manager

Base ==
    [host |-> 1, tool |-> 1, airplay |-> TRUE, airplay2 |-> FALSE, target |-> 0,
     account |-> TRUE, enabled |-> {1, 2}, recover |-> FALSE]

Elsewhere == [Base EXCEPT !.host = 2, !.recover = TRUE, !.airplay2 = TRUE]
Moved == [Base EXCEPT !.airplay2 = TRUE, !.target = 2]
Fewer == [Base EXCEPT !.airplay2 = TRUE, !.enabled = {2}]
(* A list of speakers was read before the account was removed and saved    *)
(* after it.                                                               *)
LoggedOut == [Base EXCEPT !.account = FALSE]
Silent == [Base EXCEPT !.airplay2 = TRUE, !.tool = 0]
OtherTool == [Base EXCEPT !.tool = 2]

AllSettings == {Base, Elsewhere, Moved, Fewer, LoggedOut, Silent}
ToolSettings == {Base, OtherTool}
=============================================================================
