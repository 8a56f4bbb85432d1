----------------------------- MODULE MCRenderer -----------------------------
(* Small instances of Renderer for TLC.                                    *)
EXTENDS RendererRefines, TLC

(* Requests are interchangeable, and so are the sources.  Sound for the    *)
(* safety runs only.                                                       *)
Symmetry == Permutations(Requests) \cup Permutations(Sources)

LevelsTwo == {0, 1}
PollOps == {"Cast", "SetVolume", "SetMute", "Play", "Pause"}
=============================================================================
