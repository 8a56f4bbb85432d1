--------------------------- MODULE RendererRefines ---------------------------
(* The renderer keeps the promise of LatestWins.                           *)
EXTENDS Renderer

Reserved(p) ==
    /\ pc[p] \in {"playAt", "lock", "wire", "commit"}
    /\ ~Superseded(p)

Promise == INSTANCE LatestWins WITH
    playback <- <<state, uri, airplay, mute>>,
    current <- {p \in Procs : Reserved(p)},
    working <- opMu,
    accepted <- {p \in Procs : pc[p] = "commit" /\ req[p].ok}

(* renderer.go:185 and 197 and poll.go:74 together: whatever the commands  *)
(* interleave with, one that was superseded never changes the playback     *)
(* state, one the speaker refused does not either, and a poll never        *)
(* meddles with the one under way.                                         *)
LatestCommandWins == Promise!Spec
=============================================================================
