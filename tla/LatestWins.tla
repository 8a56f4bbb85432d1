----------------------------- MODULE LatestWins -----------------------------
(***************************************************************************)
(* What a renderer promises to those who call it, without generations,     *)
(* locks or contexts: of the commands under way some are current.  A newer *)
(* command that supersedes makes all others void; a void command changes   *)
(* nothing any more.  A current one changes the playback once, when it     *)
(* alone deals with the speaker and the speaker accepted it.  What is      *)
(* observed at the speaker is taken over only while no current command     *)
(* deals with it.                                                          *)
(***************************************************************************)
CONSTANTS Procs, NoProc

VARIABLES
    playback,   \* what the renderer says is going on
    current,    \* the commands that nothing has superseded
    working,    \* the command that deals with the speaker
    accepted    \* the commands the speaker has carried out

vars == <<playback, current, working, accepted>>

Init == current = {} /\ working = NoProc /\ accepted = {}

(* A command that makes all others void; it may be current itself.         *)
Supersede ==
    /\ current' = {} \/ \E p \in Procs \ {working} : current' = {p}
    /\ UNCHANGED <<working, accepted>>

(* A command that joins the current ones.                                  *)
Join(p) ==
    /\ p # working
    /\ current' = current \cup {p}
    /\ UNCHANGED <<playback, working, accepted>>

Work(p) ==
    /\ p \in current /\ working = NoProc
    /\ working' = p
    /\ accepted' \in {accepted, accepted \cup {p}}
    /\ UNCHANGED <<playback, current>>

Accept(p) ==
    /\ working = p
    /\ accepted' = accepted \cup {p}
    /\ UNCHANGED <<playback, current, working>>

(* The only way a command changes the playback when it ends.               *)
Apply(p) ==
    /\ working = p /\ p \in current \cap accepted
    /\ working' = NoProc /\ current' = current \ {p} /\ accepted' = accepted \ {p}

(* It fails, is void, or has nothing to do.                                *)
Leave(p) ==
    /\ current' = current \ {p} /\ accepted' = accepted \ {p}
    /\ working' = IF working = p THEN NoProc ELSE working
    /\ UNCHANGED playback

Observe == working \notin current /\ UNCHANGED <<current, working, accepted>>

Next ==
    \/ Supersede \/ Observe
    \/ \E p \in Procs : Join(p) \/ Work(p) \/ Accept(p) \/ Apply(p) \/ Leave(p)

Spec == Init /\ [][Next]_vars
=============================================================================
