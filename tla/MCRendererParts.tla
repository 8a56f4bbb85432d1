-------------------------- MODULE MCRendererParts --------------------------
(***************************************************************************)
(* Two instances of Renderer in one run: a behaviour is of one part.  In   *)
(* "two", two commands of any kind meet the poller.  "casts" is about the  *)
(* address: a stop of an address, a new address from a second source, and  *)
(* a call that casts or starts an alarm, without the poller.  What must    *)
(* happen at last is a question for "two": fairness takes the poller for   *)
(* granted.                                                                *)
(***************************************************************************)
EXTENDS MCRenderer

CONSTANTS
    Stopper,    \* in "casts" it only stops
    Third,      \* in "two" its call comes first and finds nothing to do
    Elsewhere   \* the source "two" does without

VARIABLE part

InTwo ==
    /\ pc'[Third] = "done" /\ (pc[Third] = "new" => UNCHANGED <<fields, locks>>)
    /\ Elsewhere \notin {uri', nextURI'} \cup {req'[p].uri : p \in Procs}

KindsOf(p) ==
    CASE p = Stopper -> {"none", "stop"}
      [] p = Third -> {"none"}
      [] OTHER -> {"none", "play", "alarm"}

InCasts ==
    /\ pc'[Poller] = "tick" /\ nextURI' = NoURI
    /\ \A p \in Procs : req'[p].kind \in KindsOf(p)

PartsInit == Init /\ part \in {"two", "casts"} /\ (part = "casts" => volume = 0)

PartsNext ==
    /\ Next /\ part' = part
    /\ IF part = "two" THEN InTwo ELSE InCasts

PartsSpec == PartsInit /\ [][PartsNext]_<<vars, part>> /\ Fairness /\ StatusAnswers
=============================================================================
