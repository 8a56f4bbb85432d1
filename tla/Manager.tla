------------------------------- MODULE Manager -------------------------------
(***************************************************************************)
(* The manager (src/internal/server/manager.go): Run waits to be woken and *)
(* applies the settings; Apply brings the services that run into line with *)
(* them, step by step, holding applyMu; Close stops them all, holding it   *)
(* too.  The settings are those of ConfigStore, changed by API handlers,   *)
(* which save first and wake the manager then, and by a login with a QR    *)
(* code, which saves and wakes nobody.                                     *)
(*                                                                         *)
(* Of the settings there is what Apply looks at.  The services are the     *)
(* HTTP listener, a renderer and an AirPlay server for each speaker, one   *)
(* AirPlay 2 receiver (a process of its own) and discovery.                *)
(***************************************************************************)
EXTENDS ConfigStore, Integers

CONSTANTS
    Speakers,       \* numbers, ordered as their ids are
    NoSpeaker, NoHost, NoTool,
    MaxFaults       \* bound: services that do not start or die, crashes

(* A configuration: [host, tool (ffmpeg, as found), airplay, airplay2      *)
(* (BOOLEAN), target (NoSpeaker: any), account (logged in), enabled,       *)
(* recover (AutoRecover)].                                                 *)
ASSUME SpeakersAssumption ==
    /\ Speakers \subseteq Nat
    /\ \A D \in SUBSET Speakers : D # {} => \E d \in D : \A e \in D : d <= e
ASSUME SettingsAssumption == \A s \in Settings : s.enabled \subseteq Speakers
ASSUME FaultsAssumption == MaxFaults \in Nat
ASSUME NobodyAssumption == NoSpeaker \notin Speakers

VARIABLES
    handler,    \* an API handler: "idle", "saving", "saved"; or the QR goroutine: "login"
    wake,       \* m.wake is full
    unwoken,    \* history: a QR login was saved; neither a wake nor Apply has followed
    pc,         \* where the holder of applyMu is; "free"
    back,       \* where stop returns to: "listen" (Apply), "free" (Close)
    snap,       \* Apply's snapshot
    todo,       \* speakers Apply has still to see to
    host,       \* m.host; the listener runs
    tool,       \* m.ffmpeg
    renderers,  \* m.renderers: the speakers that have one
    air,        \* m.air: the ffmpeg of each server, NoTool without one
    ap2,        \* m.ap2
    discovery,  \* the renderers announced; {NoSpeaker}: no discovery
    down,       \* the context is done
    closed,     \* m.closed
    faults      \* bound

services == <<host, tool, renderers, air, ap2, discovery>>
life == <<down, closed, faults>>
vars == <<storeVars, handler, wake, unwoken, pc, back, snap, todo, services, life>>

NoReceiver == [target |-> NoSpeaker, tool |-> NoTool, alive |-> FALSE]
NothingRuns ==
    /\ host = NoHost /\ renderers = {} /\ air = [d \in Speakers |-> NoTool]
    /\ ap2 = NoReceiver /\ discovery = {NoSpeaker}

(***************************************************************************)
(* What settings ask for.                                                  *)
(***************************************************************************)

Wanted(s) == IF s.account THEN s.enabled ELSE {}

(* airPlay2Target: the speaker chosen, or else the first.                  *)
Target(s) ==
    IF ~s.airplay \/ ~s.airplay2 \/ Wanted(s) = {} THEN NoSpeaker
    ELSE IF s.target = NoSpeaker
         THEN CHOOSE d \in s.enabled : \A e \in s.enabled : d <= e
    ELSE IF s.target \in s.enabled THEN s.target ELSE NoSpeaker

AirForAll(s) == IF s.airplay /\ s.tool # NoTool THEN Wanted(s) ELSE {}  \* mutant
AirWanted(s) == IF s.airplay /\ s.tool # NoTool THEN Wanted(s) \ {Target(s)} ELSE {}

Init ==
    /\ StoreInit
    /\ handler = "idle" /\ wake = TRUE /\ unwoken = FALSE /\ pc = "free" /\ back = "free" /\ snap = state
    /\ todo = {}
    /\ NothingRuns /\ tool = NoTool
    /\ down = FALSE /\ closed = FALSE /\ faults = 0

Fault == faults < MaxFaults /\ faults' = faults + 1
Goes(to) == pc' = to /\ UNCHANGED back
Stops(return) == pc' = "stopReceiver" /\ back' = return

(***************************************************************************)
(* API handlers: Update, then Schedule.  The goroutine of a QR session     *)
(* only updates; the manager is woken by the page that next polls the      *)
(* session, if one does.                                                   *)
(***************************************************************************)

manager == <<pc, back, snap, todo, services>>

HandlerSaves ==
    /\ handler = "idle" /\ UpdateBegins
    /\ handler' = "saving"
    /\ UNCHANGED <<wake, unwoken, manager, life>>

LoginSaves ==
    /\ handler = "idle" /\ UpdateBegins /\ copy' = [state EXCEPT !.account = TRUE]
    /\ handler' = "login"
    /\ UNCHANGED <<wake, unwoken, manager, life>>

Unbuffered == wake \/ pc = "free"       \* mutant: m.wake has no buffer
Scheduled == TRUE

HandlerWakes ==
    /\ handler = "saved"
    /\ wake' = Scheduled /\ unwoken' = FALSE /\ handler' = "idle"
    /\ UNCHANGED <<storeVars, manager, life>>

LoginPolled ==
    /\ unwoken
    /\ wake' = Scheduled /\ unwoken' = FALSE
    /\ UNCHANGED <<storeVars, handler, manager, life>>

UpdateEnds ==
    /\ UpdateReturns
    /\ IF handler = "login"
       THEN handler' = "idle" /\ unwoken' = TRUE
       ELSE handler' = "saved" /\ UNCHANGED unwoken

Handler ==
    \/ /\ UpdateWrites \/ UpdateRenames
       /\ UNCHANGED <<handler, wake, unwoken, manager, life>>
    \/ UpdateFails /\ handler' = "idle" /\ UNCHANGED <<wake, unwoken, manager, life>>
    \/ UpdateEnds /\ UNCHANGED <<wake, manager, life>>
    \/ HandlerWakes

(***************************************************************************)
(* Run and Apply.                                                          *)
(***************************************************************************)

outside == <<storeVars, handler, wake, unwoken, down, closed>>

Refuses == closed

(* Run takes a wake, or its 30 s are over and the settings want recovery;  *)
(* Apply takes its snapshot.  A refused Apply changes nothing.             *)
ApplyBegins ==
    /\ pc = "free" /\ update = "free" /\ ~Refuses
    /\ \/ wake /\ wake' = FALSE
       \/ state.recover /\ UNCHANGED wake
    /\ snap' = state /\ unwoken' = FALSE
    /\ Goes("host")
    /\ UNCHANGED <<storeVars, handler, todo, services, life>>

(* No LAN address; another one than before; the same.                      *)
ApplyHost ==
    /\ pc = "host"
    /\ \/ Fault /\ Goes("free")
       \/ host # snap.host /\ Stops("listen") /\ UNCHANGED faults
       \/ host = snap.host /\ Goes("tool") /\ UNCHANGED faults
    /\ UNCHANGED <<outside, snap, todo, services>>

ApplyListens ==
    /\ pc = "listen"
    /\ \/ host' = snap.host /\ Goes("tool") /\ UNCHANGED faults
       \/ Fault /\ Goes("free") /\ UNCHANGED host
    /\ UNCHANGED <<outside, snap, todo, tool, renderers, air, ap2, discovery>>

(* m.ap2Key is made of what the receiver was started with.                 *)
Outdated ==
    \/ ap2.target # Target(snap) \/ ap2.tool # snap.tool
    \/ ~ap2.alive

ApplyTool ==
    /\ pc = "tool"
    /\ tool' = snap.tool
    /\ ap2' = IF Outdated THEN NoReceiver ELSE ap2
    /\ Goes("remove")
    /\ UNCHANGED <<outside, faults, snap, todo, host, renderers, air, discovery>>

Unwanted == renderers \ Wanted(snap)

RemoveAir(d) ==
    /\ pc = "remove" /\ d \in Unwanted /\ air[d] # NoTool
    /\ air' = [air EXCEPT ![d] = NoTool]
    /\ UNCHANGED <<outside, faults, pc, back, snap, todo, host, tool, renderers, ap2, discovery>>

AirStays(d) == TRUE                     \* mutant: the renderer first
AirIsGone(d) == air[d] = NoTool

RemoveRenderer(d) ==
    /\ pc = "remove" /\ d \in Unwanted /\ AirIsGone(d)
    /\ renderers' = renderers \ {d}
    /\ UNCHANGED <<outside, faults, pc, back, snap, todo, host, tool, air, ap2, discovery>>

RemoveEnds ==
    /\ pc = "remove" /\ Unwanted = {}
    /\ todo' = Wanted(snap)
    /\ Goes("add")
    /\ UNCHANGED <<outside, faults, snap, services>>

AddRenderer(d) ==
    /\ pc = "add" /\ d \in todo \ renderers
    /\ renderers' = renderers \cup {d}
    /\ UNCHANGED <<outside, faults, pc, back, snap, todo, host, tool, air, ap2, discovery>>

(* A server that is there keeps the ffmpeg it was started with.  One that  *)
(* does not start is an error of its speaker; Apply goes on.               *)
AddAir(d) ==
    /\ pc = "add" /\ d \in todo \cap renderers
    /\ todo' = todo \ {d}
    /\ \/ /\ air' = [air EXCEPT ![d] =
               IF d \notin AirWanted(snap) THEN NoTool
               ELSE IF @ = NoTool THEN snap.tool ELSE @]
          /\ UNCHANGED faults
       \/ d \in AirWanted(snap) /\ air[d] = NoTool /\ Fault /\ UNCHANGED air
    /\ UNCHANGED <<outside, pc, back, snap, host, tool, renderers, ap2, discovery>>

AddEnds ==
    /\ pc = "add" /\ todo = {}
    /\ Goes("receiver")
    /\ UNCHANGED <<outside, faults, snap, todo, services>>

(* A receiver needs ffmpeg.                                                *)
StartsReceiver == Target(snap) # NoSpeaker /\ ap2 = NoReceiver /\ snap.tool # NoTool

ApplyReceiver ==
    /\ pc = "receiver"
    /\ \/ /\ StartsReceiver
          /\ ap2' = [target |-> Target(snap), tool |-> snap.tool, alive |-> TRUE]
          /\ UNCHANGED faults
       \/ StartsReceiver /\ Fault /\ UNCHANGED ap2
       \/ ~StartsReceiver /\ UNCHANGED <<ap2, faults>>
    /\ Goes("discover")
    /\ UNCHANGED <<outside, snap, todo, host, tool, renderers, air, discovery>>

ApplyDiscovers ==
    /\ pc = "discover"
    /\ \/ discovery' = renderers /\ UNCHANGED faults
       \/ discovery = {NoSpeaker} /\ Fault /\ UNCHANGED discovery
    /\ Goes("free")
    /\ UNCHANGED <<outside, snap, todo, host, tool, renderers, air, ap2>>

(***************************************************************************)
(* stop, for Apply and for Close.                                          *)
(***************************************************************************)

StopReceiver ==
    /\ pc = "stopReceiver"
    /\ ap2' = NoReceiver /\ Goes("stopAir")
    /\ UNCHANGED <<outside, faults, snap, todo, host, tool, renderers, air, discovery>>

StopAir ==
    /\ pc = "stopAir"
    /\ air' = [d \in Speakers |-> NoTool] /\ Goes("stopRenderers")
    /\ UNCHANGED <<outside, faults, snap, todo, host, tool, renderers, ap2, discovery>>

(* Discovery and the listener, then the section under m.mu.                *)
StopRenderers ==
    /\ pc = "stopRenderers"
    /\ discovery' = {NoSpeaker} /\ renderers' = {} /\ host' = NoHost
    /\ pc' = back /\ back' = "free"
    /\ UNCHANGED <<outside, faults, snap, todo, tool, air, ap2>>

(* Run and main both call Close when the context is done; the second one   *)
(* finds nothing to stop.                                                  *)
CloseBegins ==
    /\ down /\ ~closed /\ pc = "free"
    /\ closed' = TRUE
    /\ Stops("free")
    /\ UNCHANGED <<storeVars, handler, wake, unwoken, snap, todo, services, down, faults>>

(***************************************************************************)
(* The world.                                                              *)
(***************************************************************************)

Interrupt ==
    /\ ~down
    /\ down' = TRUE
    /\ UNCHANGED <<storeVars, handler, wake, unwoken, manager, closed, faults>>

ReceiverDies ==
    /\ ap2.alive /\ Fault
    /\ ap2' = [ap2 EXCEPT !.alive = FALSE]
    /\ UNCHANGED <<outside, pc, back, snap, todo, host, tool, renderers, air, discovery>>

(* The process is killed and started again.                                *)
Restart ==
    /\ Fault /\ StoreRestarts
    /\ handler' = "idle" /\ wake' = TRUE /\ unwoken' = FALSE /\ pc' = "free" /\ back' = "free"
    /\ snap' = file /\ todo' = {}
    /\ host' = NoHost /\ renderers' = {} /\ air' = [d \in Speakers |-> NoTool]
    /\ ap2' = NoReceiver /\ discovery' = {NoSpeaker} /\ tool' = NoTool
    /\ down' = FALSE /\ closed' = FALSE

Apply ==
    \/ ApplyHost \/ ApplyListens \/ ApplyTool \/ RemoveEnds \/ AddEnds
    \/ ApplyReceiver \/ ApplyDiscovers
    \/ \E d \in Speakers : RemoveAir(d) \/ RemoveRenderer(d) \/ AddRenderer(d) \/ AddAir(d)

Stop == StopReceiver \/ StopAir \/ StopRenderers

Next ==
    \/ HandlerSaves \/ LoginSaves \/ LoginPolled \/ Handler \/ ApplyBegins \/ Apply \/ Stop
    \/ CloseBegins \/ Interrupt \/ ReceiverDies \/ Restart

Spec == Init /\ [][Next]_vars

(* A handler that saves goes on, Apply and stop go on (what they wait for  *)
(* ends in seconds), and the locks that ApplyBegins and CloseBegins take   *)
(* are fair.  No page need ever poll a QR session.                         *)
Fairness ==
    /\ WF_vars(Handler) /\ WF_vars(Apply) /\ WF_vars(Stop)
    /\ SF_vars(ApplyBegins) /\ SF_vars(CloseBegins)

FairSpec == Spec /\ Fairness

(***************************************************************************)
(* Properties.                                                             *)
(***************************************************************************)

(* Who takes AirPlay for a speaker commands the renderer that the manager  *)
(* has for it: no renderer is closed before the servers that use it are.   *)
AirPlayHasRenderer ==
    /\ \A d \in Speakers : air[d] # NoTool => d \in renderers
    /\ ap2 # NoReceiver => ap2.target \in renderers

(* A speaker is announced once: by its own server or by the AirPlay 2      *)
(* receiver, also while the receiver moves from one to another.            *)
OneReceiver == \A d \in Speakers : air[d] # NoTool => ap2.target # d

(* After Close nothing runs, and nothing is started any more.              *)
ClosedIsEmpty == closed /\ pc = "free" => NothingRuns

Applied(s) ==
    /\ host = s.host /\ tool = s.tool /\ renderers = Wanted(s) /\ discovery = renderers
    /\ {d \in Speakers : air[d] # NoTool} = AirWanted(s)
    /\ IF Target(s) # NoSpeaker /\ s.tool # NoTool
       THEN ap2.alive /\ ap2.target = Target(s)
       ELSE ap2 = NoReceiver

(* "Saved, services will be updated in the background" (api.go:443): when  *)
(* the settings stay what they are, the services come to be what they ask  *)
(* for, provided AutoRecover is set, or nothing failed and no QR login     *)
(* remains that no page has asked for.                                     *)
SettingsAreApplied ==
    \A s \in Settings :
        <>[](state = s /\ ~down /\ (s.recover \/ (faults = 0 /\ ~unwoken)))
        => <>[]Applied(s)

(* SettingsView.vue:19 tells which ffmpeg is in use, the one included or   *)
(* another: once the settings have been applied, the AirPlay servers use   *)
(* the one chosen.                                                         *)
AirUsesTheTool ==
    pc = "free" /\ snap = state /\ ~wake /\ handler = "idle"
    => \A d \in Speakers : air[d] \in {NoTool, tool}

(***************************************************************************)
(* The inductive invariant behind the safety invariants.                   *)
(***************************************************************************)

Stopping == {"stopReceiver", "stopAir", "stopRenderers"}
PCs == {"free", "host", "listen", "tool", "remove", "add", "receiver", "discover"} \cup Stopping
Tools == {s.tool : s \in Settings} \cup {NoTool}
Receivers == [target : Speakers \cup {NoSpeaker}, tool : Tools, alive : BOOLEAN]

(* Every variable of the manager keeps its type.                           *)
TypeOK ==
    /\ pc \in PCs /\ back \in {"free", "listen"}
    /\ snap \in Settings /\ todo \subseteq Speakers
    /\ renderers \subseteq Speakers /\ air \in [Speakers -> Tools] /\ ap2 \in Receivers
    /\ closed \in BOOLEAN /\ faults \in Nat

(* Once Apply has looked at the receiver, it is the one wanted or none.    *)
ReceiverFits ==
    pc \in {"remove", "add", "receiver"} => ap2 = NoReceiver \/ ap2.target = Target(snap)

(* A speaker that Apply is done with has what it should have.              *)
SpeakersFit ==
    /\ pc = "receiver" => todo = {}
    /\ pc \in {"add", "receiver"} =>
         \A d \in Wanted(snap) \ todo :
             d \in renderers /\ (air[d] # NoTool => d \in AirWanted(snap))

(* stop takes away who uses a renderer before it takes the renderers.      *)
StopFits ==
    /\ pc \in {"stopAir", "stopRenderers"} => ap2 = NoReceiver
    /\ pc = "stopRenderers" => air = [d \in Speakers |-> NoTool]

(* After Close the manager stops, and has stopped.                         *)
ClosedFits ==
    closed => /\ back = "free" /\ pc \in {"free"} \cup Stopping
              /\ pc = "free" => NothingRuns

IInv ==
    /\ StoreIInv /\ TypeOK
    /\ AirPlayHasRenderer /\ OneReceiver
    /\ ReceiverFits /\ SpeakersFit /\ StopFits /\ ClosedFits
=============================================================================
