--------------------------- MODULE ManagerProofs ---------------------------
(***************************************************************************)
(* Proofs about ConfigStore and Manager, for any configurations, speakers  *)
(* and faults.                                                             *)
(***************************************************************************)
EXTENDS Manager, TLAPS

(***************************************************************************)
(* The configuration store.                                                *)
(***************************************************************************)

LEMMA StoreInitIInv == StoreInit => StoreIInv
BY DEF StoreInit, StoreIInv

LEMMA StoreNextIInv == StoreIInv /\ [StoreNext]_storeVars => StoreIInv'
<1> SUFFICES ASSUME StoreIInv, [StoreNext]_storeVars PROVE StoreIInv'
  OBVIOUS
<1>1. CASE UpdateBegins
  BY <1>1 DEF UpdateBegins, StoreIInv
<1>2. CASE UpdateWrites
  BY <1>2 DEF UpdateWrites, FileWhileWriting, StoreIInv
<1>3. CASE UpdateFails
  BY <1>3 DEF UpdateFails, StoreIInv
<1>4. CASE UpdateRenames
  BY <1>4 DEF UpdateRenames, StoreIInv
<1>5. CASE UpdateReturns
  BY <1>5 DEF UpdateReturns, StoreIInv
<1>6. CASE StoreRestarts
  BY <1>6 DEF StoreRestarts, StoreIInv
<1>7. CASE UNCHANGED storeVars
  BY <1>7 DEF storeVars, StoreIInv
<1> QED
  BY <1>1, <1>2, <1>3, <1>4, <1>5, <1>6, <1>7 DEF StoreNext

(* An Update, wherever it fails and whenever the process is killed, is     *)
(* done as a whole or not at all, and what it confirmed is not lost.       *)
THEOREM StoreKeeps == StoreSpec => []SavedIsKept
<1>1. StoreIInv => SavedIsKept
  BY DEF StoreIInv, SavedIsKept
<1> QED
  BY StoreInitIInv, StoreNextIInv, <1>1, PTL DEF StoreSpec

(* What the manager and the handlers do to the configuration is what the   *)
(* store does.                                                             *)
LEMMA StoreStep == [Next]_vars => [StoreNext]_storeVars
<1> SUFFICES ASSUME [Next]_vars PROVE [StoreNext]_storeVars
  OBVIOUS
<1>1. CASE HandlerSaves \/ LoginSaves \/ LoginPolled \/ Handler
  BY <1>1 DEF HandlerSaves, LoginSaves, LoginPolled, Handler, UpdateEnds, HandlerWakes, StoreNext
<1>2. CASE ApplyBegins
  BY <1>2 DEF ApplyBegins, storeVars
<1>3. CASE Apply
  BY <1>3 DEF Apply, ApplyHost, ApplyListens, ApplyTool, RemoveEnds, AddEnds, ApplyReceiver,
     ApplyDiscovers, RemoveAir, RemoveRenderer, AddRenderer, AddAir, outside, storeVars
<1>4. CASE Stop
  BY <1>4 DEF Stop, StopReceiver, StopAir, StopRenderers, outside, storeVars
<1>5. CASE CloseBegins \/ Interrupt \/ ReceiverDies
  BY <1>5 DEF CloseBegins, Interrupt, ReceiverDies, outside, storeVars
<1>6. CASE Restart
  BY <1>6 DEF Restart, StoreNext
<1>7. CASE UNCHANGED vars
  BY <1>7 DEF vars, storeVars
<1> QED
  BY <1>1, <1>2, <1>3, <1>4, <1>5, <1>6, <1>7 DEF Next

THEOREM ManagerUsesTheStore == Spec => StoreSpec
<1>1. Init => StoreInit
  BY DEF Init
<1> QED
  BY <1>1, StoreStep, PTL DEF Spec, StoreSpec

(* So it is whatever the manager does meanwhile.                           *)
THEOREM SettingsAreSafe == Spec => []SavedIsKept
BY ManagerUsesTheStore, StoreKeeps, PTL

(***************************************************************************)
(* What settings ask for.                                                  *)
(***************************************************************************)

LEMMA WantedSpeakers == ASSUME NEW s \in Settings PROVE Wanted(s) \subseteq Speakers
BY SettingsAssumption DEF Wanted

LEMMA TargetIsWanted ==
    ASSUME NEW s \in Settings, Target(s) # NoSpeaker
    PROVE  Target(s) \in Wanted(s)
<1>1. s.account /\ Wanted(s) = s.enabled /\ s.enabled # {} /\ s.enabled \subseteq Speakers
  BY SettingsAssumption DEF Target, Wanted
<1>2. CASE s.target = NoSpeaker
  <2>1. PICK d \in s.enabled : \A e \in s.enabled : d <= e
    BY <1>1, SpeakersAssumption
  <2>2. Target(s) = CHOOSE x \in s.enabled : \A e \in s.enabled : x <= e
    BY <1>2 DEF Target
  <2> QED
    BY <1>1, <2>1, <2>2
<1>3. CASE s.target # NoSpeaker
  BY <1>1, <1>3 DEF Target
<1> QED
  BY <1>2, <1>3

(***************************************************************************)
(* The inductive invariant, one action after the other.  Fits is what of   *)
(* IInv is the manager's own.                                              *)
(***************************************************************************)

Fits ==
    /\ AirPlayHasRenderer /\ OneReceiver
    /\ ReceiverFits /\ SpeakersFit /\ StopFits /\ ClosedFits

LEMMA InitFits == Init => TypeOK /\ Fits
<1> SUFFICES ASSUME Init PROVE TypeOK /\ Fits
  OBVIOUS
<1>1. TypeOK
  BY DEF Init, StoreInit, NothingRuns, NoReceiver, TypeOK, PCs, Stopping, Receivers, Tools
<1>2. AirPlayHasRenderer /\ OneReceiver
  BY NobodyAssumption DEF Init, NothingRuns, NoReceiver, AirPlayHasRenderer, OneReceiver
<1>3. ReceiverFits /\ SpeakersFit /\ StopFits /\ ClosedFits
  BY DEF Init, ReceiverFits, SpeakersFit, StopFits, ClosedFits
<1> QED
  BY <1>1, <1>2, <1>3 DEF Fits

(* Steps that leave what the invariant is about alone.                     *)
LEMMA Untouched ==
    ASSUME TypeOK, Fits, UNCHANGED <<manager, closed>>, faults' \in Nat
    PROVE  TypeOK' /\ Fits'
BY DEF manager, services, TypeOK, Fits, AirPlayHasRenderer, OneReceiver, ReceiverFits,
   SpeakersFit, StopFits, ClosedFits, NothingRuns, Stopping

LEMMA BeginFits ==
    ASSUME StoreIInv, TypeOK, Fits, ApplyBegins
    PROVE  TypeOK' /\ Fits'
<1>1. TypeOK'
  BY DEF ApplyBegins, Goes, services, life, StoreIInv, TypeOK, PCs
<1>2. Fits'
  BY DEF ApplyBegins, Refuses, Goes, services, life, Fits, AirPlayHasRenderer, OneReceiver,
     ReceiverFits, SpeakersFit, StopFits, ClosedFits, NoReceiver
<1> QED
  BY <1>1, <1>2

LEMMA HostFits ==
    ASSUME TypeOK, Fits, ApplyHost \/ ApplyListens
    PROVE  TypeOK' /\ Fits'
<1>1. TypeOK'
  BY DEF ApplyHost, ApplyListens, Goes, Stops, Fault, services, outside, TypeOK, PCs, Stopping
<1>2. Fits'
  BY DEF ApplyHost, ApplyListens, Goes, Stops, services, outside, Fits, AirPlayHasRenderer,
     OneReceiver, ReceiverFits, SpeakersFit, StopFits, ClosedFits, Stopping, NoReceiver
<1> QED
  BY <1>1, <1>2

LEMMA ToolFits ==
    ASSUME TypeOK, Fits, ApplyTool
    PROVE  TypeOK' /\ Fits'
<1>1. ap2' = NoReceiver \/ (ap2' = ap2 /\ ap2.target = Target(snap))
  BY DEF ApplyTool, Outdated
<1>2. NoReceiver \in Receivers
  BY DEF NoReceiver, Receivers, Tools
<1>3. TypeOK'
  BY <1>1, <1>2 DEF ApplyTool, Goes, outside, TypeOK, PCs
<1>4. AirPlayHasRenderer' /\ OneReceiver'
  BY <1>1, NobodyAssumption DEF ApplyTool, outside, Fits, AirPlayHasRenderer, OneReceiver, NoReceiver
<1>5. ReceiverFits' /\ SpeakersFit' /\ StopFits' /\ ClosedFits'
  BY <1>1 DEF ApplyTool, Goes, outside, Fits, ReceiverFits, SpeakersFit, StopFits, ClosedFits,
     Stopping, NoReceiver
<1> QED
  BY <1>3, <1>4, <1>5 DEF Fits

LEMMA RemoveAirFits ==
    ASSUME TypeOK, Fits, NEW d \in Speakers, RemoveAir(d)
    PROVE  TypeOK' /\ Fits'
<1>1. air' \in [Speakers -> Tools] /\ \A e \in Speakers : air'[e] # NoTool => air'[e] = air[e]
  BY DEF RemoveAir, TypeOK, Tools
<1>2. TypeOK'
  BY <1>1 DEF RemoveAir, outside, TypeOK
<1>3. AirPlayHasRenderer' /\ OneReceiver'
  BY <1>1 DEF RemoveAir, outside, Fits, AirPlayHasRenderer, OneReceiver, NoReceiver
<1>4. ReceiverFits' /\ SpeakersFit' /\ StopFits' /\ ClosedFits'
  BY DEF RemoveAir, outside, Fits, ReceiverFits, SpeakersFit, StopFits, ClosedFits, Stopping, NoReceiver
<1> QED
  BY <1>2, <1>3, <1>4 DEF Fits

(* The renderer that goes is no longer wanted, and the receiver's is.      *)
LEMMA RemoveRendererFits ==
    ASSUME TypeOK, Fits, NEW d \in Speakers, RemoveRenderer(d)
    PROVE  TypeOK' /\ Fits'
<1>1. TypeOK'
  BY DEF RemoveRenderer, outside, TypeOK
<1>2. ap2 # NoReceiver => ap2.target # d
  <2>1. ap2 # NoReceiver => ap2.target = Target(snap) /\ ap2.target \in renderers
    BY DEF RemoveRenderer, Fits, ReceiverFits, AirPlayHasRenderer
  <2>2. ap2 # NoReceiver => Target(snap) # NoSpeaker
    BY <2>1, NobodyAssumption DEF TypeOK
  <2> QED
    BY <2>1, <2>2, TargetIsWanted DEF RemoveRenderer, Unwanted, TypeOK
<1>3. AirPlayHasRenderer' /\ OneReceiver'
  BY <1>2 DEF RemoveRenderer, AirIsGone, outside, Fits, AirPlayHasRenderer, OneReceiver, NoReceiver
<1>4. ReceiverFits' /\ SpeakersFit' /\ StopFits' /\ ClosedFits'
  BY DEF RemoveRenderer, outside, Fits, ReceiverFits, SpeakersFit, StopFits, ClosedFits, Stopping, NoReceiver
<1> QED
  BY <1>1, <1>3, <1>4 DEF Fits

LEMMA EndsFit ==
    ASSUME TypeOK, Fits, RemoveEnds \/ AddEnds
    PROVE  TypeOK' /\ Fits'
<1>1. TypeOK'
  BY WantedSpeakers DEF RemoveEnds, AddEnds, Goes, outside, services, TypeOK, PCs
<1>2. AirPlayHasRenderer' /\ OneReceiver'
  BY DEF RemoveEnds, AddEnds, outside, services, Fits, AirPlayHasRenderer, OneReceiver, NoReceiver
<1>3. SpeakersFit'
  BY DEF RemoveEnds, AddEnds, Goes, outside, services, Fits, SpeakersFit
<1>4. ReceiverFits' /\ StopFits' /\ ClosedFits'
  BY DEF RemoveEnds, AddEnds, Goes, outside, services, Fits, ReceiverFits, StopFits, ClosedFits,
     Stopping, NoReceiver
<1> QED
  BY <1>1, <1>2, <1>3, <1>4 DEF Fits

LEMMA AddRendererFits ==
    ASSUME TypeOK, Fits, NEW d \in Speakers, AddRenderer(d)
    PROVE  TypeOK' /\ Fits'
<1>1. TypeOK'
  BY DEF AddRenderer, outside, TypeOK
<1>2. AirPlayHasRenderer' /\ OneReceiver'
  BY DEF AddRenderer, outside, Fits, AirPlayHasRenderer, OneReceiver, NoReceiver
<1>3. ReceiverFits' /\ SpeakersFit' /\ StopFits' /\ ClosedFits'
  BY DEF AddRenderer, outside, Fits, ReceiverFits, SpeakersFit, StopFits, ClosedFits, Stopping, NoReceiver
<1> QED
  BY <1>1, <1>2, <1>3 DEF Fits

(* A server that is started is not of the receiver's speaker.              *)
LEMMA AddAirFits ==
    ASSUME TypeOK, Fits, NEW d \in Speakers, AddAir(d)
    PROVE  TypeOK' /\ Fits'
<1>1. /\ air' \in [Speakers -> Tools]
      /\ \A e \in Speakers \ {d} : air'[e] = air[e]
      /\ air'[d] # NoTool => d \in AirWanted(snap)
  BY DEF AddAir, TypeOK, Tools
<1>2. d \in renderers /\ todo' = todo \ {d} /\ pc = "add"
  BY DEF AddAir
<1>3. UNCHANGED <<pc, back, snap, renderers, ap2, closed>>
  BY DEF AddAir, outside
<1>4. TypeOK'
  BY <1>1, <1>2, <1>3 DEF AddAir, Fault, TypeOK
<1>5. AirPlayHasRenderer'
  BY <1>1, <1>2, <1>3 DEF Fits, AirPlayHasRenderer, NoReceiver
<1>6. OneReceiver'
  <2>1. d \in AirWanted(snap) => ap2.target # d
    BY <1>2, NobodyAssumption DEF Fits, ReceiverFits, AirWanted, NoReceiver
  <2> QED
    BY <1>1, <1>3, <2>1 DEF Fits, OneReceiver
<1>7. SpeakersFit'
  BY <1>1, <1>2, <1>3, WantedSpeakers DEF Fits, SpeakersFit, TypeOK, AirWanted, Wanted, Target
<1>8. ReceiverFits' /\ StopFits' /\ ClosedFits'
  BY <1>2, <1>3 DEF Fits, ReceiverFits, StopFits, ClosedFits, Stopping, NoReceiver, Target, Wanted
<1> QED
  BY <1>4, <1>5, <1>6, <1>7, <1>8 DEF Fits

(* The receiver is started for a speaker that has a renderer and no server.*)
LEMMA ReceiverStartFits ==
    ASSUME TypeOK, Fits, ApplyReceiver
    PROVE  TypeOK' /\ Fits'
<1>1. UNCHANGED <<back, snap, todo, renderers, air, closed>> /\ pc' = "discover" /\ pc = "receiver"
  BY DEF ApplyReceiver, Goes, outside
<1>2. faults' \in Nat
  BY DEF ApplyReceiver, Fault, TypeOK
<1>3. \/ ap2' = ap2
      \/ /\ Target(snap) # NoSpeaker
         /\ ap2' = [target |-> Target(snap), tool |-> snap.tool, alive |-> TRUE]
  BY DEF ApplyReceiver, StartsReceiver
<1>4. Target(snap) # NoSpeaker =>
        /\ Target(snap) \in Speakers /\ Target(snap) \in renderers
        /\ Target(snap) \in Wanted(snap) \ todo
        /\ air[Target(snap)] = NoTool
  <2> SUFFICES ASSUME Target(snap) # NoSpeaker
               PROVE  /\ Target(snap) \in Speakers /\ Target(snap) \in renderers
                      /\ Target(snap) \in Wanted(snap) \ todo
                      /\ air[Target(snap)] = NoTool
    OBVIOUS
  <2>1. Target(snap) \in Wanted(snap) /\ Target(snap) \in Speakers
    BY TargetIsWanted, WantedSpeakers DEF TypeOK
  <2>2. todo = {}
    BY <1>1 DEF Fits, SpeakersFit
  <2>3. Target(snap) \notin AirWanted(snap)
    BY DEF AirWanted
  <2> QED
    BY <1>1, <2>1, <2>2, <2>3 DEF Fits, SpeakersFit
<1>5. ap2' \in Receivers
  <2>1. snap.tool \in Tools /\ ap2 \in Receivers
    BY DEF TypeOK, Tools
  <2>2. \A d \in Speakers, t \in Tools : [target |-> d, tool |-> t, alive |-> TRUE] \in Receivers
    BY DEF Receivers
  <2> QED
    BY <1>3, <1>4, <2>1, <2>2
<1>6. TypeOK'
  BY <1>1, <1>2, <1>5 DEF TypeOK, PCs
<1>7. AirPlayHasRenderer' /\ OneReceiver'
  BY <1>1, <1>3, <1>4 DEF Fits, AirPlayHasRenderer, OneReceiver, NoReceiver
<1>8. ReceiverFits' /\ SpeakersFit' /\ StopFits' /\ ClosedFits'
  BY <1>1 DEF Fits, ReceiverFits, SpeakersFit, StopFits, ClosedFits, Stopping
<1> QED
  BY <1>6, <1>7, <1>8 DEF Fits

LEMMA DiscoverFits ==
    ASSUME TypeOK, Fits, ApplyDiscovers
    PROVE  TypeOK' /\ Fits'
<1>1. TypeOK'
  BY DEF ApplyDiscovers, Goes, Fault, outside, TypeOK, PCs
<1>2. Fits'
  BY DEF ApplyDiscovers, Goes, outside, Fits, AirPlayHasRenderer, OneReceiver, ReceiverFits,
     SpeakersFit, StopFits, ClosedFits, Stopping, NoReceiver
<1> QED
  BY <1>1, <1>2

LEMMA StopsFit ==
    ASSUME TypeOK, Fits, Stop
    PROVE  TypeOK' /\ Fits'
<1>0. NoReceiver \in Receivers /\ [d \in Speakers |-> NoTool] \in [Speakers -> Tools]
  BY DEF NoReceiver, Receivers, Tools
<1>1. CASE StopReceiver
  <2>1. TypeOK'
    BY <1>0, <1>1 DEF StopReceiver, Goes, outside, TypeOK, PCs, Stopping
  <2>2. AirPlayHasRenderer' /\ OneReceiver'
    BY <1>1, NobodyAssumption DEF StopReceiver, outside, Fits, AirPlayHasRenderer, OneReceiver, NoReceiver
  <2>3. ReceiverFits' /\ SpeakersFit' /\ StopFits' /\ ClosedFits'
    BY <1>1 DEF StopReceiver, Goes, outside, Fits, ReceiverFits, SpeakersFit, StopFits,
       ClosedFits, Stopping, NoReceiver
  <2> QED
    BY <2>1, <2>2, <2>3 DEF Fits
<1>2. CASE StopAir
  <2>1. TypeOK'
    BY <1>0, <1>2 DEF StopAir, Goes, outside, TypeOK, PCs, Stopping
  <2>2. AirPlayHasRenderer' /\ OneReceiver'
    BY <1>2 DEF StopAir, outside, Fits, AirPlayHasRenderer, OneReceiver, NoReceiver
  <2>3. ReceiverFits' /\ SpeakersFit' /\ StopFits' /\ ClosedFits'
    BY <1>2 DEF StopAir, Goes, outside, Fits, ReceiverFits, SpeakersFit, StopFits,
       ClosedFits, Stopping, NoReceiver
  <2> QED
    BY <2>1, <2>2, <2>3 DEF Fits
<1>3. CASE StopRenderers
  <2>1. TypeOK'
    BY <1>3 DEF StopRenderers, outside, TypeOK, PCs
  <2>2. NothingRuns' /\ ap2' = NoReceiver
    BY <1>3 DEF StopRenderers, Fits, StopFits, NothingRuns, NoReceiver
  <2>3. AirPlayHasRenderer' /\ OneReceiver'
    BY <2>2, NobodyAssumption DEF NothingRuns, AirPlayHasRenderer, OneReceiver, NoReceiver
  <2>4. ReceiverFits' /\ SpeakersFit' /\ StopFits' /\ ClosedFits'
    BY <1>3, <2>2 DEF StopRenderers, outside, TypeOK, Fits, ReceiverFits, SpeakersFit, StopFits, ClosedFits
  <2> QED
    BY <2>1, <2>3, <2>4 DEF Fits
<1> QED
  BY <1>1, <1>2, <1>3 DEF Stop

LEMMA WorldFits ==
    ASSUME StoreIInv, TypeOK, Fits, CloseBegins \/ ReceiverDies \/ Restart
    PROVE  TypeOK' /\ Fits'
<1>1. CASE CloseBegins
  <2>1. TypeOK'
    BY <1>1 DEF CloseBegins, Stops, services, TypeOK, PCs, Stopping
  <2>2. Fits'
    BY <1>1 DEF CloseBegins, Stops, services, Fits, AirPlayHasRenderer, OneReceiver, ReceiverFits,
       SpeakersFit, StopFits, ClosedFits, Stopping, NoReceiver
  <2> QED
    BY <2>1, <2>2
<1>2. CASE ReceiverDies
  <2>1. /\ ap2' = [ap2 EXCEPT !.alive = FALSE] /\ ap2' \in Receivers
        /\ ap2'.target = ap2.target /\ ap2 # NoReceiver
    <3>1. ap2.alive /\ ap2' = [ap2 EXCEPT !.alive = FALSE] /\ ap2 \in Receivers
      BY <1>2 DEF ReceiverDies, TypeOK
    <3>2. \A r \in Receivers : /\ [r EXCEPT !.alive = FALSE] \in Receivers
                               /\ [r EXCEPT !.alive = FALSE].target = r.target
      BY DEF Receivers
    <3>3. ~NoReceiver.alive
      BY DEF NoReceiver
    <3> QED
      BY <3>1, <3>2, <3>3
  <2>2. UNCHANGED <<pc, back, snap, todo, host, renderers, air, discovery, closed>> /\ faults' \in Nat
    BY <1>2 DEF ReceiverDies, Fault, outside, TypeOK
  <2>3. TypeOK'
    BY <2>1, <2>2 DEF TypeOK
  <2>4. AirPlayHasRenderer' /\ OneReceiver'
    BY <2>1, <2>2 DEF Fits, AirPlayHasRenderer, OneReceiver, NoReceiver
  <2>5. ReceiverFits' /\ SpeakersFit' /\ StopFits'
    BY <2>1, <2>2 DEF Fits, ReceiverFits, SpeakersFit, StopFits, NoReceiver, Target, Wanted, AirWanted
  <2>6. ClosedFits'
    BY <2>1, <2>2 DEF Fits, ClosedFits, NothingRuns
  <2> QED
    BY <2>3, <2>4, <2>5, <2>6 DEF Fits
<1>3. CASE Restart
  <2>0. NoReceiver \in Receivers /\ [d \in Speakers |-> NoTool] \in [Speakers -> Tools]
    BY DEF NoReceiver, Receivers, Tools
  <2>1. TypeOK'
    <3>1. faults' = faults + 1 /\ faults \in Nat
      BY <1>3 DEF Restart, Fault, TypeOK
    <3>2. closed' \in BOOLEAN
      BY <1>3, Zenon DEF Restart
    <3>3. snap' \in Settings
      BY <1>3 DEF Restart, StoreIInv
    <3>4. /\ pc' = "free" /\ back' = "free" /\ todo' = {} /\ renderers' = {}
          /\ air' = [d \in Speakers |-> NoTool] /\ ap2' = NoReceiver
      BY <1>3 DEF Restart
    <3> QED
      BY <2>0, <3>1, <3>2, <3>3, <3>4 DEF TypeOK, PCs
  <2>2. AirPlayHasRenderer' /\ OneReceiver'
    BY <1>3, NobodyAssumption DEF Restart, AirPlayHasRenderer, OneReceiver, NoReceiver
  <2>3. ReceiverFits' /\ SpeakersFit' /\ StopFits' /\ ClosedFits'
    BY <1>3 DEF Restart, ReceiverFits, SpeakersFit, StopFits, ClosedFits
  <2> QED
    BY <2>1, <2>2, <2>3 DEF Fits
<1> QED
  BY <1>1, <1>2, <1>3

LEMMA NextIInv == IInv /\ [Next]_vars => IInv'
<1> SUFFICES ASSUME IInv, [Next]_vars PROVE IInv'
  OBVIOUS
<1>0. StoreIInv /\ TypeOK /\ Fits
  BY DEF IInv, Fits
<1>1. StoreIInv'
  BY <1>0, StoreStep, StoreNextIInv
<1>2. TypeOK' /\ Fits'
  <2>1. CASE HandlerSaves \/ LoginSaves \/ LoginPolled \/ Handler \/ Interrupt \/ UNCHANGED vars
    <3>1. UNCHANGED <<manager, closed>> /\ faults' \in Nat
      BY <1>0, <2>1 DEF HandlerSaves, LoginSaves, LoginPolled, Handler, UpdateEnds, HandlerWakes,
         Interrupt, vars, life, manager, TypeOK
    <3> QED
      BY <1>0, <3>1, Untouched
  <2>2. CASE ApplyBegins
    BY <1>0, <2>2, BeginFits
  <2>3. CASE Apply
    BY <1>0, <2>3, HostFits, ToolFits, RemoveAirFits, RemoveRendererFits, EndsFit, AddRendererFits,
       AddAirFits, ReceiverStartFits, DiscoverFits DEF Apply
  <2>4. CASE Stop
    BY <1>0, <2>4, StopsFit
  <2>5. CASE CloseBegins \/ ReceiverDies \/ Restart
    BY <1>0, <2>5, WorldFits
  <2> QED
    BY <2>1, <2>2, <2>3, <2>4, <2>5 DEF Next
<1> QED
  BY <1>1, <1>2 DEF IInv, Fits

THEOREM Invariance == Spec => []IInv
<1>1. Init => IInv
  BY InitFits, StoreInitIInv DEF Init, IInv, Fits
<1> QED
  BY <1>1, NextIInv, PTL DEF Spec

(***************************************************************************)
(* The properties.                                                         *)
(***************************************************************************)

(* No renderer is closed before the AirPlay servers that command it.       *)
THEOREM AirPlayIsServed == Spec => []AirPlayHasRenderer
<1>1. IInv => AirPlayHasRenderer
  BY DEF IInv
<1> QED
  BY Invariance, <1>1, PTL

(* A speaker has its own AirPlay server or the receiver, never both.       *)
THEOREM AnnouncedOnce == Spec => []OneReceiver
<1>1. IInv => OneReceiver
  BY DEF IInv
<1> QED
  BY Invariance, <1>1, PTL

(* After Close nothing runs and nothing is started.                        *)
THEOREM CloseIsFinal == Spec => []ClosedIsEmpty
<1>1. IInv => ClosedIsEmpty
  BY DEF IInv, ClosedFits, ClosedIsEmpty
<1> QED
  BY Invariance, <1>1, PTL
=============================================================================
