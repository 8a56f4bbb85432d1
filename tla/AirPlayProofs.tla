---------------------------- MODULE AirPlayProofs ----------------------------
(***************************************************************************)
(* Proofs about AirPlay, for every number of sessions, slots and volumes.  *)
(* IInv says of each session what its own fields, the slot and r.airplay   *)
(* have to do with one another (Good).  Nearly every action changes one    *)
(* session and neither the slot nor r.airplay: OneMovesAlone.              *)
(***************************************************************************)
EXTENDS AirPlay, TLAPS

ScalarsOK ==
    /\ server \in ServerPCs /\ active \in Sessions \cup {NoSession}
    /\ air \in Sessions \cup {NoSession} /\ newest \in Commands

(* A step of one session keeps the invariant if it does so for the session *)
(* and takes neither the slot nor r.airplay to another's harm.             *)
LEMMA OneMoves ==
    ASSUME IInv, NEW s \in Sessions, NEW q, Set(s, q), ScalarsOK',
           Good(s, q, active', air'),
           \A t \in Sessions \ {s} : Good(t, session[t], active', air')
    PROVE  IInv'
BY DEF IInv, TypeOK, Set, ScalarsOK, Good

LEMMA OneMovesAlone ==
    ASSUME IInv, NEW s \in Sessions, NEW q, Set(s, q),
           UNCHANGED <<server, active, renderer>>,
           q \in SessionRecords, OrderOf(q), SlotOf(q, active = s),
           VolumeOf(q), AirOf(q, air = s)
    PROVE  IInv'
BY OneMoves DEF IInv, TypeOK, ScalarsOK, renderer, Good

LEMMA Initially == Init => IInv
BY NamesAssumption
DEF Init, IInv, TypeOK, Good, OrderOf, SlotOf, VolumeOf, AirOf, NewSession, SessionRecords,
    ServerPCs, ReaderPCs, ReadyPCs, SpeakerPCs, Commands, Released, Leaving

(* The reader's requests, Setup and SET_PARAMETER apart.                    *)
LEMMA RequestKeeps ==
    ASSUME IInv, NEW s \in Sessions,
           Accept(s) \/ Announce(s) \/ Record(s) \/ VolumePush(s) \/ Leave(s)
    PROVE  IInv'
<1>0. session[s] \in SessionRecords /\ Good(s, session[s], active, air)
  BY DEF IInv, Good
<1>1. ASSUME Accept(s) PROVE IInv'
  <2> DEFINE q == [session[s] EXCEPT !.reader = "read", !.speaker = "wait", !.ctx = (server = "open")]
  <2>1. q \in SessionRecords
    BY <1>0, <1>1 DEF Accept, SessionRecords, ReaderPCs, ReadyPCs, SpeakerPCs
  <2>2. OrderOf(q) /\ SlotOf(q, active = s) /\ VolumeOf(q) /\ AirOf(q, air = s)
    BY <1>0, <1>1 DEF Accept, Good, OrderOf, SlotOf, VolumeOf, AirOf, SessionRecords,
       Leaving, Released, SpeakerPCs
  <2> QED
    BY <1>1, <2>1, <2>2, OneMovesAlone DEF Accept
<1>2. ASSUME Announce(s) PROVE IInv'
  <2> DEFINE q == [session[s] EXCEPT !.announced = TRUE]
  <2>1. q \in SessionRecords
    BY <1>0, <1>2 DEF Announce, SessionRecords, ReaderPCs, ReadyPCs, SpeakerPCs
  <2>2. OrderOf(q) /\ SlotOf(q, active = s) /\ VolumeOf(q) /\ AirOf(q, air = s)
    BY <1>0, <1>2 DEF Announce, Good, OrderOf, SlotOf, VolumeOf, AirOf, SessionRecords,
       Leaving, Released, SpeakerPCs
  <2> QED
    BY <1>2, <2>1, <2>2, OneMovesAlone DEF Announce
<1>3. ASSUME Record(s) PROVE IInv'
  <2> DEFINE q == [session[s] EXCEPT !.recorded = TRUE, !.ready = "wait"]
  <2>1. q \in SessionRecords
    BY <1>0, <1>3 DEF Record, SessionRecords, ReaderPCs, ReadyPCs, SpeakerPCs
  <2>2. OrderOf(q) /\ SlotOf(q, active = s) /\ VolumeOf(q) /\ AirOf(q, air = s)
    BY <1>0, <1>3 DEF Record, Good, OrderOf, SlotOf, VolumeOf, AirOf, SessionRecords,
       Leaving, Released, SpeakerPCs
  <2> QED
    BY <1>3, <2>1, <2>2, OneMovesAlone DEF Record
<1>4. ASSUME VolumePush(s) PROVE IInv'
  <2> DEFINE q == [session[s] EXCEPT !.reader = "read", !.volume = session[s].asked]
  <2>1. q \in SessionRecords
    BY <1>0, <1>4 DEF VolumePush, SessionRecords, ReaderPCs, ReadyPCs, SpeakerPCs
  <2>2. OrderOf(q) /\ SlotOf(q, active = s) /\ VolumeOf(q) /\ AirOf(q, air = s)
    BY <1>0, <1>4 DEF VolumePush, Good, OrderOf, SlotOf, VolumeOf, AirOf, SessionRecords,
       Leaving, Released, SpeakerPCs
  <2> QED
    BY <1>4, <2>1, <2>2, OneMovesAlone DEF VolumePush
<1>5. ASSUME Leave(s) PROVE IInv'
  <2> DEFINE q == [session[s] EXCEPT !.reader = "wait", !.ctx = FALSE]
  <2>1. q \in SessionRecords
    BY <1>0, <1>5 DEF Leave, SessionRecords, ReaderPCs, ReadyPCs, SpeakerPCs
  <2>2. OrderOf(q) /\ SlotOf(q, active = s) /\ VolumeOf(q) /\ AirOf(q, air = s)
    BY <1>0, <1>5 DEF Leave, Good, OrderOf, SlotOf, VolumeOf, AirOf, SessionRecords,
       Leaving, Released, SpeakerPCs
  <2> QED
    BY <1>5, <2>1, <2>2, OneMovesAlone DEF Leave
<1> QED
  BY <1>1, <1>2, <1>3, <1>4, <1>5

LEMMA VolumeDrainKeeps ==
    ASSUME IInv, NEW s \in Sessions, VolumeDrain(s)
    PROVE  IInv'
<1>0. session[s] \in SessionRecords /\ Good(s, session[s], active, air)
  BY DEF IInv, Good
<1>1. PICK v \in Volumes : Set(s, [session[s] EXCEPT !.reader = "push", !.asked = v,
                                                     !.volume = NoVolume])
  BY DEF VolumeDrain, Drained
<1> DEFINE q == [session[s] EXCEPT !.reader = "push", !.asked = v, !.volume = NoVolume]
<1>2. q \in SessionRecords
  BY <1>0 DEF SessionRecords, ReaderPCs
<1>3. OrderOf(q) /\ SlotOf(q, active = s) /\ VolumeOf(q) /\ AirOf(q, air = s)
  BY <1>0, NamesAssumption
  DEF VolumeDrain, Good, OrderOf, SlotOf, VolumeOf, AirOf, SessionRecords, Leaving,
      Released, SpeakerPCs
<1> QED
  BY <1>1, <1>2, <1>3, OneMovesAlone DEF VolumeDrain

(* Setup takes the slot only when nobody else has it.                      *)
LEMMA SetupKeeps ==
    ASSUME IInv, NEW s \in Sessions, Setup(s)
    PROVE  IInv'
<1>0. session[s] \in SessionRecords /\ Good(s, session[s], active, air)
  BY DEF IInv, Good
<1>1. PICK decoder \in BOOLEAN, audio \in BOOLEAN :
        Set(s, [session[s] EXCEPT !.live = "open", !.decoder = decoder, !.audio = audio])
  BY DEF Setup
<1> DEFINE q == [session[s] EXCEPT !.live = "open", !.decoder = decoder, !.audio = audio]
<1>2. q \in SessionRecords
  BY <1>0 DEF SessionRecords
<1>3. OrderOf(q) /\ SlotOf(q, TRUE) /\ VolumeOf(q) /\ AirOf(q, air = s)
  BY <1>0
  DEF Setup, Good, OrderOf, SlotOf, VolumeOf, AirOf, SessionRecords, Leaving, Released,
      SpeakerPCs
<1>4. active' = s /\ air' = air /\ ScalarsOK'
  BY DEF Setup, renderer, IInv, TypeOK, ScalarsOK
<1>5. \A t \in Sessions \ {s} : Good(t, session[t], active', air')
  <2> TAKE t \in Sessions \ {s}
  <2>1. active # t /\ Good(t, session[t], active, air)
    BY NamesAssumption DEF Setup, SlotFree, IInv
  <2> QED
    BY <1>4, <2>1 DEF Good
<1> QED
  BY <1>1, <1>2, <1>3, <1>4, <1>5, OneMoves DEF Good

(* The cleanup, until it releases the slot, and EndAirPlay's look.         *)
LEMMA QuietCleanupKeeps ==
    ASSUME IInv, NEW s \in Sessions,
           CleanupWait(s) \/ CleanupClose(s) \/ EndRead(s)
    PROVE  IInv'
<1>0. session[s] \in SessionRecords /\ Good(s, session[s], active, air)
  BY DEF IInv, Good
<1>1. ASSUME CleanupWait(s) PROVE IInv'
  <2> DEFINE q == [session[s] EXCEPT !.reader = "close"]
  <2>1. q \in SessionRecords
    BY <1>0, <1>1 DEF CleanupWait, GoroutinesDone, SessionRecords, ReaderPCs, ReadyPCs, SpeakerPCs
  <2>2. OrderOf(q) /\ SlotOf(q, active = s) /\ VolumeOf(q) /\ AirOf(q, air = s)
    BY <1>0, <1>1 DEF CleanupWait, GoroutinesDone, Good, OrderOf, SlotOf, VolumeOf, AirOf, SessionRecords,
       Leaving, Released, SpeakerPCs
  <2> QED
    BY <1>1, <2>1, <2>2, OneMovesAlone DEF CleanupWait, GoroutinesDone
<1>2. ASSUME CleanupClose(s) PROVE IInv'
  <2> DEFINE q == [session[s] EXCEPT !.reader = "release", !.live = LiveClosed(s)]
  <2>1. q \in SessionRecords
    BY <1>0, <1>2 DEF CleanupClose, LiveClosed, SessionRecords, ReaderPCs, ReadyPCs, SpeakerPCs
  <2>2. OrderOf(q) /\ SlotOf(q, active = s) /\ VolumeOf(q) /\ AirOf(q, air = s)
    BY <1>0, <1>2 DEF CleanupClose, LiveClosed, Good, OrderOf, SlotOf, VolumeOf, AirOf, SessionRecords,
       Leaving, Released, SpeakerPCs
  <2> QED
    BY <1>2, <2>1, <2>2, OneMovesAlone DEF CleanupClose, LiveClosed
<1>3. ASSUME EndRead(s) PROVE IInv'
  <2> DEFINE q == [session[s] EXCEPT !.reader = IF air = NoSession THEN "done" ELSE "endStop"]
  <2>1. q \in SessionRecords
    BY NamesAssumption, <1>0, <1>3 DEF EndRead, SessionRecords, ReaderPCs, ReadyPCs, SpeakerPCs
  <2>2. OrderOf(q) /\ SlotOf(q, active = s) /\ VolumeOf(q) /\ AirOf(q, air = s)
    BY NamesAssumption, <1>0, <1>3 DEF EndRead, Good, OrderOf, SlotOf, VolumeOf, AirOf, SessionRecords,
       Leaving, Released, SpeakerPCs
  <2> QED
    BY <1>3, <2>1, <2>2, OneMovesAlone DEF EndRead
<1> QED
  BY <1>1, <1>2, <1>3

LEMMA CleanupReleaseKeeps ==
    ASSUME IInv, NEW s \in Sessions, CleanupRelease(s)
    PROVE  IInv'
<1>0. session[s] \in SessionRecords /\ Good(s, session[s], active, air)
  BY DEF IInv, Good
<1> DEFINE mine == active = s /\ session[s].recorded
           q == [session[s] EXCEPT !.reader = IF mine THEN "endRead" ELSE "done"]
<1>1. session[s].recorded => mine
  BY <1>0 DEF CleanupRelease, Good, OrderOf, SlotOf, Released
<1>2. q \in SessionRecords
  BY <1>0 DEF SessionRecords, ReaderPCs
<1>3. OrderOf(q) /\ SlotOf(q, FALSE) /\ VolumeOf(q) /\ AirOf(q, air = s)
  BY <1>0, <1>1
  DEF CleanupRelease, Good, OrderOf, SlotOf, VolumeOf, AirOf, SessionRecords, Leaving,
      Released, SpeakerPCs
<1>4. active' # s /\ air' = air /\ ScalarsOK'
  BY NamesAssumption DEF CleanupRelease, FreedSlot, renderer, IInv, TypeOK, ScalarsOK
<1>5. \A t \in Sessions \ {s} : Good(t, session[t], active', air')
  <2>1. \A t \in Sessions \ {s} : (active' = t) = (active = t)
    BY NamesAssumption DEF CleanupRelease, FreedSlot
  <2> QED
    BY <1>4, <2>1 DEF IInv, Good
<1> QED
  BY <1>2, <1>3, <1>4, <1>5, OneMoves DEF CleanupRelease, Good

LEMMA EndStopKeeps ==
    ASSUME IInv, NEW s \in Sessions, EndStop(s)
    PROVE  IInv'
<1>0. session[s] \in SessionRecords /\ Good(s, session[s], active, air)
  BY DEF IInv, Good
<1> DEFINE q == [session[s] EXCEPT !.reader = "ending"]
<1>1. q \in SessionRecords
  BY <1>0 DEF SessionRecords, ReaderPCs
<1>2. OrderOf(q) /\ SlotOf(q, active = s) /\ VolumeOf(q) /\ AirOf(q, air = s)
  BY <1>0
  DEF EndStop, Good, OrderOf, SlotOf, VolumeOf, AirOf, SessionRecords, Leaving, Released,
      SpeakerPCs
<1>3. active' = active /\ air' = air /\ ScalarsOK'
  BY DEF EndStop, IInv, TypeOK, ScalarsOK, Commands
<1> QED
  BY <1>1, <1>2, <1>3, OneMoves DEF EndStop, IInv, Good

(* Whoever r.airplay was set for, a stop that counts clears it.            *)
LEMMA EndAnswerKeeps ==
    ASSUME IInv, NEW s \in Sessions, EndAnswer(s)
    PROVE  IInv'
<1>0. session[s] \in SessionRecords /\ Good(s, session[s], active, air)
  BY DEF IInv, Good
<1>1. CASE air' = NoSession /\ Set(s, [session[s] EXCEPT !.reader = "done"])
  <2> DEFINE q == [session[s] EXCEPT !.reader = "done"]
  <2>1. q \in SessionRecords
    BY <1>0 DEF SessionRecords, ReaderPCs
  <2>2. OrderOf(q) /\ SlotOf(q, active = s) /\ VolumeOf(q) /\ AirOf(q, FALSE)
    BY <1>0
    DEF EndAnswer, Good, OrderOf, SlotOf, VolumeOf, AirOf, SessionRecords, Leaving,
        Released, SpeakerPCs
  <2>3. active' = active /\ ScalarsOK'
    BY <1>1 DEF EndAnswer, IInv, TypeOK, ScalarsOK
  <2>4. \A t \in Sessions : air' # t
    BY <1>1, NamesAssumption
  <2> QED
    BY <1>1, <2>1, <2>2, <2>3, <2>4, OneMoves DEF IInv, Good, AirOf
<1>2. CASE air' = air /\ Set(s, [session[s] EXCEPT !.reader = "done", !.failed = TRUE])
  <2> DEFINE q == [session[s] EXCEPT !.reader = "done", !.failed = TRUE]
  <2>1. q \in SessionRecords
    BY <1>0 DEF SessionRecords, ReaderPCs
  <2>2. OrderOf(q) /\ SlotOf(q, active = s) /\ VolumeOf(q) /\ AirOf(q, air = s)
    BY <1>0
    DEF EndAnswer, Good, OrderOf, SlotOf, VolumeOf, AirOf, SessionRecords, Leaving,
        Released, SpeakerPCs
  <2> QED
    BY <1>2, <2>1, <2>2, OneMovesAlone DEF EndAnswer, renderer
<1> QED
  BY <1>1, <1>2 DEF EndAnswer

(* Audio and the goroutine that waits for it.                              *)
LEMMA AudioKeeps ==
    ASSUME IInv, NEW s \in Sessions,
           Enough(s) \/ AudioEnds(s) \/ ReadyWaits(s) \/ ReadySends(s)
    PROVE  IInv'
<1>0. session[s] \in SessionRecords /\ Good(s, session[s], active, air)
  BY DEF IInv, Good
<1>1. ASSUME Enough(s) PROVE IInv'
  <2> DEFINE q == [session[s] EXCEPT !.enough = TRUE]
  <2>1. q \in SessionRecords
    BY <1>0, <1>1 DEF Enough, SessionRecords, ReaderPCs, ReadyPCs, SpeakerPCs
  <2>2. OrderOf(q) /\ SlotOf(q, active = s) /\ VolumeOf(q) /\ AirOf(q, air = s)
    BY <1>0, <1>1 DEF Enough, Good, OrderOf, SlotOf, VolumeOf, AirOf, SessionRecords,
       Leaving, Released, SpeakerPCs
  <2> QED
    BY <1>1, <2>1, <2>2, OneMovesAlone DEF Enough
<1>2. ASSUME AudioEnds(s) PROVE IInv'
  <2> DEFINE q == [session[s] EXCEPT !.audio = FALSE, !.ctx = FALSE]
  <2>1. q \in SessionRecords
    BY <1>0, <1>2 DEF AudioEnds, SessionRecords, ReaderPCs, ReadyPCs, SpeakerPCs
  <2>2. OrderOf(q) /\ SlotOf(q, active = s) /\ VolumeOf(q) /\ AirOf(q, air = s)
    BY <1>0, <1>2 DEF AudioEnds, Good, OrderOf, SlotOf, VolumeOf, AirOf, SessionRecords,
       Leaving, Released, SpeakerPCs
  <2> QED
    BY <1>2, <2>1, <2>2, OneMovesAlone DEF AudioEnds
<1>3. ASSUME ReadyWaits(s) PROVE IInv'
  <2>1. CASE Set(s, [session[s] EXCEPT !.ready = "send"])
    <3> DEFINE q == [session[s] EXCEPT !.ready = "send"]
    <3>1. q \in SessionRecords
      BY <1>0, <1>3, <2>1 DEF ReadyWaits, TimerOrDone, SessionRecords, ReaderPCs, ReadyPCs, SpeakerPCs
    <3>2. OrderOf(q) /\ SlotOf(q, active = s) /\ VolumeOf(q) /\ AirOf(q, air = s)
      BY <1>0, <1>3, <2>1 DEF ReadyWaits, TimerOrDone, Good, OrderOf, SlotOf, VolumeOf, AirOf, SessionRecords,
       Leaving, Released, SpeakerPCs
    <3> QED
      BY <1>3, <2>1, <3>1, <3>2, OneMovesAlone DEF ReadyWaits, TimerOrDone
  <2>2. CASE Set(s, [session[s] EXCEPT !.ready = "done", !.ctx = FALSE])
    <3> DEFINE q == [session[s] EXCEPT !.ready = "done", !.ctx = FALSE]
    <3>1. q \in SessionRecords
      BY <1>0, <1>3, <2>2 DEF ReadyWaits, TimerOrDone, SessionRecords, ReaderPCs, ReadyPCs, SpeakerPCs
    <3>2. OrderOf(q) /\ SlotOf(q, active = s) /\ VolumeOf(q) /\ AirOf(q, air = s)
      BY <1>0, <1>3, <2>2 DEF ReadyWaits, TimerOrDone, Good, OrderOf, SlotOf, VolumeOf, AirOf, SessionRecords,
       Leaving, Released, SpeakerPCs
    <3> QED
      BY <1>3, <2>2, <3>1, <3>2, OneMovesAlone DEF ReadyWaits, TimerOrDone
  <2> QED
    BY <1>3, <2>1, <2>2 DEF ReadyWaits, TimerOrDone
<1>4. ASSUME ReadySends(s) PROVE IInv'
  <2>1. CASE Set(s, [session[s] EXCEPT !.ready = "done", !.play = TRUE])
    <3> DEFINE q == [session[s] EXCEPT !.ready = "done", !.play = TRUE]
    <3>1. q \in SessionRecords
      BY <1>0, <1>4, <2>1 DEF ReadySends, SessionRecords, ReaderPCs, ReadyPCs, SpeakerPCs
    <3>2. OrderOf(q) /\ SlotOf(q, active = s) /\ VolumeOf(q) /\ AirOf(q, air = s)
      BY <1>0, <1>4, <2>1 DEF ReadySends, Good, OrderOf, SlotOf, VolumeOf, AirOf, SessionRecords,
       Leaving, Released, SpeakerPCs
    <3> QED
      BY <1>4, <2>1, <3>1, <3>2, OneMovesAlone DEF ReadySends
  <2>2. CASE Set(s, [session[s] EXCEPT !.ready = "done"])
    <3> DEFINE q == [session[s] EXCEPT !.ready = "done"]
    <3>1. q \in SessionRecords
      BY <1>0, <1>4, <2>2 DEF ReadySends, SessionRecords, ReaderPCs, ReadyPCs, SpeakerPCs
    <3>2. OrderOf(q) /\ SlotOf(q, active = s) /\ VolumeOf(q) /\ AirOf(q, air = s)
      BY <1>0, <1>4, <2>2 DEF ReadySends, Good, OrderOf, SlotOf, VolumeOf, AirOf, SessionRecords,
       Leaving, Released, SpeakerPCs
    <3> QED
      BY <1>4, <2>2, <3>1, <3>2, OneMovesAlone DEF ReadySends
  <2> QED
    BY <1>4, <2>1, <2>2 DEF ReadySends
<1> QED
  BY <1>1, <1>2, <1>3, <1>4

(* The speaker goroutine, StartAirPlay apart.                              *)
LEMMA SpeakerKeeps ==
    ASSUME IInv, NEW s \in Sessions,
           SpeakerWaits(s) \/ SpeakerFirst(s) \/ SpeakerFirstSent(s) \/ SpeakerLoop(s) \/ SpeakerSent(s)
    PROVE  IInv'
<1>0. session[s] \in SessionRecords /\ Good(s, session[s], active, air)
  BY DEF IInv, Good
<1>1. ASSUME SpeakerWaits(s) PROVE IInv'
  <2>1. CASE Set(s, [session[s] EXCEPT !.speaker = "done"])
    <3> DEFINE q == [session[s] EXCEPT !.speaker = "done"]
    <3>1. q \in SessionRecords
      BY <1>0, <1>1, <2>1 DEF SpeakerWaits, ContextDone, SessionRecords, ReaderPCs, ReadyPCs, SpeakerPCs
    <3>2. OrderOf(q) /\ SlotOf(q, active = s) /\ VolumeOf(q) /\ AirOf(q, air = s)
      BY <1>0, <1>1, <2>1 DEF SpeakerWaits, ContextDone, Good, OrderOf, SlotOf, VolumeOf, AirOf, SessionRecords,
       Leaving, Released, SpeakerPCs
    <3> QED
      BY <1>1, <2>1, <3>1, <3>2, OneMovesAlone DEF SpeakerWaits, ContextDone
  <2>2. CASE session[s].play /\ Set(s, [session[s] EXCEPT !.speaker = "volume", !.play = FALSE])
    <3> DEFINE q == [session[s] EXCEPT !.speaker = "volume", !.play = FALSE]
    <3>1. q \in SessionRecords
      BY <1>0, <1>1, <2>2 DEF SpeakerWaits, ContextDone, SessionRecords, ReaderPCs, ReadyPCs, SpeakerPCs
    <3>2. OrderOf(q) /\ SlotOf(q, active = s) /\ VolumeOf(q) /\ AirOf(q, air = s)
      BY <1>0, <1>1, <2>2 DEF SpeakerWaits, ContextDone, Good, OrderOf, SlotOf, VolumeOf, AirOf, SessionRecords,
       Leaving, Released, SpeakerPCs
    <3> QED
      BY <1>1, <2>2, <3>1, <3>2, OneMovesAlone DEF SpeakerWaits, ContextDone
  <2> QED
    BY <1>1, <2>1, <2>2 DEF SpeakerWaits, ContextDone
<1>2. ASSUME SpeakerFirst(s) PROVE IInv'
  <2>1. CASE Set(s, [session[s] EXCEPT !.speaker = Onwards(s)])
    <3> DEFINE q == [session[s] EXCEPT !.speaker = Onwards(s)]
    <3>1. q \in SessionRecords
      BY <1>0, <1>2, <2>1 DEF SpeakerFirst, Onwards, SessionRecords, ReaderPCs, ReadyPCs, SpeakerPCs
    <3>2. OrderOf(q) /\ SlotOf(q, active = s) /\ VolumeOf(q) /\ AirOf(q, air = s)
      BY <1>0, <1>2, <2>1 DEF SpeakerFirst, Onwards, Good, OrderOf, SlotOf, VolumeOf, AirOf, SessionRecords,
       Leaving, Released, SpeakerPCs
    <3> QED
      BY <1>2, <2>1, <3>1, <3>2, OneMovesAlone DEF SpeakerFirst, Onwards
  <2>2. CASE session[s].volume # NoVolume /\ Set(s, [session[s] EXCEPT !.speaker = "first", !.volume = NoVolume, !.given = session[s].volume])
    <3> DEFINE q == [session[s] EXCEPT !.speaker = "first", !.volume = NoVolume, !.given = session[s].volume]
    <3>1. q \in SessionRecords
      BY <1>0, <1>2, <2>2 DEF SpeakerFirst, Onwards, SessionRecords, ReaderPCs, ReadyPCs, SpeakerPCs
    <3>2. OrderOf(q) /\ SlotOf(q, active = s) /\ VolumeOf(q) /\ AirOf(q, air = s)
      BY <1>0, <1>2, <2>2 DEF SpeakerFirst, Onwards, Good, OrderOf, SlotOf, VolumeOf, AirOf, SessionRecords,
       Leaving, Released, SpeakerPCs
    <3> QED
      BY <1>2, <2>2, <3>1, <3>2, OneMovesAlone DEF SpeakerFirst, Onwards
  <2> QED
    BY <1>2, <2>1, <2>2 DEF SpeakerFirst, Onwards
<1>3. ASSUME SpeakerFirstSent(s) PROVE IInv'
  <2> DEFINE q == [session[s] EXCEPT !.speaker = Onwards(s)]
  <2>1. q \in SessionRecords
    BY <1>0, <1>3 DEF SpeakerFirstSent, Onwards, SessionRecords, ReaderPCs, ReadyPCs, SpeakerPCs
  <2>2. OrderOf(q) /\ SlotOf(q, active = s) /\ VolumeOf(q) /\ AirOf(q, air = s)
    BY <1>0, <1>3 DEF SpeakerFirstSent, Onwards, Good, OrderOf, SlotOf, VolumeOf, AirOf, SessionRecords,
       Leaving, Released, SpeakerPCs
  <2> QED
    BY <1>3, <2>1, <2>2, OneMovesAlone DEF SpeakerFirstSent, Onwards
<1>4. ASSUME SpeakerLoop(s) PROVE IInv'
  <2>1. CASE Set(s, [session[s] EXCEPT !.speaker = "done"])
    <3> DEFINE q == [session[s] EXCEPT !.speaker = "done"]
    <3>1. q \in SessionRecords
      BY <1>0, <1>4, <2>1 DEF SpeakerLoop, SessionRecords, ReaderPCs, ReadyPCs, SpeakerPCs
    <3>2. OrderOf(q) /\ SlotOf(q, active = s) /\ VolumeOf(q) /\ AirOf(q, air = s)
      BY <1>0, <1>4, <2>1 DEF SpeakerLoop, Good, OrderOf, SlotOf, VolumeOf, AirOf, SessionRecords,
       Leaving, Released, SpeakerPCs
    <3> QED
      BY <1>4, <2>1, <3>1, <3>2, OneMovesAlone DEF SpeakerLoop
  <2>2. CASE session[s].volume # NoVolume /\ Set(s, [session[s] EXCEPT !.speaker = "sending", !.volume = NoVolume, !.given = session[s].volume])
    <3> DEFINE q == [session[s] EXCEPT !.speaker = "sending", !.volume = NoVolume, !.given = session[s].volume]
    <3>1. q \in SessionRecords
      BY <1>0, <1>4, <2>2 DEF SpeakerLoop, SessionRecords, ReaderPCs, ReadyPCs, SpeakerPCs
    <3>2. OrderOf(q) /\ SlotOf(q, active = s) /\ VolumeOf(q) /\ AirOf(q, air = s)
      BY <1>0, <1>4, <2>2 DEF SpeakerLoop, Good, OrderOf, SlotOf, VolumeOf, AirOf, SessionRecords,
       Leaving, Released, SpeakerPCs
    <3> QED
      BY <1>4, <2>2, <3>1, <3>2, OneMovesAlone DEF SpeakerLoop
  <2> QED
    BY <1>4, <2>1, <2>2 DEF SpeakerLoop
<1>5. ASSUME SpeakerSent(s) PROVE IInv'
  <2> DEFINE q == [session[s] EXCEPT !.speaker = "loop"]
  <2>1. q \in SessionRecords
    BY <1>0, <1>5 DEF SpeakerSent, SessionRecords, ReaderPCs, ReadyPCs, SpeakerPCs
  <2>2. OrderOf(q) /\ SlotOf(q, active = s) /\ VolumeOf(q) /\ AirOf(q, air = s)
    BY <1>0, <1>5 DEF SpeakerSent, Good, OrderOf, SlotOf, VolumeOf, AirOf, SessionRecords,
       Leaving, Released, SpeakerPCs
  <2> QED
    BY <1>5, <2>1, <2>2, OneMovesAlone DEF SpeakerSent
<1> QED
  BY <1>1, <1>2, <1>3, <1>4, <1>5

LEMMA StartReserveKeeps ==
    ASSUME IInv, NEW s \in Sessions, StartReserve(s)
    PROVE  IInv'
<1>0. session[s] \in SessionRecords /\ Good(s, session[s], active, air)
  BY DEF IInv, Good
<1> DEFINE q == [session[s] EXCEPT !.speaker = "starting"]
<1>1. q \in SessionRecords
  BY <1>0 DEF SessionRecords, SpeakerPCs
<1>2. OrderOf(q) /\ SlotOf(q, active = s) /\ VolumeOf(q) /\ AirOf(q, air = s)
  BY <1>0
  DEF StartReserve, Good, OrderOf, SlotOf, VolumeOf, AirOf, SessionRecords, Leaving,
      Released, SpeakerPCs
<1>3. active' = active /\ air' = air /\ ScalarsOK'
  BY DEF StartReserve, IInv, TypeOK, ScalarsOK, Commands
<1> QED
  BY <1>1, <1>2, <1>3, OneMoves DEF StartReserve, IInv, Good

(* r.airplay is set for a session that has not cleaned up yet: it waits.   *)
LEMMA StartAnswerKeeps ==
    ASSUME IInv, NEW s \in Sessions, StartAnswer(s)
    PROVE  IInv'
<1>0. session[s] \in SessionRecords /\ Good(s, session[s], active, air)
  BY DEF IInv, Good
<1>1. CASE air' = s /\ Set(s, [session[s] EXCEPT !.speaker = "loop"])
  <2> DEFINE q == [session[s] EXCEPT !.speaker = "loop"]
  <2>1. q \in SessionRecords
    BY <1>0 DEF SessionRecords, SpeakerPCs
  <2>2. OrderOf(q) /\ SlotOf(q, active = s) /\ VolumeOf(q) /\ AirOf(q, TRUE)
    BY <1>0
    DEF StartAnswer, Good, OrderOf, SlotOf, VolumeOf, AirOf, SessionRecords, Leaving,
        Released, SpeakerPCs
  <2>3. active' = active /\ ScalarsOK'
    BY <1>1 DEF StartAnswer, IInv, TypeOK, ScalarsOK
  <2> QED
    BY <1>1, <2>1, <2>2, <2>3, OneMoves DEF IInv, Good, AirOf
<1>2. CASE air' = air /\ Set(s, [session[s] EXCEPT !.speaker = "done", !.ctx = FALSE])
  <2> DEFINE q == [session[s] EXCEPT !.speaker = "done", !.ctx = FALSE]
  <2>1. q \in SessionRecords
    BY <1>0 DEF SessionRecords, SpeakerPCs
  <2>2. OrderOf(q) /\ SlotOf(q, active = s) /\ VolumeOf(q) /\ AirOf(q, air = s)
    BY <1>0
    DEF StartAnswer, Good, OrderOf, SlotOf, VolumeOf, AirOf, SessionRecords, Leaving,
        Released, SpeakerPCs
  <2> QED
    BY <1>2, <2>1, <2>2, OneMovesAlone DEF StartAnswer, renderer
<1> QED
  BY <1>1, <1>2 DEF StartAnswer

(* The server and the renderer's other users.                              *)
LEMMA CloseCancelsKeeps ==
    ASSUME IInv, CloseCancels
    PROVE  IInv'
<1>1. \A s \in Sessions : Good(s, [session[s] EXCEPT !.ctx = FALSE], active, air)
  <2> TAKE s \in Sessions
  <2> DEFINE q == [session[s] EXCEPT !.ctx = FALSE]
  <2>0. session[s] \in SessionRecords /\ Good(s, session[s], active, air)
    BY DEF IInv, Good
  <2>1. q \in SessionRecords
    BY <2>0 DEF SessionRecords
  <2>2. OrderOf(q) /\ SlotOf(q, active = s) /\ VolumeOf(q) /\ AirOf(q, air = s)
    BY <2>0
    DEF Good, OrderOf, SlotOf, VolumeOf, AirOf, SessionRecords, Leaving, Released,
        SpeakerPCs
  <2> QED
    BY <2>1, <2>2 DEF Good
<1> QED
  BY <1>1 DEF CloseCancels, Cancelled, renderer, IInv, TypeOK, Good, ServerPCs

LEMMA OthersKeep ==
    ASSUME IInv, CloseListener \/ CloseReturns \/ OtherCommand \/ UNCHANGED vars
    PROVE  IInv'
<1>1. CASE CloseListener
  BY <1>1 DEF CloseListener, renderer, IInv, TypeOK, ServerPCs
<1>2. CASE CloseReturns
  BY <1>2 DEF CloseReturns, renderer, IInv, TypeOK, ServerPCs
<1>3. CASE OtherCommand
  <2>1. TypeOK' /\ active' = active /\ session' = session
    BY <1>3 DEF OtherCommand, IInv, TypeOK, Commands
  <2>2. \A s \in Sessions : air' = s => air = s
    BY <1>3, NamesAssumption DEF OtherCommand
  <2> QED
    BY <2>1, <2>2 DEF IInv, Good, AirOf
<1>4. CASE UNCHANGED vars
  BY <1>4 DEF vars, IInv, TypeOK
<1> QED
  BY <1>1, <1>2, <1>3, <1>4

LEMMA StepKeeps == IInv /\ [Next]_vars => IInv'
<1> SUFFICES ASSUME IInv, [Next]_vars PROVE IInv'
  OBVIOUS
<1>1. ASSUME NEW s \in Sessions, Request(s) \/ Accept(s) \/ VolumePush(s) \/ Leave(s)
      PROVE  IInv'
  BY <1>1, RequestKeeps, SetupKeeps, VolumeDrainKeeps DEF Request
<1>2. ASSUME NEW s \in Sessions, Cleanup(s) PROVE IInv'
  BY <1>2, QuietCleanupKeeps, CleanupReleaseKeeps, EndStopKeeps, EndAnswerKeeps DEF Cleanup
<1>3. ASSUME NEW s \in Sessions, Enough(s) \/ AudioEnds(s) \/ Ready(s) PROVE IInv'
  BY <1>3, AudioKeeps DEF Ready
<1>4. ASSUME NEW s \in Sessions, Speaker(s) PROVE IInv'
  BY <1>4, SpeakerKeeps, StartReserveKeeps, StartAnswerKeeps DEF Speaker
<1> QED
  BY <1>1, <1>2, <1>3, <1>4, CloseCancelsKeeps, OthersKeep DEF Next

(* The inductive invariant holds of every server.                          *)
THEOREM Invariance == Spec => []IInv
BY Initially, StepKeeps, PTL DEF Spec

(* Every variable of the server keeps its type.                            *)
THEOREM TypeCorrect == Spec => []TypeOK
<1>1. IInv => TypeOK
  BY DEF IInv
<1> QED
  BY <1>1, Invariance, PTL

(* server.go, SETUP and the deferred cleanup: one session streams at a time.*)
THEOREM OneAtATime == Spec => []OneStreams
<1>1. IInv => OneStreams
  <2> SUFFICES ASSUME IInv, NEW s \in Sessions,
                      \/ session[s].live = "open"
                      \/ session[s].speaker \in {"starting", "loop", "sending"}
               PROVE  active = s
    BY DEF OneStreams
  <2>1. OrderOf(session[s]) /\ SlotOf(session[s], active = s)
    BY DEF IInv, Good
  <2>2. session[s].live # "none" /\ session[s].reader \notin Released
    BY <2>1 DEF OrderOf, SlotOf, SpeakerPCs, Leaving, Released
  <2> QED
    BY <2>1, <2>2 DEF SlotOf
<1> QED
  BY <1>1, Invariance, PTL

(* server.go, SET_PARAMETER: the send after the drain never blocks.        *)
THEOREM NeverWaits == Spec => []ReaderNeverWaits
<1>1. IInv => ReaderNeverWaits
  BY DEF IInv, Good, VolumeOf, ReaderNeverWaits
<1> QED
  BY <1>1, Invariance, PTL

(* server.go, SET_PARAMETER and speaker: the last volume asked for is the  *)
(* one that was given or waits.                                            *)
THEOREM VolumeKept == Spec => []LatestVolumeIsKept
<1>1. IInv => LatestVolumeIsKept
  BY DEF IInv, Good, VolumeOf, LatestVolumeIsKept
<1> QED
  BY <1>1, Invariance, PTL

(* server.go, the deferred cleanup: a sender that has gone does not leave  *)
(* r.airplay behind.                                                       *)
THEOREM EndIsFinal == Spec => []EndedIsOver
<1>1. IInv => EndedIsOver
  BY DEF IInv, Good, AirOf, EndedIsOver
<1> QED
  BY <1>1, Invariance, PTL

(* server.go, the deferred cleanup: who has gone has given the slot back.  *)
THEOREM SlotReturned == Spec => []SlotIsLiving
<1>1. IInv => SlotIsLiving
  BY DEF IInv, Good, SlotOf, Released, SlotIsLiving, Serving
<1> QED
  BY <1>1, Invariance, PTL
=============================================================================
