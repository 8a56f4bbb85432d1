------------------------------- MODULE AirPlay -------------------------------
(***************************************************************************)
(* The AirPlay server of one speaker (src/internal/airplay/server.go).     *)
(*                                                                         *)
(* Every connection is a session with goroutines of its own: a reader that *)
(* answers RTSP requests and cleans up, one that waits for the first audio *)
(* (ready), one that commands the speaker (speaker) and one that decodes   *)
(* (audio).  They share the session's context and two channels of one      *)
(* element.  One session at a time has the server's active slot.           *)
(*                                                                         *)
(* Of the renderer there is what a session can tell: the newest command,   *)
(* and r.airplay with the session it was set for; queueing and the cloud   *)
(* are in module Renderer.  Audio is "enough of it came" (4096 bytes).     *)
(***************************************************************************)
EXTENDS FiniteSets, Naturals

CONSTANTS
    Sessions,       \* connections, each with a session of its own
    Slots,          \* connections served at a time (4)
    Sliders,        \* bound: the senders that change the volume
    Volumes,
    NoSession,
    NoVolume        \* an empty channel

ASSUME SlotsAssumption == Slots \in Nat \ {0} /\ IsFiniteSet(Sessions)
ASSUME NamesAssumption == NoSession \notin Sessions /\ NoVolume \notin Volumes
ASSUME SlidersAssumption == Sliders \subseteq Sessions

VARIABLES
    server,         \* how far Close has come
    active,         \* s.active
    session,        \* the sessions
    air,            \* the session r.airplay was set for
    newest          \* the command that last reserved the renderer

vars == <<server, active, session, air, newest>>

ServerPCs == {"open", "cancelled", "waiting", "closed"}
ReaderPCs == {"new", "read", "push", "wait", "close", "release",
              "endRead", "endStop", "ending", "done"}
ReadyPCs == {"none", "wait", "send", "done"}
SpeakerPCs == {"none", "wait", "volume", "first", "reserve", "starting", "loop",
               "sending", "done"}
Commands == (Sessions \cup {NoSession}) \X {"start", "end", "other"}

SessionRecords ==
    [reader : ReaderPCs, ready : ReadyPCs, speaker : SpeakerPCs, audio : BOOLEAN,
     ctx : BOOLEAN,                         \* not cancelled
     announced : BOOLEAN, decoder : BOOLEAN, recorded : BOOLEAN,
     live : {"none", "open", "closed"},     \* open and published, until closed
     enough : BOOLEAN,                      \* live.Size() >= 4096
     play : BOOLEAN,                        \* channel ss.play is full
     volume : Volumes \cup {NoVolume},      \* channel ss.volume
     asked : Volumes \cup {NoVolume},       \* the last volume the sender asked for
     given : Volumes \cup {NoVolume},       \* the last one the speaker was given
     failed : BOOLEAN]                      \* history: EndAirPlay did not stop it

NewSession ==
    [reader |-> "new", ready |-> "none", speaker |-> "none", audio |-> FALSE,
     ctx |-> FALSE, announced |-> FALSE, decoder |-> FALSE, recorded |-> FALSE,
     live |-> "none", enough |-> FALSE, play |-> FALSE, volume |-> NoVolume,
     asked |-> NoVolume, given |-> NoVolume, failed |-> FALSE]

Init ==
    /\ server = "open" /\ active = NoSession
    /\ session = [s \in Sessions |-> NewSession]
    /\ air = NoSession /\ newest = <<NoSession, "other">>

Set(s, record) == session' = [session EXCEPT ![s] = record]
renderer == <<air, newest>>

(***************************************************************************)
(* The reader: connections and RTSP requests.                              *)
(***************************************************************************)

Serving == {s \in Sessions : session[s].reader \notin {"new", "done"}}

(* Between s.cancel() and listener.Close() a connection gets a context     *)
(* that is done already.                                                   *)
Accept(s) ==
    /\ server \in {"open", "cancelled"} /\ session[s].reader = "new"
    /\ Cardinality(Serving) < Slots
    /\ Set(s, [session[s] EXCEPT !.reader = "read", !.speaker = "wait",
                                 !.ctx = (server = "open")])
    /\ UNCHANGED <<server, active, renderer>>

Announce(s) ==
    /\ session[s].reader = "read" /\ ~session[s].recorded
    /\ Set(s, [session[s] EXCEPT !.announced = TRUE])
    /\ UNCHANGED <<server, active, renderer>>

SlotFreeAlways(s) == TRUE               \* mutant: the slot is not asked
SlotFree(s) == active \in {NoSession, s}

(* ffmpeg, or after it a UDP port, may not be had: the answer is 500, but  *)
(* the session keeps the slot and what it has until it ends.               *)
Setup(s) ==
    /\ session[s].reader = "read"
    /\ session[s].announced /\ session[s].live = "none" /\ SlotFree(s)
    /\ active' = s
    /\ \E decoder \in BOOLEAN, audio \in BOOLEAN :
         /\ audio => decoder
         /\ Set(s, [session[s] EXCEPT !.live = "open", !.decoder = decoder,
                                      !.audio = audio])
    /\ UNCHANGED <<server, renderer>>

Record(s) ==
    /\ session[s].reader = "read"
    /\ session[s].decoder /\ ~session[s].recorded
    /\ Set(s, [session[s] EXCEPT !.recorded = TRUE, !.ready = "wait"])
    /\ UNCHANGED <<server, active, renderer>>

(* SET_PARAMETER volume: what is in the channel is taken out, then the     *)
(* reader sends, as ever it must not wait.                                 *)
Drained(s) == NoVolume

VolumeDropsNewest(s) ==                 \* mutant: a full channel keeps the old one
    /\ session[s].reader = "read" /\ s \in Sliders
    /\ \E v \in Volumes :
         Set(s, [session[s] EXCEPT !.asked = v,
                   !.volume = IF session[s].volume = NoVolume THEN v ELSE session[s].volume])
    /\ UNCHANGED <<server, active, renderer>>

VolumeDrain(s) ==
    /\ session[s].reader = "read" /\ s \in Sliders
    /\ \E v \in Volumes :
         Set(s, [session[s] EXCEPT !.reader = "push", !.asked = v,
                                   !.volume = Drained(s)])
    /\ UNCHANGED <<server, active, renderer>>

VolumePush(s) ==
    /\ session[s].reader = "push" /\ session[s].volume = NoVolume
    /\ Set(s, [session[s] EXCEPT !.reader = "read", !.volume = session[s].asked])
    /\ UNCHANGED <<server, active, renderer>>

(* TEARDOWN, a broken connection, 90 s of silence, a bad request, or the   *)
(* connection is closed because the context is done.  The deferred cleanup *)
(* begins: everything the other goroutines wait for is cancelled or closed.*)
Leave(s) ==
    /\ session[s].reader = "read"
    /\ Set(s, [session[s] EXCEPT !.reader = "wait", !.ctx = FALSE])
    /\ UNCHANGED <<server, active, renderer>>

WaitNot(s) == TRUE                      \* mutant: no ss.wg.Wait()
GoroutinesDone(s) ==
    /\ session[s].ready \in {"none", "done"} /\ session[s].speaker = "done"
    /\ ~session[s].audio

CleanupWait(s) ==
    /\ session[s].reader = "wait" /\ GoroutinesDone(s)
    /\ Set(s, [session[s] EXCEPT !.reader = "close"])
    /\ UNCHANGED <<server, active, renderer>>

LiveClosed(s) == IF session[s].live = "open" THEN "closed" ELSE session[s].live

CleanupClose(s) ==
    /\ session[s].reader = "close"
    /\ Set(s, [session[s] EXCEPT !.reader = "release", !.live = LiveClosed(s)])
    /\ UNCHANGED <<server, active, renderer>>

FreedSlot(s) == IF active = s THEN NoSession ELSE active

CleanupRelease(s) ==
    /\ session[s].reader = "release"
    /\ active' = FreedSlot(s)
    /\ Set(s, [session[s] EXCEPT !.reader =
                 IF active = s /\ session[s].recorded THEN "endRead" ELSE "done"])
    /\ UNCHANGED <<server, renderer>>

(* EndAirPlay reads r.airplay, whosesoever it is, and stops in a section   *)
(* of its own.                                                             *)
EndRead(s) ==
    /\ session[s].reader = "endRead"
    /\ Set(s, [session[s] EXCEPT !.reader = IF air = NoSession THEN "done" ELSE "endStop"])
    /\ UNCHANGED <<server, active, renderer>>

EndStop(s) ==
    /\ session[s].reader = "endStop"
    /\ newest' = <<s, "end">>
    /\ Set(s, [session[s] EXCEPT !.reader = "ending"])
    /\ UNCHANGED <<server, active, air>>

EndAnswer(s) ==
    /\ session[s].reader = "ending"
    /\ \/ /\ newest = <<s, "end">>
          /\ air' = NoSession
          /\ Set(s, [session[s] EXCEPT !.reader = "done"])
       \/ /\ UNCHANGED air
          /\ Set(s, [session[s] EXCEPT !.reader = "done", !.failed = TRUE])
    /\ UNCHANGED <<server, active, newest>>

(***************************************************************************)
(* The other goroutines of a session.                                      *)
(***************************************************************************)

(* External: audio comes through the decoder.                              *)
Enough(s) ==
    /\ session[s].audio /\ ~session[s].enough
    /\ Set(s, [session[s] EXCEPT !.enough = TRUE])
    /\ UNCHANGED <<server, active, renderer>>

(* audio ends with the context, and cancels it if the decoder breaks.      *)
AudioEnds(s) ==
    /\ session[s].audio
    /\ Set(s, [session[s] EXCEPT !.audio = FALSE, !.ctx = FALSE])
    /\ UNCHANGED <<server, active, renderer>>

(* Waits for audio, at most 5 s (which cancel the session).                *)
NoTimer(s) == ~session[s].ctx           \* mutant: waits as long as it takes
TimerOrDone(s) == TRUE

ReadyWaits(s) ==
    /\ session[s].ready = "wait"
    /\ \/ /\ session[s].enough
          /\ Set(s, [session[s] EXCEPT !.ready = "send"])
       \/ /\ ~session[s].enough /\ TimerOrDone(s)
          /\ Set(s, [session[s] EXCEPT !.ready = "done", !.ctx = FALSE])
    /\ UNCHANGED <<server, active, renderer>>

(* select takes either case when both can be.                              *)
ReadySends(s) ==
    /\ session[s].ready = "send"
    /\ \/ ~session[s].play /\ Set(s, [session[s] EXCEPT !.ready = "done", !.play = TRUE])
       \/ ~session[s].ctx /\ Set(s, [session[s] EXCEPT !.ready = "done"])
    /\ UNCHANGED <<server, active, renderer>>

IgnoreDone(s) == FALSE                  \* mutant: only ss.play is waited for
ContextDone(s) == ~session[s].ctx

SpeakerWaits(s) ==
    /\ session[s].speaker = "wait"
    /\ \/ ContextDone(s) /\ Set(s, [session[s] EXCEPT !.speaker = "done"])
       \/ session[s].play /\ Set(s, [session[s] EXCEPT !.speaker = "volume", !.play = FALSE])
    /\ UNCHANGED <<server, active, renderer>>

(* The volume that came before playback, if any (select with a default);   *)
(* SetVolume returns, or gives up after 5 s; and the context is looked at. *)
Onwards(s) == IF session[s].ctx THEN "reserve" ELSE "done"

SpeakerFirst(s) ==
    /\ session[s].speaker = "volume"
    /\ IF session[s].volume = NoVolume
       THEN Set(s, [session[s] EXCEPT !.speaker = Onwards(s)])
       ELSE Set(s, [session[s] EXCEPT !.speaker = "first", !.volume = NoVolume,
                                      !.given = session[s].volume])
    /\ UNCHANGED <<server, active, renderer>>

SpeakerFirstSent(s) ==
    /\ session[s].speaker = "first"
    /\ Set(s, [session[s] EXCEPT !.speaker = Onwards(s)])
    /\ UNCHANGED <<server, active, renderer>>

StartReserve(s) ==
    /\ session[s].speaker = "reserve"
    /\ newest' = <<s, "start">>
    /\ Set(s, [session[s] EXCEPT !.speaker = "starting"])
    /\ UNCHANGED <<server, active, air>>

(* StartAirPlay returns.  Its answer counts only while it is the newest,   *)
(* even if the context ends just then; a failure ends the session.         *)
StartAnswer(s) ==
    /\ session[s].speaker = "starting"
    /\ \/ /\ newest = <<s, "start">>
          /\ air' = s
          /\ Set(s, [session[s] EXCEPT !.speaker = "loop"])
       \/ /\ UNCHANGED air
          /\ Set(s, [session[s] EXCEPT !.speaker = "done", !.ctx = FALSE])
    /\ UNCHANGED <<server, active, newest>>

SpeakerLoop(s) ==
    /\ session[s].speaker = "loop"
    /\ \/ ~session[s].ctx /\ Set(s, [session[s] EXCEPT !.speaker = "done"])
       \/ /\ session[s].volume # NoVolume
          /\ Set(s, [session[s] EXCEPT !.speaker = "sending", !.volume = NoVolume,
                                       !.given = session[s].volume])
    /\ UNCHANGED <<server, active, renderer>>

SpeakerSent(s) ==
    /\ session[s].speaker = "sending"
    /\ Set(s, [session[s] EXCEPT !.speaker = "loop"])
    /\ UNCHANGED <<server, active, renderer>>

(***************************************************************************)
(* Close, and the renderer's other users.                                  *)
(***************************************************************************)

Unrelated == session                    \* mutant: contexts not derived from s.ctx
Cancelled == [s \in Sessions |-> [session[s] EXCEPT !.ctx = FALSE]]

CloseCancels ==
    /\ server = "open"
    /\ server' = "cancelled"
    /\ session' = Cancelled
    /\ UNCHANGED <<active, renderer>>

CloseListener ==
    /\ server = "cancelled"
    /\ server' = "waiting"
    /\ UNCHANGED <<active, session, renderer>>

CloseReturns ==
    /\ server = "waiting" /\ Serving = {}
    /\ server' = "closed"
    /\ UNCHANGED <<active, session, renderer>>

(* A control point or an alarm: a cast takes r.airplay back, a Pause, Seek *)
(* or Stop only supersedes.                                                *)
OtherCommand ==
    /\ newest' = <<NoSession, "other">>
    /\ air' \in {air, NoSession}
    /\ UNCHANGED <<server, active, session>>

(***************************************************************************)
(* The specification.                                                      *)
(***************************************************************************)

Request(s) ==
    Announce(s) \/ Setup(s) \/ Record(s) \/ VolumeDrain(s)

Cleanup(s) ==
    \/ CleanupWait(s) \/ CleanupClose(s) \/ CleanupRelease(s)
    \/ EndRead(s) \/ EndStop(s) \/ EndAnswer(s)

Ready(s) == ReadyWaits(s) \/ ReadySends(s)

Speaker(s) ==
    \/ SpeakerWaits(s) \/ SpeakerFirst(s) \/ SpeakerFirstSent(s)
    \/ StartReserve(s) \/ StartAnswer(s) \/ SpeakerLoop(s) \/ SpeakerSent(s)

Next ==
    \/ \E s \in Sessions :
         \/ Accept(s) \/ Request(s) \/ VolumePush(s) \/ Leave(s) \/ Cleanup(s)
         \/ Enough(s) \/ AudioEnds(s) \/ Ready(s) \/ Speaker(s)
    \/ CloseCancels \/ CloseListener \/ CloseReturns \/ OtherCommand

Spec == Init /\ [][Next]_vars

(* Goroutines that can run do, and calls to the renderer return            *)
(* (CallsReturn of Renderer).  A connection whose context is done is       *)
(* closed, so that its reader runs out of requests: strong fairness.       *)
Fairness ==
    /\ \A s \in Sessions :
         /\ SF_vars(~session[s].ctx /\ Leave(s))
         /\ WF_vars(~session[s].ctx /\ AudioEnds(s))
         /\ WF_vars(VolumePush(s)) /\ WF_vars(Cleanup(s))
         /\ WF_vars(Ready(s)) /\ WF_vars(Speaker(s))
    /\ WF_vars(CloseListener) /\ WF_vars(CloseReturns)

FairSpec == Spec /\ Fairness

(***************************************************************************)
(* Properties.                                                             *)
(***************************************************************************)

(* Every variable keeps its type.                                          *)
TypeOK ==
    /\ server \in ServerPCs /\ active \in Sessions \cup {NoSession}
    /\ session \in [Sessions -> SessionRecords]
    /\ air \in Sessions \cup {NoSession} /\ newest \in Commands

(* One sender streams at a time: while the stream of a session is open, or *)
(* the session commands the speaker to play it, the slot is its own.       *)
OneStreams ==
    \A s \in Sessions :
        session[s].live = "open" \/ session[s].speaker \in {"starting", "loop", "sending"}
        => active = s

(* server.go, "the RTSP reader must never wait for the cloud": whenever it *)
(* sends a volume the channel is empty, whatever the speaker goroutine does*)
(* between the two selects.                                                *)
ReaderNeverWaits ==
    \A s \in Sessions : session[s].reader = "push" => session[s].volume = NoVolume

(* No volume is lost: what the sender asked for last has been given to the *)
(* speaker, or waits in the channel, where nothing older does.             *)
LatestVolumeIsKept ==
    \A s \in Sessions :
        /\ session[s].reader = "read" /\ session[s].asked # NoVolume
        => session[s].asked \in {session[s].volume, session[s].given}
           /\ (session[s].volume # NoVolume => session[s].volume = session[s].asked)

(* A sender that has gone does not leave the renderer playing AirPlay: its *)
(* StartAirPlay never succeeds after its EndAirPlay has looked, unless the *)
(* stop was refused by the speaker or superseded.                          *)
EndedIsOver ==
    \A s \in Sessions :
        session[s].reader = "done" /\ ~session[s].failed => air # s

(* A session that has gone does not keep others out.                       *)
SlotIsLiving == \A s \in Sessions : active = s => s \in Serving

(* A session whose context is done, for whatever reason, ends for good: no *)
(* goroutine of its waits for another that has left.                       *)
SessionsEnd ==
    \A s \in Sessions :
        session[s].reader # "new" /\ ~session[s].ctx ~> session[s].reader = "done"

(* A sender that records either plays or is disconnected, within 5 s and   *)
(* the cloud's time.                                                       *)
RecordSettles ==
    \A s \in Sessions :
        session[s].recorded ~> session[s].speaker \in {"loop", "sending", "done"}

(* Close returns, whatever the sessions are doing.                         *)
CloseEnds == server # "open" ~> server = "closed"

(***************************************************************************)
(* The inductive invariant behind the safety invariants.                   *)
(***************************************************************************)

Leaving == {"close", "release", "endRead", "endStop", "ending", "done"}
Released == {"endRead", "endStop", "ending", "done"}

(* What of a session q follows from what: the order of its requests, the   *)
(* slot, the channel, and r.airplay, when the slot and r.airplay are these.*)
OrderOf(q) ==
    /\ q.reader = "new" =>
         /\ q.live = "none" /\ q.ready = "none" /\ q.speaker = "none"
         /\ q.asked = NoVolume /\ ~q.audio /\ ~q.play /\ ~q.recorded
    /\ q.decoder => q.live # "none"
    /\ q.recorded => q.decoder
    /\ q.ready # "none" \/ q.play => q.recorded
    /\ q.speaker \in SpeakerPCs \ {"none", "wait", "done"} => q.recorded
    /\ q.reader \in Leaving =>
         q.ready \in {"none", "done"} /\ q.speaker = "done" /\ ~q.audio

SlotOf(q, mine) ==
    /\ q.live # "none" /\ q.reader \notin Released => mine
    /\ q.live = "open" => q.reader \notin {"release"} \cup Released
    /\ mine => q.reader \notin {"new"} \cup Released

VolumeOf(q) ==
    /\ q.reader = "push" => q.volume = NoVolume
    /\ q.reader = "read" /\ q.asked # NoVolume =>
         /\ q.asked \in {q.volume, q.given}
         /\ q.volume # NoVolume => q.volume = q.asked
    /\ q.asked = NoVolume => q.volume = NoVolume

AirOf(q, mine) ==
    mine => q.recorded /\ (q.reader = "done" => q.failed)

Good(s, q, slot, playing) ==
    /\ q \in SessionRecords
    /\ OrderOf(q) /\ SlotOf(q, slot = s) /\ VolumeOf(q) /\ AirOf(q, playing = s)

IInv == TypeOK /\ \A s \in Sessions : Good(s, session[s], active, air)
=============================================================================
