------------------------------ MODULE Receiver ------------------------------
(***************************************************************************)
(* The AirPlay 2 receiver (src/internal/airplay2/receiver.go): two native  *)
(* processes, nqptp and shairport-sync, and the bridge that turns what     *)
(* shairport-sync puts out into a stream the speaker plays.                *)
(*                                                                         *)
(* Audio comes through a pipe, the news of sessions in datagrams.  A       *)
(* goroutine each moves them into a bounded queue; the bridge selects from *)
(* the queues, writes the audio to a decoder, and begins and ends streams. *)
(* A goroutine of the stream commands the speaker when there is audio.     *)
(*                                                                         *)
(* A chunk or datagram that its goroutine holds counts as still in the     *)
(* pipe or the socket, which loses none.  News of titles are left out.  Of *)
(* the renderer there is what module AirPlay has of it.                    *)
(***************************************************************************)
EXTENDS Naturals, Sequences

CONSTANTS
    PipeSize, Chunks,       \* what the pipe and the channel of chunks hold (4)
    SocketSize, Events,     \* what the socket and the channel of events hold (16)
    MaxIncidents            \* bound: sessions of senders, silences of 12 s, processes
                            \* and decoders that die or do not start

ASSUME QueueAssumption ==
    {PipeSize, Chunks, SocketSize, Events} \subseteq Nat \ {0}
ASSUME BoundAssumption == MaxIncidents \in Nat

VARIABLES
    starter,        \* Start, then who closes
    ctx,            \* not cancelled
    natives,        \* the processes and their goroutines: "none", "clock", "both", "gone"
    sockets,        \* the pipe's end and the metadata socket are open
    pipe, chunks, chunkLoop,
    socket, events, eventLoop,
    bridge, return, \* where the bridge is; where end returns to
    ended,
    decoder,        \* "none", "up", "dead" (ffmpeg), "closed" (with context and address)
    ready,          \* the decoder has put out audio
    play,           \* the goroutine that calls StartAirPlay
    playing,        \* r.airplay
    latest,         \* the command that last reserved the renderer
    unstopped,      \* history: EndAirPlay could not stop it
    sender,         \* a sender casts
    incidents       \* bound

life == <<starter, natives, sockets>>
audio == <<pipe, chunks, chunkLoop>>
news == <<socket, events, eventLoop>>
inputs == <<audio, news>>
stream == <<decoder, ready, play>>
speaker == <<playing, latest, unstopped>>
streaming == <<bridge, return, ended, stream, speaker>>
world == <<sender, incidents>>
vars == <<life, ctx, inputs, streaming, world>>

NoStream == decoder = "none"

Init ==
    /\ starter = "off" /\ ctx = FALSE /\ natives = "none" /\ sockets = FALSE
    /\ pipe = 0 /\ chunks = 0 /\ chunkLoop = "none"
    /\ socket = <<>> /\ events = <<>> /\ eventLoop = "none"
    /\ bridge = "none" /\ return = "select" /\ ended = FALSE
    /\ decoder = "none" /\ ready = FALSE /\ play = "none"
    /\ playing = FALSE /\ latest = "other" /\ unstopped = FALSE
    /\ sender = "off" /\ incidents = 0

Incident == incidents < MaxIncidents /\ incidents' = incidents + 1

Fail == ctx' = FALSE

(***************************************************************************)
(* Start and Close.                                                        *)
(***************************************************************************)

(* What Start asks first and does not get leaves nothing behind.           *)
StartClock ==
    /\ starter = "off"
    /\ starter' = "clock" /\ ctx' = TRUE /\ sockets' = TRUE /\ natives' = "clock"
    /\ UNCHANGED <<inputs, streaming, world>>

(* After 600 ms; or abort.                                                 *)
StartReceiver ==
    /\ starter = "clock"
    /\ \/ /\ ctx
          /\ starter' = "probe" /\ natives' = "both"
          /\ bridge' = "select" /\ chunkLoop' = "loop" /\ eventLoop' = "loop"
          /\ UNCHANGED <<ctx, sockets, incidents>>
       \/ /\ IF ctx THEN Incident ELSE UNCHANGED incidents
          /\ starter' = "abort" /\ ctx' = FALSE /\ sockets' = FALSE
          /\ UNCHANGED <<natives, bridge, chunkLoop, eventLoop>>
    /\ UNCHANGED <<pipe, chunks, socket, events, return, ended, stream, speaker, sender>>

(* The RTSP port answers, or does not within 4 s, or something failed.     *)
Probe ==
    /\ starter = "probe"
    /\ \/ natives = "both" /\ starter' = "up" /\ UNCHANGED <<ctx, incidents>>
       \/ ctx /\ Incident /\ starter' = "closing" /\ Fail
       \/ ~ctx /\ starter' = "closing" /\ UNCHANGED <<ctx, incidents>>
    /\ UNCHANGED <<natives, sockets, inputs, streaming, sender>>

CloseCancelsReceiver ==
    /\ starter = "up"
    /\ starter' = "closing" /\ ctx' = FALSE
    /\ UNCHANGED <<natives, sockets, inputs, streaming, world>>

(* wg.Wait, in abort, or before r.done is closed.                          *)
AllReturned == natives = "gone" /\ bridge \in {"none", "gone"}

StartOrCloseReturns ==
    /\ starter \in {"abort", "closing"} /\ AllReturned
    /\ starter' = "over"
    /\ UNCHANGED <<natives, sockets, ctx, inputs, streaming, world>>

(* A process dies, which fails the receiver, or the parent's context is    *)
(* done; or a failure has cancelled the context, and the processes end.    *)
NativeDies ==
    /\ ctx /\ Incident /\ Fail
    /\ UNCHANGED <<life, inputs, streaming, sender>>

NativesEnd ==
    /\ ~ctx /\ natives \in {"clock", "both"}
    /\ natives' = "gone"
    /\ UNCHANGED <<starter, sockets, ctx, inputs, streaming, world>>

SocketsClose ==
    /\ ~ctx /\ sockets /\ bridge # "none"
    /\ sockets' = FALSE
    /\ UNCHANGED <<starter, natives, ctx, inputs, streaming, world>>

(***************************************************************************)
(* The bridge's two producers.                                             *)
(***************************************************************************)

ChunkGoes ==
    /\ chunkLoop = "loop" /\ pipe > 0 /\ chunks < Chunks
    /\ pipe' = pipe - 1 /\ chunks' = chunks + 1
    /\ UNCHANGED <<life, ctx, chunkLoop, news, streaming, world>>

Insists == FALSE                        \* mutant: no case <-ctx.Done()
GivesUp == ~ctx

(* A read fails, or nobody takes the chunk.                                *)
ChunksEnd ==
    /\ chunkLoop = "loop"
    /\ \/ /\ ~sockets \/ natives = "gone"
          /\ pipe = 0 \/ chunks < Chunks
       \/ GivesUp /\ pipe > 0
    /\ chunkLoop' = "done"
    /\ UNCHANGED <<life, ctx, pipe, chunks, news, streaming, world>>

EventGoes ==
    /\ eventLoop = "loop" /\ socket # <<>> /\ Len(events) < Events
    /\ events' = Append(events, Head(socket)) /\ socket' = Tail(socket)
    /\ UNCHANGED <<life, ctx, audio, eventLoop, streaming, world>>

EventsEnd ==
    /\ eventLoop = "loop"
    /\ \/ ~sockets /\ (socket = <<>> \/ Len(events) < Events)
       \/ ~ctx /\ socket # <<>>
    /\ eventLoop' = "done"
    /\ UNCHANGED <<life, ctx, audio, socket, events, streaming, world>>

(***************************************************************************)
(* The bridge.                                                             *)
(***************************************************************************)

SelectDone ==
    /\ bridge = "select" /\ ~ctx
    /\ bridge' = "unwind"
    /\ UNCHANGED <<life, ctx, inputs, return, ended, stream, speaker, world>>

(* end, up to its wait for the goroutine that calls StartAirPlay; nothing  *)
(* without a stream.                                                       *)
EndBegins(to) ==
    IF NoStream THEN bridge' = to /\ UNCHANGED <<return, stream>>
    ELSE /\ bridge' = "endPlay" /\ return' = to
         /\ decoder' = "closed"
         /\ UNCHANGED <<ready, play>>

StaysEnded(e) == ended \/ e = "end"     \* mutant: the next session is not let in
EndedBy(e) == e = "end"

SelectEvent ==
    /\ bridge = "select" /\ events # <<>>
    /\ events' = Tail(events)
    /\ ended' = EndedBy(Head(events))
    /\ IF Head(events) = "end" THEN EndBegins("select") ELSE UNCHANGED <<bridge, return, stream>>
    /\ UNCHANGED <<life, ctx, audio, socket, eventLoop, speaker, world>>

(* No audio has come for 12 s.                                             *)
SelectTick ==
    /\ bridge = "select" /\ pipe = 0 /\ chunks = 0 /\ ~NoStream
    /\ Incident
    /\ EndBegins("select")
    /\ UNCHANGED <<life, ctx, inputs, ended, speaker, sender>>

(* A chunk, dropped when the session has ended; or else the first one      *)
(* makes a stream and a decoder, which may not start.                      *)
SelectChunk ==
    /\ bridge = "select" /\ chunks > 0
    /\ chunks' = chunks - 1
    /\ \/ /\ ended
          /\ UNCHANGED <<bridge, stream, ctx, incidents>>
       \/ /\ ~ended /\ ~NoStream
          /\ bridge' = "write"
          /\ UNCHANGED <<stream, ctx, incidents>>
       \/ /\ ~ended /\ NoStream
          /\ bridge' = "write"
          /\ decoder' = "up" /\ ready' = FALSE /\ play' = "wait"
          /\ UNCHANGED <<ctx, incidents>>
       \/ /\ ~ended /\ NoStream
          /\ bridge' = "unwind"
          /\ Incident /\ Fail
          /\ UNCHANGED stream
    /\ UNCHANGED <<life, pipe, chunkLoop, news, return, ended, speaker, sender>>

WritePacket ==
    /\ bridge = "write"
    /\ \/ decoder = "up" /\ bridge' = "select" /\ UNCHANGED ctx
       \/ decoder = "dead" /\ bridge' = "unwind" /\ Fail
    /\ UNCHANGED <<life, inputs, return, ended, stream, speaker, world>>

Impatient == TRUE                       \* mutant: no <-playDone
PlayDone == play = "done"

EndWaits ==
    /\ bridge = "endPlay" /\ PlayDone
    /\ bridge' = "endRead"
    /\ UNCHANGED <<life, ctx, inputs, return, ended, stream, speaker, world>>

(* EndAirPlay reads r.airplay, and stops in a section of its own.          *)
EndReads ==
    /\ bridge = "endRead"
    /\ IF playing THEN bridge' = "endStop" /\ UNCHANGED decoder
       ELSE bridge' = return /\ decoder' = "none"
    /\ UNCHANGED <<life, ctx, inputs, return, ended, ready, play, speaker, world>>

EndStops ==
    /\ bridge = "endStop"
    /\ latest' = "end" /\ bridge' = "ending"
    /\ UNCHANGED <<life, ctx, inputs, return, ended, stream, playing, unstopped, world>>

EndAnswers ==
    /\ bridge = "ending"
    /\ \/ latest = "end" /\ playing' = FALSE /\ UNCHANGED unstopped
       \/ unstopped' = playing /\ UNCHANGED playing
    /\ bridge' = return /\ decoder' = "none"
    /\ UNCHANGED <<life, ctx, inputs, return, ended, ready, play, latest, world>>

(* What bridge defers: end, then the producers.                            *)
Unwinds ==
    /\ bridge = "unwind"
    /\ IF ~NoStream THEN EndBegins("unwind") /\ UNCHANGED <<ctx, sockets>>
       ELSE /\ bridge' = "producers" /\ ctx' = FALSE /\ sockets' = FALSE
            /\ UNCHANGED <<return, stream>>
    /\ UNCHANGED <<starter, natives, inputs, ended, speaker, world>>

ProducersWait ==
    /\ bridge = "producers" /\ chunkLoop = "done" /\ eventLoop = "done"
    /\ bridge' = "gone"
    /\ UNCHANGED <<life, ctx, inputs, return, ended, stream, speaker, world>>

(***************************************************************************)
(* The stream: the decoder, and the goroutine that commands the speaker.   *)
(***************************************************************************)

AudioDone == decoder = "closed" \/ ~ctx

(* External: ffmpeg puts out audio, dies, or is killed by the context.     *)
DecoderEmits ==
    /\ decoder = "up" /\ ~ready
    /\ ready' = TRUE
    /\ UNCHANGED <<life, ctx, inputs, bridge, return, ended, decoder, play, speaker, world>>

DecoderDies ==
    /\ decoder = "up"
    /\ IF AudioDone THEN UNCHANGED incidents ELSE Incident
    /\ decoder' = "dead"
    /\ UNCHANGED <<life, ctx, inputs, bridge, return, ended, ready, play, speaker, sender>>

PlayWaits ==
    /\ play = "wait"
    /\ \/ ready /\ play' = "reserve"
       \/ AudioDone /\ play' = "done"
    /\ UNCHANGED <<life, ctx, inputs, bridge, return, ended, decoder, ready, speaker, world>>

PlayReserves ==
    /\ play = "reserve"
    /\ latest' = "start" /\ play' = "starting"
    /\ UNCHANGED <<life, ctx, inputs, bridge, return, ended, decoder, ready, playing, unstopped,
                   world>>

(* StartAirPlay returns; an error that the end of the stream does not      *)
(* explain fails the receiver.                                             *)
PlayAnswers ==
    /\ play = "starting"
    /\ play' = "done"
    /\ \/ /\ latest = "start"
          /\ playing' = TRUE /\ unstopped' = FALSE
          /\ UNCHANGED ctx
       \/ /\ IF AudioDone THEN UNCHANGED ctx ELSE Fail
          /\ UNCHANGED <<playing, unstopped>>
    /\ UNCHANGED <<life, inputs, bridge, return, ended, decoder, ready, latest, world>>

(***************************************************************************)
(* External: senders, through shairport-sync, and other users.             *)
(***************************************************************************)

Serves == ctx /\ starter = "up"

SenderBegins ==
    /\ Serves /\ sender = "off" /\ Len(socket) < SocketSize
    /\ sender' = "on" /\ Incident
    /\ socket' = Append(socket, "begin")
    /\ UNCHANGED <<life, ctx, audio, events, eventLoop, streaming>>

SenderSends ==
    /\ Serves /\ sender = "on" /\ pipe < PipeSize
    /\ pipe' = pipe + 1
    /\ UNCHANGED <<life, ctx, chunks, chunkLoop, news, streaming, world>>

SenderEnds ==
    /\ Serves /\ sender = "on" /\ Len(socket) < SocketSize
    /\ sender' = "off"
    /\ socket' = Append(socket, "end")
    /\ UNCHANGED <<life, ctx, audio, events, eventLoop, streaming, incidents>>

(* A control point or an alarm.                                            *)
OthersCommand ==
    /\ latest' = "other"
    /\ \/ playing' = FALSE /\ unstopped' = FALSE
       \/ UNCHANGED <<playing, unstopped>>
    /\ UNCHANGED <<life, ctx, inputs, bridge, return, ended, stream, world>>

(***************************************************************************)
(* The specification.                                                      *)
(***************************************************************************)

Starter == StartReceiver \/ Probe \/ StartOrCloseReturns
ChunkLoop == ChunkGoes \/ ChunksEnd
EventLoop == EventGoes \/ EventsEnd
Ends == EndWaits \/ EndReads \/ EndStops \/ EndAnswers
Plays == PlayWaits \/ PlayReserves \/ PlayAnswers

Next ==
    \/ StartClock \/ Starter \/ CloseCancelsReceiver
    \/ NativeDies \/ NativesEnd \/ SocketsClose
    \/ ChunkLoop \/ EventLoop
    \/ SelectDone \/ SelectEvent \/ SelectTick \/ SelectChunk
    \/ WritePacket \/ Ends \/ Unwinds \/ ProducersWait
    \/ DecoderEmits \/ DecoderDies \/ Plays
    \/ SenderBegins \/ SenderSends \/ SenderEnds \/ OthersCommand

Spec == Init /\ [][Next]_vars

(* Goroutines that can run do, a process that is told to ends (SIGKILL     *)
(* after 3 s), ffmpeg puts out audio, and calls to the renderer return.    *)
(* select is random among the cases that are ready: strong fairness.       *)
(* Who casts sends.                                                        *)
Fairness ==
    /\ WF_vars(Starter)
    /\ WF_vars(NativesEnd) /\ WF_vars(SocketsClose)
    /\ WF_vars(ChunkLoop) /\ WF_vars(EventLoop)
    /\ SF_vars(SelectDone) /\ SF_vars(SelectEvent)
    /\ SF_vars(SelectChunk)
    /\ WF_vars(WritePacket \/ Ends \/ Unwinds \/ ProducersWait)
    /\ WF_vars(DecoderEmits) /\ WF_vars(Plays)
    /\ WF_vars(SenderSends)

FairSpec == Spec /\ Fairness

(***************************************************************************)
(* Properties.                                                             *)
(***************************************************************************)

(* A stream is taken away as a whole: when the bridge has none, no         *)
(* StartAirPlay is under way, and the renderer is not in AirPlay, unless   *)
(* EndAirPlay could not stop it; and when Start has failed or Close has    *)
(* returned, nothing is left of what either began.                         *)
NothingLeft ==
    /\ NoStream => play \in {"none", "done"} /\ (playing => unstopped)
    /\ starter = "over" =>
         /\ NoStream /\ ~sockets
         /\ {chunkLoop, eventLoop} \subseteq {"none", "done"}

(* "A failed decoder cancels the receiver, allowing the manager's recovery *)
(* loop to rebuild the entire audio pipeline" (receiver.go:224): whatever  *)
(* fails or is closed, the receiver comes to its end.                      *)
ReceiverSettles ==
    starter # "off" /\ ~ctx ~> AllReturned

(* Who casts is heard, unless another command has taken the speaker: no    *)
(* order of news and audio of sessions that follow each other makes the    *)
(* bridge deaf, and if it cannot go on the receiver ends.                  *)
Heard == decoder = "up" /\ ready /\ play = "done" /\ (playing \/ latest = "other")
AudioIsHeard == <>[](sender = "on") => <>[]~ctx \/ []<>Heard

(***************************************************************************)
(* The inductive invariant behind NothingLeft.                             *)
(***************************************************************************)

StatesOK ==
    /\ starter \in {"off", "clock", "probe", "up", "abort", "closing", "over"}
    /\ ctx \in BOOLEAN /\ sockets \in BOOLEAN /\ natives \in {"none", "clock", "both", "gone"}
    /\ chunkLoop \in {"none", "loop", "done"} /\ eventLoop \in {"none", "loop", "done"}
    /\ bridge \in {"none", "select", "write", "endPlay", "endRead", "endStop", "ending",
                   "unwind", "producers", "gone"}
    /\ return \in {"select", "unwind"} /\ ended \in BOOLEAN
    /\ decoder \in {"none", "up", "dead", "closed"} /\ ready \in BOOLEAN
    /\ play \in {"none", "wait", "reserve", "starting", "done"}
    /\ playing \in BOOLEAN /\ latest \in {"start", "end", "other"} /\ unstopped \in BOOLEAN
    /\ sender \in {"off", "on"}

QueuesOK ==
    /\ pipe \in Nat /\ pipe <= PipeSize /\ chunks \in Nat /\ chunks <= Chunks
    /\ socket \in Seq({"begin", "end"}) /\ Len(socket) <= SocketSize
    /\ events \in Seq({"begin", "end"}) /\ Len(events) <= Events

(* Every variable keeps its type, and no queue holds more than it can.     *)
TypeOK == StatesOK /\ QueuesOK /\ incidents \in Nat /\ incidents <= MaxIncidents

(* The bridge and its producers live together, from Start to Close.        *)
BridgeInv ==
    /\ bridge = "none" <=> starter \in {"off", "clock", "abort"}
                           \/ (starter = "over" /\ chunkLoop = "none")
    /\ bridge = "none" <=> chunkLoop = "none"
    /\ bridge = "none" <=> eventLoop = "none"
    /\ bridge = "none" \/ bridge \in {"producers", "gone"} => NoStream
    /\ bridge \in {"producers", "gone"} => ~sockets /\ ~ctx
    /\ bridge = "gone" => chunkLoop = "done" /\ eventLoop = "done"
    /\ starter = "abort" \/ (starter = "over" /\ bridge = "none") => ~sockets
    /\ starter = "over" => bridge \in {"none", "gone"}
    /\ starter \in {"abort", "closing", "over"} => ~ctx
    /\ natives = "none" => starter = "off"

(* While end takes a stream away, the decoder is closed, and after the     *)
(* wait nobody calls StartAirPlay any more.                                *)
EndInv ==
    /\ bridge \in {"endPlay", "endRead", "endStop", "ending"} => decoder = "closed"
    /\ bridge \in {"endRead", "endStop", "ending"} => play = "done"
    /\ decoder = "closed" => bridge \in {"endPlay", "endRead", "endStop", "ending"}
    /\ bridge = "write" => decoder \in {"up", "dead"}

IInv == TypeOK /\ BridgeInv /\ EndInv /\ NothingLeft
=============================================================================
