--------------------------- MODULE ReceiverProofs ---------------------------
(***************************************************************************)
(* Proofs about Receiver, for queues of any size and any number of         *)
(* incidents.                                                              *)
(***************************************************************************)
EXTENDS Receiver, SequenceTheorems, TLAPS

LEMMA Begins == Init => IInv
<1> SUFFICES ASSUME Init PROVE IInv
  OBVIOUS
<1>1. QueuesOK
  <2>1. PipeSize \in Nat /\ Chunks \in Nat /\ SocketSize \in Nat /\ Events \in Nat
    BY QueueAssumption
  <2>2. <<>> \in Seq({"begin", "end"}) /\ Len(<<>>) = 0
    OBVIOUS
  <2> QED
    BY <2>1, <2>2 DEF Init, QueuesOK
<1>2. StatesOK
  BY DEF Init, StatesOK
<1>3. incidents \in Nat /\ incidents <= MaxIncidents
  BY BoundAssumption DEF Init
<1>4. BridgeInv /\ EndInv /\ NothingLeft
  BY DEF Init, BridgeInv, EndInv, NothingLeft, NoStream
<1> QED
  BY <1>1, <1>2, <1>3, <1>4 DEF IInv, TypeOK

(***************************************************************************)
(* Types.                                                                  *)
(***************************************************************************)

LEMMA QueuesStayOK == ASSUME TypeOK, [Next]_vars PROVE QueuesOK'
<1> USE QueueAssumption DEF TypeOK, QueuesOK, life, audio, news, inputs, streaming, world
<1>1. CASE UNCHANGED <<pipe, chunks, socket, events>>
  BY <1>1
<1>2. CASE ChunkGoes
  BY <1>2 DEF ChunkGoes
<1>3. CASE EventGoes
  <2>1. Head(socket) \in {"begin", "end"} /\ Tail(socket) \in Seq({"begin", "end"})
        /\ Len(Tail(socket)) = Len(socket) - 1
    BY <1>3, HeadTailProperties DEF EventGoes
  <2>2. events' \in Seq({"begin", "end"}) /\ Len(events') = Len(events) + 1
    BY <1>3, <2>1, AppendProperties DEF EventGoes
  <2>3. Len(events') <= Events /\ Len(socket') <= SocketSize
    BY <1>3, <2>1, <2>2, LenProperties DEF EventGoes
  <2> QED
    BY <1>3, <2>1, <2>2, <2>3 DEF EventGoes
<1>4. CASE SelectEvent
  <2>1. Tail(events) \in Seq({"begin", "end"}) /\ Len(Tail(events)) = Len(events) - 1
    BY <1>4, HeadTailProperties DEF SelectEvent
  <2>2. Len(events') <= Events
    BY <1>4, <2>1, LenProperties DEF SelectEvent
  <2> QED
    BY <1>4, <2>1, <2>2 DEF SelectEvent
<1>5. CASE SelectChunk
  BY <1>5 DEF SelectChunk
<1>6. ASSUME NEW n \in {"begin", "end"}, socket' = Append(socket, n), Len(socket) < SocketSize
      PROVE  socket' \in Seq({"begin", "end"}) /\ Len(socket') <= SocketSize
  BY <1>6, AppendProperties, LenProperties
<1>7. CASE SenderBegins \/ SenderEnds
  BY <1>6, <1>7 DEF SenderBegins, SenderEnds
<1>8. CASE SenderSends
  BY <1>8 DEF SenderSends
<1>9. UNCHANGED <<pipe, chunks, socket, events>>
      \/ ChunkGoes \/ EventGoes \/ SelectEvent \/ SelectChunk
      \/ SenderBegins \/ SenderEnds \/ SenderSends
  <2> HIDE DEF TypeOK, QueuesOK
  <2> USE DEF StartClock, Starter, StartReceiver, Probe, StartOrCloseReturns, CloseCancelsReceiver,
      NativeDies, NativesEnd, SocketsClose, ChunkLoop, ChunksEnd, EventLoop, EventsEnd, SelectDone,
      SelectTick, WritePacket, Ends, EndWaits, EndReads, EndStops, EndAnswers, Unwinds,
      ProducersWait, DecoderEmits, DecoderDies, Plays, PlayWaits, PlayReserves, PlayAnswers,
      OthersCommand, vars
  <2> QED
    BY DEF Next
<1> QED
  BY <1>1, <1>2, <1>3, <1>4, <1>5, <1>7, <1>8, <1>9

LEMMA StatesStayOK == ASSUME TypeOK, [Next]_vars PROVE StatesOK'
<1> USE BoundAssumption
    DEF TypeOK, StatesOK, life, audio, news, inputs, stream, speaker, streaming, world, Incident,
        Fail
<1> HIDE DEF TypeOK
<1>0. StatesOK
  BY DEF TypeOK
<1>1. CASE StartClock \/ Starter \/ CloseCancelsReceiver
  BY <1>0, <1>1
     DEF StartClock, Starter, StartReceiver, Probe, StartOrCloseReturns, CloseCancelsReceiver
<1>2. CASE NativeDies \/ NativesEnd \/ SocketsClose
  BY <1>0, <1>2 DEF NativeDies, NativesEnd, SocketsClose
<1>3. CASE ChunkLoop \/ EventLoop
  BY <1>0, <1>3 DEF ChunkLoop, ChunkGoes, ChunksEnd, EventLoop, EventGoes, EventsEnd
<1>4. CASE SelectDone \/ SelectTick \/ SelectEvent
  BY <1>0, <1>4 DEF SelectDone, SelectTick, SelectEvent, EndedBy, EndBegins
<1>5. CASE SelectChunk \/ WritePacket
  BY <1>0, <1>5 DEF SelectChunk, WritePacket
<1>6. CASE Ends
  BY <1>0, <1>6 DEF Ends, EndWaits, EndReads, EndStops, EndAnswers
<1>7. CASE Unwinds \/ ProducersWait
  BY <1>0, <1>7 DEF Unwinds, ProducersWait, EndBegins
<1>8. CASE DecoderEmits \/ DecoderDies \/ Plays
  BY <1>0, <1>8 DEF DecoderEmits, DecoderDies, Plays, PlayWaits, PlayReserves, PlayAnswers
<1>9. CASE SenderBegins \/ SenderSends \/ SenderEnds \/ OthersCommand
  BY <1>0, <1>9 DEF SenderBegins, SenderSends, SenderEnds, OthersCommand
<1>10. CASE UNCHANGED vars
  BY <1>0, <1>10 DEF vars
<1> QED
  BY <1>1, <1>2, <1>3, <1>4, <1>5, <1>6, <1>7, <1>8, <1>9, <1>10 DEF Next

(***************************************************************************)
(* The rest of the invariant.                                              *)
(***************************************************************************)

(* What the invariant says of anything but the queues.                     *)
Skeleton == <<starter, ctx, natives, sockets, chunkLoop, eventLoop, bridge, return, decoder, play,
              playing, latest, unstopped>>

Rest == BridgeInv /\ EndInv /\ NothingLeft

LEMMA QueuesKeepRest == ASSUME IInv, UNCHANGED Skeleton PROVE Rest'
BY DEF Skeleton, Rest, IInv, BridgeInv, EndInv, NothingLeft, NoStream

LEMMA StarterKeepsRest ==
    ASSUME IInv, StartClock \/ Starter \/ CloseCancelsReceiver
                 \/ NativeDies \/ NativesEnd \/ SocketsClose
    PROVE  Rest'
<1> USE DEF IInv, StatesOK, Rest, BridgeInv, EndInv, NothingLeft, NoStream, life, audio, news, inputs,
            stream, speaker, streaming, world, Fail
<1>0. StatesOK
  BY DEF TypeOK
<1>1. CASE StartClock
  BY <1>0, <1>1 DEF StartClock
<1>2. CASE StartReceiver
  BY <1>0, <1>2 DEF StartReceiver
<1>3. CASE Probe
  BY <1>0, <1>3 DEF Probe
<1>4. CASE StartOrCloseReturns
  BY <1>0, <1>4 DEF StartOrCloseReturns, AllReturned
<1>5. CASE CloseCancelsReceiver
  BY <1>0, <1>5 DEF CloseCancelsReceiver
<1>6. CASE NativeDies \/ NativesEnd
  BY <1>0, <1>6 DEF NativeDies, NativesEnd
<1>7. CASE SocketsClose
  BY <1>0, <1>7 DEF SocketsClose
<1> QED
  BY <1>1, <1>2, <1>3, <1>4, <1>5, <1>6, <1>7 DEF Starter

LEMMA ProducersKeepRest == ASSUME IInv, ChunkLoop \/ EventLoop PROVE Rest'
<1> USE DEF IInv, StatesOK, Rest, BridgeInv, EndInv, NothingLeft, NoStream, life, audio, news, inputs,
            stream, speaker, streaming, world
<1>0. StatesOK
  BY DEF TypeOK
<1>1. CASE ChunkLoop
  BY <1>0, <1>1 DEF ChunkLoop, ChunkGoes, ChunksEnd
<1>2. CASE EventLoop
  BY <1>0, <1>2 DEF EventLoop, EventGoes, EventsEnd
<1> QED
  BY <1>1, <1>2

LEMMA BridgeKeepsRest ==
    ASSUME IInv, SelectDone \/ SelectEvent \/ SelectTick \/ SelectChunk \/ WritePacket
                 \/ Ends \/ Unwinds \/ ProducersWait
    PROVE  Rest'
<1> USE DEF IInv, StatesOK, Rest, BridgeInv, EndInv, NothingLeft, NoStream, life, audio, news, inputs,
            stream, speaker, streaming, world, Fail
<1>0. StatesOK
  BY DEF TypeOK
<1>1. CASE SelectDone
  BY <1>0, <1>1 DEF SelectDone
<1>2. CASE SelectEvent
  BY <1>0, <1>2 DEF SelectEvent, EndBegins
<1>3. CASE SelectTick
  BY <1>0, <1>3 DEF SelectTick, EndBegins
<1>4. CASE SelectChunk
  BY <1>0, <1>4 DEF SelectChunk
<1>5. CASE WritePacket
  BY <1>0, <1>5 DEF WritePacket
<1>6. CASE EndWaits
  BY <1>0, <1>6 DEF EndWaits, PlayDone
<1>7. CASE EndReads
  BY <1>0, <1>7 DEF EndReads
<1>8. CASE EndStops
  BY <1>0, <1>8 DEF EndStops
<1>9. CASE EndAnswers
  BY <1>0, <1>9 DEF EndAnswers
<1>10. CASE Unwinds
  BY <1>0, <1>10 DEF Unwinds, EndBegins
<1>11. CASE ProducersWait
  BY <1>0, <1>11 DEF ProducersWait
<1> QED
  BY <1>1, <1>2, <1>3, <1>4, <1>5, <1>6, <1>7, <1>8, <1>9, <1>10, <1>11 DEF Ends

LEMMA StreamKeepsRest ==
    ASSUME IInv, DecoderEmits \/ DecoderDies \/ Plays \/ OthersCommand
    PROVE  Rest'
<1> USE DEF IInv, StatesOK, Rest, BridgeInv, EndInv, NothingLeft, NoStream, life, audio, news, inputs,
            stream, speaker, streaming, world, Fail
<1>0. StatesOK
  BY DEF TypeOK
<1>1. CASE DecoderEmits \/ DecoderDies
  BY <1>0, <1>1 DEF DecoderEmits, DecoderDies
<1>2. CASE Plays
  BY <1>0, <1>2 DEF Plays, PlayWaits, PlayReserves, PlayAnswers
<1>3. CASE OthersCommand
  BY <1>0, <1>3 DEF OthersCommand
<1> QED
  BY <1>1, <1>2, <1>3

LEMMA IncidentsStayBounded ==
    ASSUME IInv, [Next]_vars PROVE incidents' \in Nat /\ incidents' <= MaxIncidents
<1>1. incidents' = incidents \/ Incident
  BY DEF Next, StartClock, Starter, StartReceiver, Probe, StartOrCloseReturns,
         CloseCancelsReceiver, NativeDies, NativesEnd, SocketsClose, ChunkLoop, ChunkGoes, ChunksEnd,
         EventLoop, EventGoes, EventsEnd, SelectDone, SelectEvent, SelectTick, SelectChunk,
         WritePacket, Ends, EndWaits, EndReads, EndStops, EndAnswers, Unwinds, ProducersWait,
         DecoderEmits, DecoderDies, Plays, PlayWaits, PlayReserves, PlayAnswers, SenderBegins,
         SenderSends, SenderEnds, OthersCommand, world, vars
<1> QED
  BY <1>1, BoundAssumption DEF Incident, IInv, TypeOK

LEMMA StepKeepsIInv == ASSUME IInv, [Next]_vars PROVE IInv'
<1>1. TypeOK'
  BY QueuesStayOK, StatesStayOK, IncidentsStayBounded DEF IInv, TypeOK
<1>2. SenderBegins \/ SenderSends \/ SenderEnds \/ UNCHANGED vars => UNCHANGED Skeleton
  BY DEF Skeleton, SenderBegins, SenderSends, SenderEnds, vars, life, audio, news, inputs, stream,
         speaker, streaming, world
<1>3. Rest'
  BY <1>2, QueuesKeepRest, StarterKeepsRest, ProducersKeepRest, BridgeKeepsRest, StreamKeepsRest
     DEF Next
<1> QED
  BY <1>1, <1>3 DEF IInv, Rest

(* How the starter, the bridge, its producers, the decoder and the         *)
(* goroutine that plays stand to each other, in every state (receiver.go). *)
THEOREM Invariance == Spec => []IInv
<1> QED
  BY Begins, StepKeepsIInv, PTL DEF Spec

(* Neither the end of a stream nor Close nor a Start that failed leaves    *)
(* anything behind, however the queues, the decoder, the processes and     *)
(* other commands interleave (receiver.go:188-405).                        *)
THEOREM NothingRemains == Spec => []NothingLeft
<1>1. IInv => NothingLeft
  BY DEF IInv
<1> QED
  BY <1>1, Invariance, PTL
=============================================================================
