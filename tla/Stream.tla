------------------------------- MODULE Stream -------------------------------
(***************************************************************************)
(* The way of the audio of an AirPlay session: the sender's packets are    *)
(* put in order (Jitter), written one by one into the pipe of the decoder, *)
(* which is a process that puts out what has come in so far when it likes, *)
(* and end in the ring that the players read (Live).                       *)
(*                                                                         *)
(* The decoder turns a packet into a byte: its number and the FLUSH count, *)
(* which the properties look at.                                           *)
(***************************************************************************)
EXTENDS Jitter, Live

CONSTANT PipeCap    \* what the pipe holds; a full pipe holds up Drain

ASSUME PipeAssumption == PipeCap \in Nat \ {0}

VARIABLES
    pipe,           \* the decoder's input
    session         \* "on", "over" (goroutines and decoder gone)

decoder == <<pipe, session>>
vars == <<jitterVars, liveVars, decoder>>

Init == JitterInit /\ LiveInit /\ pipe = <<>> /\ session = "on"

(* The audio goroutine.                                                    *)
Audio(action) == session = "on" /\ action /\ UNCHANGED <<liveVars, decoder>>

(* Deliver: Drain writes to the pipe (Decoder.WritePacket), or waits there.*)
Deliver ==
    /\ session = "on" /\ Len(pipe) < PipeCap
    /\ DeliverNext
    /\ pipe' = Append(pipe, <<epoch, next>>)
    /\ UNCHANGED <<liveVars, session>>

(* External: ffmpeg writes some of what it has to the ring.                *)
Decode ==
    /\ session = "on" /\ pipe # <<>>
    /\ \E n \in 1 .. Len(pipe) :
         /\ Write(SubSeq(pipe, 1, n))
         /\ pipe' = SubSeq(pipe, n + 1, Len(pipe))
    /\ UNCHANGED <<jitterVars, session>>

(* The session's cleanup: the goroutines and the decoder end, with what    *)
(* they hold, then the stream is closed.                                   *)
SessionEnds ==
    /\ session = "on"
    /\ session' = "over" /\ pipe' = <<>>
    /\ Forget /\ sent' = 0 /\ epoch' = 0 /\ draining' = FALSE
    /\ UNCHANGED liveVars

CloseLive ==
    /\ session = "over"
    /\ Close
    /\ UNCHANGED <<jitterVars, decoder>>

Player(action) == action /\ UNCHANGED <<jitterVars, decoder>>

Next ==
    \/ Audio(Send) \/ Audio(Receive) \/ Audio(Flush)
    \/ Audio(TickDrains) \/ Audio(DrainEnds) \/ Audio(Missing)
    \/ Deliver \/ Decode \/ SessionEnds \/ CloseLive
    \/ \E r \in Readers : Player(Connect(r)) \/ Player(Reader(r)) \/ Player(GiveUp(r))

Spec == Init /\ [][Next]_vars

(* The audio goroutine runs and ffmpeg reads on.  select chooses at random *)
(* among the cases that are ready, and the ticker keeps a tick, so that a  *)
(* flood of packets does not keep the ticks away: strong fairness.         *)
Fairness ==
    /\ SF_vars(Audio(TickDrains)) /\ WF_vars(Audio(DrainEnds)) /\ WF_vars(Audio(Missing))
    /\ WF_vars(Deliver) /\ WF_vars(Decode)

FairSpec == Spec /\ Fairness

(***************************************************************************)
(* Properties.                                                             *)
(***************************************************************************)

Before(a, b) == a[1] < b[1] \/ (a[1] = b[1] /\ a[2] < b[2])

(* What is streamed is in the order of the sender, and nothing twice,      *)
(* however the network reorders, repeats or loses packets; only a FLUSH    *)
(* may go back.                                                            *)
StreamInOrder == \A i \in 1 .. Len(written) - 1 : Before(written[i], written[i + 1])

(* What has arrived does not stay in the buffer: it is played or dropped,  *)
(* even if what should come before it never comes.  (The sender's packets  *)
(* are bounded, so that the buffer empties.)                               *)
BufferMoves == packets # {} ~> packets = {}

(***************************************************************************)
(* The inductive invariant behind StreamInOrder, and all of it.            *)
(***************************************************************************)

Byte == Nat \X Nat

StreamTypeOK ==
    /\ JitterTypeOK /\ LiveTypeOK(Byte)
    /\ pipe \in Seq(Byte) /\ session \in {"on", "over"}

(* What was streamed and what the decoder still holds is in order, and     *)
(* before what the buffer delivers next.                                   *)
Delivered == written \o pipe

OrderInv ==
    /\ \A i, j \in 1 .. Len(Delivered) : i < j => Before(Delivered[i], Delivered[j])
    /\ session = "on" =>
         \A i \in 1 .. Len(Delivered) :
             \/ Delivered[i][1] < epoch
             \/ Delivered[i][1] = epoch /\ Started /\ Delivered[i][2] < next

IInv == StreamTypeOK /\ BufferInv /\ AskInv /\ LiveInv /\ OrderInv
=============================================================================
