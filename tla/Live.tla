-------------------------------- MODULE Live --------------------------------
(***************************************************************************)
(* The live audio stream (src/internal/media/proxy.go, Live): a ring into  *)
(* which the decoder writes without ever waiting, and readers, one for     *)
(* each GET of the player, that follow it by absolute offsets.             *)
(*                                                                         *)
(* A reader takes what there is under l.mu, writes it to its client        *)
(* without the lock, and waits for l.changed when there is nothing.  The   *)
(* channels l.changed are numbered: Write closes the current one and makes *)
(* the next, Close closes the current one.                                 *)
(***************************************************************************)
EXTENDS Integers, Sequences

CONSTANTS
    Size,       \* len(l.data) (2 MiB)
    Chunk,      \* what a reader takes at most (32 KiB)
    Readers     \* GET requests

(* NewLive never makes a ring smaller than two chunks.                     *)
ASSUME SizeAssumption == Chunk \in Nat \ {0} /\ Size \in Nat /\ 2 * Chunk <= Size

VARIABLES
    data,       \* l.data
    end,        \* l.end
    changed,    \* the number of the channel l.changed
    closed,     \* l.closed
    reader,     \* the requests
    written     \* history: everything ever written

ring == <<data, end, changed, closed, written>>
liveVars == <<ring, reader>>

NewReader == [pc |-> "none", cursor |-> 0, chunk |-> <<>>, from |-> 0, seen |-> 0, got |-> <<>>]

LiveInit ==
    /\ data = [i \in 0 .. Size - 1 |-> <<>>] /\ end = 0 /\ written = <<>>
    /\ changed = 0 /\ closed = FALSE
    /\ reader = [r \in Readers |-> NewReader]

(***************************************************************************)
(* The decoder's side.                                                     *)
(***************************************************************************)

WriteQuietly == changed                 \* mutant: nobody is woken
NextChannel == changed + 1

(* Only the last Size bytes of a longer p are kept.  Of the ring, cell i   *)
(* gets the last byte of p that falls on it.                               *)
Overwrites(p, i) == {k \in 1 .. Len(p) : (end + k - 1) % Size = i}

Write(p) ==
    /\ ~closed
    /\ data' = [i \in 0 .. Size - 1 |->
         IF Overwrites(p, i) = {} THEN data[i]
         ELSE p[CHOOSE k \in Overwrites(p, i) : \A j \in Overwrites(p, i) : j <= k]]
    /\ end' = end + Len(p)
    /\ written' = written \o p
    /\ changed' = NextChannel
    /\ UNCHANGED <<closed, reader>>

(* The channel is closed with l.closed, and not replaced.                  *)
Close ==
    /\ ~closed
    /\ closed' = TRUE
    /\ UNCHANGED <<data, end, changed, written, reader>>

ChannelClosed(c) == c < changed \/ closed

(***************************************************************************)
(* ServeHTTP.                                                              *)
(***************************************************************************)

Reads(r, record) ==
    /\ reader' = [reader EXCEPT ![r] = record]
    /\ UNCHANGED ring

Connect(r) ==
    /\ reader[r].pc = "none"
    /\ Reads(r, [reader[r] EXCEPT !.pc = "look"])

Oldest == IF end > Size THEN end - Size ELSE 0

(* A reader at the start of a ring that has wrapped skips to the newest    *)
(* chunk.                                                                  *)
Cursor(r) ==
    IF reader[r].cursor = 0 /\ Oldest > 0 THEN end - Chunk ELSE reader[r].cursor

SlowStays(r) == FALSE                   \* mutant: a slow reader is kept
TooSlow(r) == Cursor(r) < Oldest

Least(a, b) == IF a < b THEN a ELSE b
Count(r) == Least(end - Cursor(r), Chunk)

ClosedFirst(r) == closed                \* mutant: the end is seen before the rest
Finished(r) == Count(r) = 0 /\ closed

(* The section under l.mu.                                                 *)
Look(r) ==
    /\ reader[r].pc = "look"
    /\ \/ /\ TooSlow(r)
          /\ Reads(r, [reader[r] EXCEPT !.pc = "dropped"])
       \/ /\ ~TooSlow(r) /\ Finished(r)
          /\ Reads(r, [reader[r] EXCEPT !.pc = "finished"])
       \/ /\ ~TooSlow(r) /\ ~Finished(r)
          /\ Reads(r, [reader[r] EXCEPT
                 !.pc = IF Count(r) = 0 THEN "wait" ELSE "write",
                 !.from = IF reader[r].got = <<>> THEN Cursor(r) ELSE reader[r].from,
                 !.chunk = [k \in 1 .. Count(r) |-> data[(Cursor(r) + k - 1) % Size]],
                 !.cursor = Cursor(r) + Count(r),
                 !.seen = changed])

(* The chunk goes to the client, which may have gone or take it too late.  *)
WriteChunk(r) ==
    /\ reader[r].pc = "write"
    /\ \/ Reads(r, [reader[r] EXCEPT !.pc = "look", !.chunk = <<>>,
                                     !.got = reader[r].got \o reader[r].chunk])
       \/ Reads(r, [reader[r] EXCEPT !.pc = "dropped"])

Wake(r) ==
    /\ reader[r].pc = "wait" /\ ChannelClosed(reader[r].seen)
    /\ Reads(r, [reader[r] EXCEPT !.pc = "look"])

(* 30 s without a byte, or the client has gone.                            *)
GiveUp(r) ==
    /\ reader[r].pc = "wait"
    /\ Reads(r, [reader[r] EXCEPT !.pc = "dropped"])

Reader(r) == Look(r) \/ WriteChunk(r) \/ Wake(r)

(***************************************************************************)
(* Properties.                                                             *)
(***************************************************************************)

(* What a player gets is one unbroken piece of what was written, however   *)
(* far the ring has wrapped meanwhile.                                     *)
OnePiece ==
    \A r \in Readers :
        LET q == reader[r] IN q.got \o q.chunk = SubSeq(written, q.from + 1, q.cursor)

(* A wakeup is never lost: a reader waits for a channel that is open only  *)
(* when it has everything and more may come.                               *)
NoLostWakeup ==
    \A r \in Readers :
        reader[r].pc = "wait" /\ ~ChannelClosed(reader[r].seen)
        => reader[r].cursor = end /\ ~closed

(* The end of the stream is not cut off: a reader that ends because the    *)
(* stream is closed has got everything since it began.                     *)
ClosedIsDrained ==
    \A r \in Readers :
        reader[r].pc = "finished" =>
            closed /\ reader[r].got = SubSeq(written, reader[r].from + 1, end)

(***************************************************************************)
(* The inductive invariant behind them.                                    *)
(***************************************************************************)

LiveTypeOK(Byte) ==
    /\ written \in Seq(Byte) /\ end = Len(written)
    /\ changed \in Nat
    /\ reader \in [Readers -> [pc : {"none", "look", "write", "wait", "finished", "dropped"},
                               cursor : Nat, chunk : Seq(Byte), from : Nat, seen : Nat,
                               got : Seq(Byte)]]

(* The ring holds the last Size bytes that were written.                   *)
RingInv == \A n \in Oldest .. end : n < end => data[n % Size] = written[n + 1]

(* A reader is never ahead of the ring, and holds a chunk only to write it.*)
ReadersInv ==
    \A r \in Readers :
        LET q == reader[r] IN
        /\ q.from <= q.cursor /\ q.cursor <= end /\ q.seen <= changed
        /\ q.pc \notin {"write", "dropped"} => q.chunk = <<>>

LiveInv == RingInv /\ ReadersInv /\ OnePiece /\ NoLostWakeup /\ ClosedIsDrained
=============================================================================
