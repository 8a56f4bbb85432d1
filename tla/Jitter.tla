------------------------------- MODULE Jitter -------------------------------
(***************************************************************************)
(* How a session puts RTP packets in order (src/internal/airplay/rtp.go,   *)
(* Jitter; server.go, audio).  The audio goroutine takes packets from the  *)
(* channel ss.packets, pushes them one by one into the jitter buffer and   *)
(* drains it after each, and every 10 ms.  The channel, which drops what   *)
(* it has no room for, delays and loses packets just as the network does,  *)
(* and is part of it here.                                                 *)
(*                                                                         *)
(* Sequence numbers are those of the wire, modulo Modulus (2^16), wherever *)
(* the code compares them; the number a packet really has, counted by the  *)
(* sender, stands for it everywhere else.  Payloads are left out.  Times   *)
(* are ages, in ticks; Drain takes the time once, so it stands still while *)
(* Drain runs, even if a write to the decoder blocks.                      *)
(***************************************************************************)
EXTENDS Integers

CONSTANTS
    Modulus,    \* 2^16
    Window,     \* 512
    Patience,   \* ticks in 120 ms: how long a missing packet is waited for
    Again,      \* ticks in 25 ms: how often it is asked for
    LastPacket, \* bound: packets the sender sends
    MaxFlush,   \* bound: FLUSH requests
    Spread,     \* bound: how late one may come, in packets
    None        \* no packet, no gap, no request

Half == Modulus \div 2

ASSUME WireAssumption ==
    /\ Modulus \in Nat /\ Window \in Nat /\ Spread \in Nat
    /\ Modulus > 0 /\ Modulus % 2 = 0 /\ Window < Half /\ Spread <= Half
ASSUME TimeAssumption ==
    Patience \in Nat /\ Again \in Nat /\ Again < Patience /\ None \notin Int
ASSUME BoundAssumption == LastPacket \in Nat /\ MaxFlush \in Nat

VARIABLES
    sent,           \* external: packets the sender has sent; the next one's number
    packets,        \* j.packets; j.started is first # None
    first,          \* the packet the buffer was (re)started with
    next,           \* j.next, as the number it stands for
    gap, requested, \* how long ago the gap was found and a packet asked for
    draining,       \* Drain runs
    epoch,          \* history: FLUSH requests
    asked           \* history: packet next has been asked for

buffer == <<packets, first, next>>
timers == <<gap, requested>>
jitterVars == <<sent, buffer, timers, draining, epoch, asked>>

Started == first # None

JitterInit ==
    /\ sent = 0
    /\ packets = {} /\ first = None /\ next = 0
    /\ gap = None /\ requested = None
    /\ draining = FALSE /\ epoch = 0 /\ asked = FALSE

(* int16(a - b) of two sequence numbers.                                   *)
UnsignedDistance(a, b) == (a - b) % Modulus     \* mutant: uint16
Distance(a, b) ==
    LET d == (a - b) % Modulus IN IF d < Half THEN d ELSE d - Modulus

(***************************************************************************)
(* The sender.                                                             *)
(***************************************************************************)

(* The sender never gets half the numbers ahead of the buffer, which takes *)
(* 4 minutes without a packet.                                             *)
Send ==
    /\ sent < LastPacket
    /\ Started => sent - next < Half
    /\ sent' = sent + 1
    /\ UNCHANGED <<buffer, timers, draining, epoch, asked>>

(***************************************************************************)
(* The audio goroutine: one case of its select, then Drain.                *)
(***************************************************************************)

(* The time that has passed: none, or much if a write had blocked.  Ages   *)
(* beyond Patience are all alike.                                          *)
Aged(age, d) ==
    IF age = None THEN None ELSE IF age + d > Patience THEN Patience ELSE age + d

Late(n) == Started /\ Distance(n, next) < 0
Beyond(n) == Started /\ Distance(n, next) > Window

Restarted(n) == {n}

(* Push: what is behind is late; what is beyond the window restarts the    *)
(* buffer, timers too.                                                     *)
Push(n, d) ==
    \/ /\ Late(n)
       /\ gap' = Aged(gap, d) /\ requested' = Aged(requested, d)
       /\ UNCHANGED <<buffer, asked>>
    \/ /\ ~Late(n) /\ Beyond(n)
       /\ packets' = Restarted(n) /\ next' = n /\ first' = n
       /\ gap' = None /\ requested' = None /\ asked' = FALSE
    \/ /\ ~Late(n) /\ ~Beyond(n)
       /\ packets' = packets \cup {n}
       /\ next' = IF Started THEN next ELSE n
       /\ first' = IF Started THEN first ELSE n
       /\ gap' = Aged(gap, d) /\ requested' = Aged(requested, d)
       /\ UNCHANGED asked

(* A packet arrives, in any order, once, never or often.                   *)
Receive ==
    /\ ~draining
    /\ \E n \in 0 .. sent - 1, d \in 0 .. Patience : n >= sent - Spread /\ Push(n, d)
    /\ draining' = TRUE
    /\ UNCHANGED <<sent, epoch>>

(* A new Jitter{}.                                                         *)
Forget ==
    /\ packets' = {} /\ first' = None /\ next' = 0
    /\ gap' = None /\ requested' = None /\ asked' = FALSE

Flush ==
    /\ ~draining /\ epoch < MaxFlush
    /\ Forget
    /\ epoch' = epoch + 1
    /\ draining' = TRUE
    /\ UNCHANGED sent

(* A tick of the 10 ms ticker.                                             *)
TickDrains ==
    /\ ~draining
    /\ \E d \in 1 .. Patience :
         gap' = Aged(gap, d) /\ requested' = Aged(requested, d)
    /\ draining' = TRUE
    /\ UNCHANGED <<sent, buffer, epoch, asked>>

(* Drain, one turn of its loop after the other.                            *)
DeliverNext ==
    /\ draining /\ Started /\ next \in packets
    /\ packets' = packets \ {next} /\ next' = next + 1
    /\ gap' = None /\ asked' = FALSE
    /\ UNCHANGED <<sent, first, requested, draining, epoch>>

DrainEnds ==
    /\ draining /\ (~Started \/ packets = {})
    /\ gap' = IF Started THEN None ELSE gap
    /\ draining' = FALSE
    /\ UNCHANGED <<sent, buffer, requested, epoch, asked>>

IsMissing == draining /\ Started /\ next \notin packets /\ packets # {}

Asks == requested = None \/ requested > Again

GapRestarts == 0                        \* mutant: the gap begins anew each time
GapAge == IF gap = None THEN 0 ELSE gap
Skips == GapAge >= Patience

SkipKeepsGap == GapAge                  \* mutant: later packets are not waited for
GapAfterSkip == 0

(* The packet is missing: it is asked for now and then, and skipped after  *)
(* Patience.                                                               *)
Missing ==
    /\ IsMissing
    /\ requested' = IF Asks THEN 0 ELSE requested
    /\ IF Skips
       THEN /\ next' = next + 1 /\ gap' = GapAfterSkip /\ asked' = FALSE
            /\ UNCHANGED draining
       ELSE /\ gap' = GapAge /\ draining' = FALSE /\ asked' = (asked \/ Asks)
            /\ UNCHANGED next
    /\ UNCHANGED <<sent, packets, first, epoch>>

Drains == DeliverNext \/ DrainEnds \/ Missing

JitterNext == Send \/ Receive \/ Flush \/ TickDrains \/ Drains

JitterSpec == JitterInit /\ [][JitterNext]_jitterVars

(***************************************************************************)
(* Properties.                                                             *)
(***************************************************************************)

(* rtp.go:54, "plus retransmission requests": no packet's 120 ms end       *)
(* before it was asked for, however long the goroutine has been held up.   *)
(* (A packet beyond the window restarts the buffer, and what was missing   *)
(* then is given up unasked.)                                              *)
AskedBeforeSkipped == IsMissing /\ Skips => asked \/ Asks

(***************************************************************************)
(* The inductive invariant behind it.                                      *)
(***************************************************************************)

JitterTypeOK ==
    /\ sent \in Nat /\ epoch \in Nat
    /\ next \in Nat /\ first \in Nat \cup {None} /\ packets \subseteq Nat
    /\ gap \in Nat \cup {None} /\ requested \in Nat \cup {None}

(* The buffer holds packets to come, and next is near enough to the        *)
(* sender for the wire's numbers to tell what is behind from what is ahead.*)
BufferInv ==
    /\ Started => next <= sent /\ sent - next <= Half
    /\ \A n \in packets : Started /\ next <= n /\ n < sent

(* A packet that is missed and was not asked for is asked for before its   *)
(* time is up: the last request is older than the gap.                     *)
AskInv == gap # None /\ ~asked => requested = None \/ requested >= gap
=============================================================================
