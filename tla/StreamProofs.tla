---------------------------- MODULE StreamProofs ----------------------------
(***************************************************************************)
(* Proofs about Jitter, Live and Stream, for sequence numbers, windows,    *)
(* rings and chunks of any size, any number of packets and of readers.     *)
(***************************************************************************)
EXTENDS Stream, SequenceTheorems, TLAPS

(***************************************************************************)
(* Arithmetic of the wire and of the ring.                                 *)
(***************************************************************************)

LEMMA Division ==
    ASSUME NEW m \in Nat \ {0}, NEW a \in Int
    PROVE  a = m * (a \div m) + (a % m) /\ a \div m \in Int /\ a % m \in 0 .. m - 1
<1>1. a = m * (a \div m) + (a % m)
  BY SMTT(30)
<1>2. a \div m \in Int /\ a % m \in 0 .. m - 1
  BY SMTT(30)
<1> QED
  BY <1>1, <1>2

LEMMA Remainder == ASSUME NEW m \in Nat \ {0}, NEW a \in Int PROVE a % m \in 0 .. m - 1
BY Division

LEMMA Multiples ==
    ASSUME NEW m \in Nat \ {0}, NEW p \in Int, NEW q \in Int, p < q
    PROVE  m * q >= m * p + m
<1>1. q - p >= 1
  OBVIOUS
<1>2. m * (q - p) >= m * 1
  BY <1>1, SMTT(30)
<1>3. m * (q - p) = m * q - m * p
  BY SMTT(30)
<1> QED
  BY <1>1, <1>2, <1>3

(* Numbers less than m apart fall on different cells of a ring of m.       *)
LEMMA CellsDiffer ==
    ASSUME NEW m \in Nat \ {0}, NEW a \in Int, NEW b \in Int, a < b, b < a + m
    PROVE  a % m # b % m
<1> DEFINE p == a \div m
           q == b \div m
<1>1. a = m * p + (a % m) /\ b = m * q + (b % m)
  BY Division
<1>2. p \in Int /\ q \in Int /\ a % m \in Int /\ b % m \in Int
  BY Division
<1>3. p < q => m * q >= m * p + m
  BY <1>2, Multiples
<1>4. q < p => m * p >= m * q + m
  BY <1>2, Multiples
<1>5. m * p \in Int /\ m * q \in Int
  BY <1>2
<1>6. p = q => m * p = m * q
  OBVIOUS
<1> HIDE DEF p, q
<1> QED
  BY <1>1, <1>2, <1>3, <1>4, <1>5, <1>6

LEMMA HalfIsHalf == Half \in Nat /\ Modulus = 2 * Half /\ Modulus \in Nat \ {0}
<1>1. Modulus \in Nat \ {0} /\ Modulus % 2 = 0
  BY WireAssumption
<1>2. Modulus = 2 * (Modulus \div 2) + (Modulus % 2) /\ Modulus \div 2 \in Int
  BY <1>1, Division
<1> QED
  BY <1>1, <1>2 DEF Half

(* The wire's numbers tell the distance of packets less than half the      *)
(* numbers apart.                                                          *)
LEMMA DistanceIsDifference ==
    ASSUME NEW a \in Int, NEW b \in Int, -Half <= a - b, a - b < Half
    PROVE  Distance(a, b) = a - b
<1> DEFINE d == a - b
<1>1. d \in Int /\ Half \in Nat /\ Modulus \in Nat \ {0} /\ Modulus = 2 * Half
  BY HalfIsHalf
<1>2. CASE d >= 0
  <2>1. d % Modulus = d
    BY <1>1, <1>2
  <2> QED
    BY <1>1, <1>2, <2>1 DEF Distance
<1>3. CASE d < 0
  <2>1. d % Modulus = d + Modulus
    BY <1>1, <1>3
  <2> QED
    BY <1>1, <1>3, <2>1 DEF Distance
<1> QED
  BY <1>1, <1>2, <1>3

(***************************************************************************)
(* Jitter.                                                                 *)
(***************************************************************************)

JitterInv == JitterTypeOK /\ BufferInv /\ AskInv

LEMMA JitterBegins == JitterInit => JitterInv
BY DEF JitterInit, JitterInv, JitterTypeOK, BufferInv, AskInv, Started

(* Which packets are behind what the buffer delivers next.                 *)
LEMMA LateIsBehind ==
    ASSUME JitterInv, NEW n \in 0 .. sent - 1, n >= sent - Spread, Started
    PROVE  /\ Late(n) <=> n < next
           /\ Beyond(n) <=> n > next + Window
<1>1. Spread \in Nat /\ Spread <= Half /\ Half \in Nat
  BY WireAssumption, HalfIsHalf
<1>2. sent \in Nat /\ next \in Nat /\ next <= sent /\ sent - next <= Half
  BY DEF JitterInv, JitterTypeOK, BufferInv
<1>3. -Half <= n - next /\ n - next < Half
  BY <1>1, <1>2
<1>4. Distance(n, next) = n - next
  BY <1>1, <1>2, <1>3, DistanceIsDifference
<1>5. Window \in Nat
  BY WireAssumption
<1> QED
  BY <1>2, <1>4, <1>5 DEF Late, Beyond

LEMMA AgedProperties ==
    ASSUME NEW a \in Nat \cup {None}, NEW b \in Nat \cup {None}, NEW d \in Nat
    PROVE  /\ Aged(a, d) \in Nat \cup {None}
           /\ Aged(a, d) = None <=> a = None
           /\ b # None /\ (a = None \/ a >= b) => Aged(a, d) = None \/ Aged(a, d) >= Aged(b, d)
BY TimeAssumption DEF Aged

LEMMA PassingTimeKeepsAskInv ==
    ASSUME JitterInv, NEW d \in Nat,
           gap' = Aged(gap, d), requested' = Aged(requested, d), asked' = asked
    PROVE  AskInv' /\ gap' \in Nat \cup {None} /\ requested' \in Nat \cup {None}
<1>1. gap \in Nat \cup {None} /\ requested \in Nat \cup {None}
  BY DEF JitterInv, JitterTypeOK
<1> QED
  BY <1>1, AgedProperties DEF JitterInv, AskInv

LEMMA PushKeepsJitterInv ==
    ASSUME JitterInv, NEW n \in 0 .. sent - 1, NEW d \in 0 .. Patience, n >= sent - Spread,
           Push(n, d), UNCHANGED <<sent, epoch>>, draining' = TRUE
    PROVE  JitterInv'
<1> USE DEF JitterInv, JitterTypeOK, BufferInv, Started
<1>1. /\ Spread \in Nat /\ Spread <= Half /\ Half \in Nat /\ d \in Nat /\ n \in Nat
      /\ Window \in Nat /\ None \notin Int
  BY WireAssumption, TimeAssumption, HalfIsHalf
<1>2. CASE Late(n)
  <2>1. n < next /\ Started
    BY <1>2, LateIsBehind DEF Late
  <2> QED
    BY <1>1, <1>2, PassingTimeKeepsAskInv DEF Push, buffer
<1>3. CASE ~Late(n) /\ Beyond(n)
  BY <1>1, <1>3 DEF Push, Restarted, AskInv
<1>4. CASE ~Late(n) /\ ~Beyond(n)
  <2>1. Started => next <= n
    BY <1>1, <1>4, LateIsBehind
  <2>2. BufferInv'
    <3>1. packets' = packets \cup {n} /\ sent' = sent /\ n < sent
      BY <1>4 DEF Push
    <3>2. CASE Started
      <4>1. next' = next /\ first' = first
        BY <1>4, <3>2 DEF Push
      <4> QED
        BY <2>1, <3>1, <3>2, <4>1
    <3>3. CASE ~Started
      <4>1. next' = n /\ first' = n /\ packets = {}
        BY <1>4, <3>3 DEF Push
      <4> QED
        BY <1>1, <3>1, <4>1
    <3> QED
      BY <3>2, <3>3
  <2>3. gap' = Aged(gap, d) /\ requested' = Aged(requested, d) /\ asked' = asked
    BY <1>4 DEF Push
  <2>4. AskInv' /\ gap' \in Nat \cup {None} /\ requested' \in Nat \cup {None}
    BY <1>1, <2>3, PassingTimeKeepsAskInv
  <2>5. next' \in Nat /\ first' \in Nat \cup {None} /\ packets' \subseteq Nat
    BY <1>1, <1>4 DEF Push
  <2> QED
    BY <1>1, <2>2, <2>4, <2>5
<1> QED
  BY <1>2, <1>3, <1>4

LEMMA JitterStepKeepsJitterInv == ASSUME JitterInv, JitterNext PROVE JitterInv'
<1> USE DEF JitterInv, JitterTypeOK, BufferInv, Started
<1>1. None \notin Int /\ Half \in Nat /\ Patience \in Nat
  BY TimeAssumption, HalfIsHalf
<1>2. CASE Send
  BY <1>1, <1>2 DEF Send, buffer, timers, AskInv
<1>3. CASE Receive
  BY <1>3, PushKeepsJitterInv DEF Receive
<1>4. CASE Flush
  BY <1>1, <1>4 DEF Flush, Forget, AskInv
<1>5. CASE TickDrains
  <2>1. PICK d \in 1 .. Patience : gap' = Aged(gap, d) /\ requested' = Aged(requested, d)
    BY <1>5 DEF TickDrains
  <2>2. d \in Nat
    BY <1>1
  <2> QED
    BY <1>5, <2>1, <2>2, PassingTimeKeepsAskInv DEF TickDrains, buffer
<1>6. CASE DeliverNext
  BY <1>1, <1>6 DEF DeliverNext, AskInv
<1>7. CASE DrainEnds
  BY <1>1, <1>7 DEF DrainEnds, buffer, AskInv
<1>8. CASE Missing
  <2>1. PICK n \in packets : next <= n /\ n < sent
    BY <1>8 DEF Missing, IsMissing
  <2>2. next + 1 <= n /\ \A m \in packets : next + 1 <= m
    BY <1>8, <2>1 DEF Missing, IsMissing
  <2>3. BufferInv' /\ next' \in Nat
    BY <1>1, <1>8, <2>1, <2>2 DEF Missing
  <2>4. GapAge \in Nat /\ (gap # None => GapAge = gap) /\ (gap = None => GapAge = 0)
    BY <1>1 DEF GapAge
  <2>5. gap' \in Nat \cup {None} /\ requested' \in Nat \cup {None}
    BY <1>8, <2>4 DEF Missing, GapAfterSkip, Asks
  <2>6. AskInv'
    <3>1. Again \in Nat
      BY TimeAssumption
    <3>2. CASE Skips
      BY <1>1, <1>8, <3>1, <3>2 DEF Missing, GapAfterSkip, Asks, AskInv
    <3>3. CASE ~Skips /\ ~(asked \/ Asks)
      BY <1>1, <1>8, <2>4, <3>1, <3>3 DEF Missing, Asks, AskInv
    <3>4. CASE ~Skips /\ (asked \/ Asks)
      BY <1>8, <3>4 DEF Missing, AskInv
    <3> QED
      BY <3>2, <3>3, <3>4
  <2> QED
    BY <1>8, <2>3, <2>5, <2>6 DEF Missing
<1> QED
  BY <1>2, <1>3, <1>4, <1>5, <1>6, <1>7, <1>8 DEF JitterNext, Drains

LEMMA JitterInvAsksBeforeItSkips == JitterInv => AskedBeforeSkipped
BY TimeAssumption DEF JitterInv, JitterTypeOK, AskInv, AskedBeforeSkipped, Asks, Skips, GapAge
(***************************************************************************)
(* Live.                                                                   *)
(***************************************************************************)

LEMMA PieceLength ==
    ASSUME NEW B, NEW s \in Seq(B), NEW i \in Nat, NEW j \in Nat, i <= j, j <= Len(s)
    PROVE  /\ SubSeq(s, i + 1, j) \in Seq(B)
           /\ Len(SubSeq(s, i + 1, j)) = j - i
           /\ \A k \in 1 .. j - i : SubSeq(s, i + 1, j)[k] = s[i + k]
<1>1. Len(s) \in Nat /\ \A k \in 1 .. Len(s) : s[k] \in B
  BY LenProperties, ElementOfSeq
<1>2. \A k \in i + 1 .. j : s[k] \in B
  BY <1>1
<1> QED
  BY <1>2, SubSeqProperties

LEMMA SizeIsPositive == Size \in Nat \ {0} /\ Chunk \in Nat \ {0} /\ 2 * Chunk <= Size
BY SizeAssumption

LEMMA LiveBegins == ASSUME NEW B PROVE LiveInit => LiveTypeOK(B) /\ LiveInv
<1> SUFFICES ASSUME LiveInit PROVE LiveTypeOK(B) /\ LiveInv
  OBVIOUS
<1>1. <<>> \in Seq(B) /\ Len(<<>>) = 0 /\ <<>> \o <<>> = <<>>
  BY EmptySeq, ConcatEmptySeq
<1>2. LiveTypeOK(B)
  BY <1>1 DEF LiveInit, LiveTypeOK, NewReader
<1>3. RingInv
  <2>1. Oldest = 0 /\ end = 0
    BY SizeIsPositive DEF LiveInit, Oldest
  <2> QED
    BY <2>1 DEF RingInv
<1>4. \A r \in Readers : reader[r] = NewReader
  BY DEF LiveInit
<1>5. ReadersInv /\ NoLostWakeup /\ ClosedIsDrained
  BY <1>4 DEF LiveInit, NewReader, ReadersInv, NoLostWakeup, ClosedIsDrained
<1>6. SubSeq(<<>>, 1, 0) = <<>>
  BY SubSeqEmpty
<1>7. OnePiece
  BY <1>1, <1>4, <1>6 DEF LiveInit, NewReader, OnePiece
<1> QED
  BY <1>2, <1>3, <1>5, <1>7 DEF LiveInv

(* What is written stays: a piece of it is the same when more is written.  *)
LEMMA PieceStays ==
    ASSUME NEW B, NEW s \in Seq(B), NEW t \in Seq(B), NEW i \in Nat, NEW j \in Nat,
           i <= j, j <= Len(s)
    PROVE  SubSeq(s \o t, i + 1, j) = SubSeq(s, i + 1, j)
<1>1. Len(s) \in Nat
  BY LenProperties
<1>2. CASE i = j
  BY <1>2, SubSeqEmpty
<1>3. CASE i < j
  BY <1>1, <1>3, SubSeqOfConcat1
<1> QED
  BY <1>2, <1>3

LEMMA WriteKeepsRingInv ==
    ASSUME NEW B, LiveTypeOK(B), RingInv, NEW p \in Seq(B), Write(p)
    PROVE  RingInv'
<1>1. /\ written \in Seq(B) /\ end = Len(written) /\ end \in Nat /\ Len(p) \in Nat
      /\ Size \in Nat \ {0}
  BY LenProperties, SizeIsPositive DEF LiveTypeOK
<1>2. end' = end + Len(p) /\ written' = written \o p
  BY DEF Write
<1>3. data' = [i \in 0 .. Size - 1 |->
         IF Overwrites(p, i) = {} THEN data[i]
         ELSE p[CHOOSE k \in Overwrites(p, i) : \A j \in Overwrites(p, i) : j <= k]]
  BY DEF Write
<1> SUFFICES ASSUME NEW n \in Oldest' .. end', n < end'
             PROVE  data'[n % Size] = written'[n + 1]
  BY DEF RingInv
<1>4. /\ n \in Nat /\ n < end' /\ end' <= n + Size /\ Oldest <= n
      /\ n % Size \in 0 .. Size - 1
  <2> DEFINE e == end'
             o == Oldest'
  <2>1. end' \in Nat /\ end <= end' /\ Size \in Nat
    BY <1>1, <1>2
  <2>2. n \in Nat /\ n < end' /\ end' <= n + Size
    <3>1. o = IF e > Size THEN e - Size ELSE 0
      BY Zenon DEF Oldest
    <3>2. e \in Nat /\ n \in o .. e /\ n < e
      BY <2>1
    <3>3. n \in Nat /\ n < e /\ e <= n + Size
      <4> HIDE DEF e, o
      <4>1. CASE e > Size
        BY <2>1, <3>1, <3>2, <4>1
      <4>2. CASE ~(e > Size)
        BY <2>1, <3>1, <3>2, <4>2
      <4> QED
        BY <4>1, <4>2
    <3> QED
      BY <3>3
  <2>3. Oldest <= n
    <3>1. CASE end > Size
      <4>1. Oldest = end - Size
        BY <3>1 DEF Oldest
      <4> QED
        BY <1>1, <2>1, <2>2, <4>1
    <3>2. CASE ~(end > Size)
      <4>1. Oldest = 0
        BY <3>2 DEF Oldest
      <4> QED
        BY <2>2, <4>1
    <3> QED
      BY <3>1, <3>2
  <2>4. n % Size \in 0 .. Size - 1
    <3>1. n \in Int /\ Size \in Nat \ {0}
      BY <1>1, <2>2
    <3> QED
      BY <3>1, Remainder
  <2> QED
    BY <2>2, <2>3, <2>4
<1>5. \A k \in Overwrites(p, n % Size) : k \in 1 .. Len(p) /\ (end + k - 1) % Size = n % Size
  BY DEF Overwrites
<1>6. \A k \in Overwrites(p, n % Size) : end + k - 1 <= n
  <2> SUFFICES ASSUME NEW k \in Overwrites(p, n % Size), n < end + k - 1 PROVE FALSE
    BY <1>1, <1>4, <1>5
  <2> QED
    BY <1>1, <1>2, <1>4, <1>5, CellsDiffer
<1>7. CASE n < end
  <2>1. Overwrites(p, n % Size) = {}
    BY <1>1, <1>5, <1>6, <1>7
  <2>2. data'[n % Size] = data[n % Size]
    BY <1>3, <1>4, <2>1
  <2>3. data[n % Size] = written[n + 1]
    BY <1>1, <1>4, <1>7 DEF RingInv, Oldest
  <2>4. written'[n + 1] = written[n + 1]
    BY <1>1, <1>2, <1>4, <1>7, ConcatProperties
  <2> QED
    BY <2>2, <2>3, <2>4
<1>8. CASE end <= n
  <2> DEFINE k == n - end + 1
  <2>1. k \in 1 .. Len(p) /\ end + k - 1 = n
    BY <1>1, <1>2, <1>4, <1>8
  <2>2. k \in Overwrites(p, n % Size) /\ \A j \in Overwrites(p, n % Size) : j <= k
    BY <1>1, <1>4, <1>5, <1>6, <2>1 DEF Overwrites
  <2>3. (CHOOSE m \in Overwrites(p, n % Size) : \A j \in Overwrites(p, n % Size) : j <= m) = k
    BY <1>5, <2>1, <2>2
  <2>4. data'[n % Size] = p[k]
    BY <1>3, <1>4, <2>2, <2>3
  <2>5. written'[n + 1] = p[k]
    BY <1>1, <1>2, <1>4, <1>8, ConcatProperties
  <2> QED
    BY <2>4, <2>5
<1> QED
  BY <1>1, <1>4, <1>7, <1>8

LEMMA WriteKeepsLiveInv ==
    ASSUME NEW B, LiveTypeOK(B), LiveInv, NEW p \in Seq(B), Write(p)
    PROVE  LiveTypeOK(B)' /\ LiveInv'
<1>1. /\ written \in Seq(B) /\ end = Len(written) /\ end \in Nat /\ Len(p) \in Nat
      /\ changed \in Nat
  BY LenProperties DEF LiveTypeOK
<1>2. /\ ~closed /\ end' = end + Len(p) /\ written' = written \o p /\ changed' = changed + 1
      /\ closed' = closed /\ reader' = reader
  BY DEF Write, NextChannel
<1>3. LiveTypeOK(B)'
  BY <1>1, <1>2, ConcatProperties DEF LiveTypeOK
<1>4. ASSUME NEW r \in Readers
      PROVE  /\ reader[r].from \in Nat /\ reader[r].cursor \in Nat /\ reader[r].seen \in Nat
             /\ reader[r].from <= reader[r].cursor /\ reader[r].cursor <= end
             /\ reader[r].seen <= changed
  BY DEF LiveTypeOK, LiveInv, ReadersInv
<1>5. ReadersInv'
  BY <1>1, <1>2, <1>4 DEF LiveInv, ReadersInv
<1>6. OnePiece'
  <2> SUFFICES ASSUME NEW r \in Readers
               PROVE  reader[r].got \o reader[r].chunk
                      = SubSeq(written \o p, reader[r].from + 1, reader[r].cursor)
    BY <1>2 DEF OnePiece
  <2>1. SubSeq(written \o p, reader[r].from + 1, reader[r].cursor)
        = SubSeq(written, reader[r].from + 1, reader[r].cursor)
    <3> DEFINE i == reader[r].from
               j == reader[r].cursor
    <3>1. i \in Nat /\ j \in Nat /\ i <= j /\ j <= Len(written) /\ written \in Seq(B)
      BY <1>1, <1>4
    <3>2. SubSeq(written \o p, i + 1, j) = SubSeq(written, i + 1, j)
      <4> HIDE DEF i, j
      <4> QED
        BY <3>1, PieceStays
    <3> QED
      BY <3>2
  <2>2. reader[r].got \o reader[r].chunk
        = SubSeq(written, reader[r].from + 1, reader[r].cursor)
    BY DEF LiveInv, OnePiece
  <2> QED
    BY <2>1, <2>2
<1>7. NoLostWakeup'
  <2>1. \A r \in Readers : reader'[r].seen < changed'
    BY <1>1, <1>2, <1>4
  <2> QED
    BY <2>1 DEF NoLostWakeup, ChannelClosed
<1>8. ClosedIsDrained'
  BY <1>2 DEF LiveInv, ClosedIsDrained
<1> QED
  BY <1>3, <1>5, <1>6, <1>7, <1>8, WriteKeepsRingInv DEF LiveInv

LEMMA CloseKeepsLiveInv ==
    ASSUME NEW B, LiveTypeOK(B), LiveInv, Close
    PROVE  LiveTypeOK(B)' /\ LiveInv'
<1>1. LiveTypeOK(B)'
  BY DEF LiveTypeOK, Close
<1>2. RingInv'
  BY DEF LiveInv, Close, RingInv, Oldest
<1>3. ReadersInv'
  BY DEF LiveInv, Close, ReadersInv
<1>4. OnePiece'
  BY DEF LiveInv, Close, OnePiece
<1>5. NoLostWakeup'
  BY DEF Close, NoLostWakeup, ChannelClosed
<1>6. ClosedIsDrained'
  BY DEF LiveInv, Close, ClosedIsDrained
<1> QED
  BY <1>1, <1>2, <1>3, <1>4, <1>5, <1>6 DEF LiveInv
(* What Look sees, at the cursor it looks from.                            *)
LEMMA LookSees ==
    ASSUME NEW B, LiveTypeOK(B), LiveInv, NEW r \in Readers, reader[r].pc = "look", ~TooSlow(r)
    PROVE  /\ Cursor(r) \in Nat /\ Count(r) \in Nat /\ Oldest <= Cursor(r)
           /\ Cursor(r) + Count(r) <= end
           /\ reader[r].chunk = <<>>
           /\ reader[r].got = SubSeq(written, reader[r].from + 1, reader[r].cursor)
           /\ reader[r].got = <<>> <=> reader[r].from = reader[r].cursor
           /\ Cursor(r) = reader[r].cursor \/ (reader[r].got = <<>> /\ Count(r) # 0)
           /\ Count(r) = 0 => Cursor(r) = end
<1> DEFINE q == reader[r]
<1>1. /\ written \in Seq(B) /\ end = Len(written) /\ end \in Nat
      /\ q.cursor \in Nat /\ q.from \in Nat /\ q.got \in Seq(B) /\ q.chunk \in Seq(B)
  BY LenProperties DEF LiveTypeOK
<1>2. q.from <= q.cursor /\ q.cursor <= end /\ q.chunk = <<>>
  BY DEF LiveInv, ReadersInv
<1>3. q.got = SubSeq(written, q.from + 1, q.cursor)
  <2>1. q.got \o q.chunk = SubSeq(written, q.from + 1, q.cursor)
    BY DEF LiveInv, OnePiece
  <2> QED
    BY <1>1, <1>2, <2>1, ConcatEmptySeq
<1>4. q.got = <<>> <=> q.from = q.cursor
  <2>1. CASE q.from = q.cursor
    BY <1>1, <1>3, <2>1, SubSeqEmpty
  <2>2. CASE q.from # q.cursor
    <3>1. Len(q.got) # 0
      BY <1>1, <1>2, <1>3, <2>2, PieceLength
    <3>2. Len(<<>>) = 0
      OBVIOUS
    <3> QED
      BY <3>1, <3>2, <2>2
  <2> QED
    BY <2>1, <2>2
<1>5. Oldest \in Nat /\ (Oldest > 0 => end > 2 * Chunk)
  BY <1>1, SizeIsPositive DEF Oldest
<1>6. CASE q.cursor = 0 /\ Oldest > 0
  <2>1. Cursor(r) = end - Chunk
    BY <1>6 DEF Cursor
  <2>2. Count(r) = Chunk
    BY <1>1, <2>1, SizeIsPositive DEF Count, Least
  <2>3. q.got = <<>>
    <3>1. q.from = q.cursor
      BY <1>1, <1>2, <1>6
    <3> QED
      BY <1>4, <3>1
  <2>4. Oldest <= Cursor(r)
    BY <1>1, <1>5, <1>6, <2>1, SizeIsPositive DEF Oldest
  <2>5. Cursor(r) \in Nat /\ Count(r) \in Nat /\ Cursor(r) + Count(r) <= end /\ Count(r) # 0
    BY <1>1, <1>5, <1>6, <2>1, <2>2, SizeIsPositive
  <2> QED
    BY <1>2, <1>3, <1>4, <2>3, <2>4, <2>5
<1>7. CASE ~(q.cursor = 0 /\ Oldest > 0)
  <2>1. Cursor(r) = q.cursor
    BY <1>7 DEF Cursor
  <2>2. Oldest <= q.cursor
    BY <1>1, <1>5, <2>1 DEF TooSlow
  <2>3. Count(r) \in Nat /\ q.cursor + Count(r) <= end /\ (Count(r) = 0 => q.cursor = end)
    BY <1>1, <1>2, <2>1, SizeIsPositive DEF Count, Least
  <2>4. Cursor(r) \in Nat /\ Oldest <= Cursor(r) /\ Cursor(r) + Count(r) <= end
    BY <1>1, <2>1, <2>2, <2>3
  <2>5. Count(r) = 0 => Cursor(r) = end
    BY <2>1, <2>3
  <2> QED
    BY <1>2, <1>3, <1>4, <2>1, <2>3, <2>4, <2>5
<1> QED
  BY <1>6, <1>7
(* What the invariant says of one reader.                                  *)
Record(B) ==
    [pc : {"none", "look", "write", "wait", "finished", "dropped"},
     cursor : Nat, chunk : Seq(B), from : Nat, seen : Nat, got : Seq(B)]

RecordOK(q) ==
    /\ q.from <= q.cursor /\ q.cursor <= end /\ q.seen <= changed
    /\ q.pc \notin {"write", "dropped"} => q.chunk = <<>>
    /\ q.got \o q.chunk = SubSeq(written, q.from + 1, q.cursor)
    /\ q.pc = "wait" /\ ~ChannelClosed(q.seen) => q.cursor = end /\ ~closed
    /\ q.pc = "finished" => closed /\ q.got = SubSeq(written, q.from + 1, end)

LEMMA ReadersOK ==
    ASSUME NEW B, LiveTypeOK(B), LiveInv, NEW r \in Readers
    PROVE  reader[r] \in Record(B) /\ RecordOK(reader[r])
<1>1. reader[r] \in Record(B)
  BY DEF LiveTypeOK, Record
<1>2. RecordOK(reader[r])
  BY DEF LiveInv, ReadersInv, OnePiece, NoLostWakeup, ClosedIsDrained, RecordOK
<1> QED
  BY <1>1, <1>2

LEMMA ReadsKeepsLiveInv ==
    ASSUME NEW B, LiveTypeOK(B), LiveInv, NEW r \in Readers, NEW q \in Record(B), RecordOK(q),
           Reads(r, q)
    PROVE  LiveTypeOK(B)' /\ LiveInv'
<1>1. /\ reader' = [reader EXCEPT ![r] = q] /\ data' = data /\ end' = end /\ changed' = changed
      /\ closed' = closed /\ written' = written
  BY DEF Reads, ring
<1>2. reader' \in [Readers -> Record(B)]
  BY <1>1 DEF LiveTypeOK, Record
<1>3. LiveTypeOK(B)'
  BY <1>1, <1>2 DEF LiveTypeOK, Record
<1>4. \A s \in Readers : RecordOK(reader'[s])
  <2> TAKE s \in Readers
  <2>1. RecordOK(reader[s])
    BY ReadersOK
  <2>2. reader'[s] = IF s = r THEN q ELSE reader[s]
    BY <1>1 DEF LiveTypeOK
  <2> QED
    BY <2>1, <2>2
<1>5. RingInv'
  BY <1>1 DEF LiveInv, RingInv, Oldest
<1>6. ReadersInv'
  BY <1>1, <1>4 DEF ReadersInv, RecordOK
<1>7. OnePiece'
  BY <1>1, <1>4 DEF OnePiece, RecordOK
<1>8. NoLostWakeup' /\ ClosedIsDrained'
  BY <1>1, <1>4 DEF NoLostWakeup, ClosedIsDrained, RecordOK, ChannelClosed
<1> QED
  BY <1>3, <1>5, <1>6, <1>7, <1>8 DEF LiveInv

(* What a reader takes from the ring is the piece of the stream it asks    *)
(* for.                                                                    *)
LEMMA ChunkIsPiece ==
    ASSUME NEW B, LiveTypeOK(B), LiveInv, NEW c \in Nat, NEW m \in Nat, Oldest <= c, c + m <= end
    PROVE  /\ [k \in 1 .. m |-> data[(c + k - 1) % Size]] = SubSeq(written, c + 1, c + m)
           /\ SubSeq(written, c + 1, c + m) \in Seq(B)
<1> DEFINE chunk == [k \in 1 .. m |-> data[(c + k - 1) % Size]]
           piece == SubSeq(written, c + 1, c + m)
<1>1. written \in Seq(B) /\ end = Len(written) /\ end \in Nat /\ Oldest \in Nat
  <2>1. written \in Seq(B) /\ end = Len(written) /\ end \in Nat
    BY LenProperties DEF LiveTypeOK
  <2> QED
    BY <2>1, SizeIsPositive DEF Oldest
<1>2. piece \in Seq(B) /\ Len(piece) = m /\ \A k \in 1 .. m : piece[k] = written[c + k]
  <2>1. c + m \in Nat /\ c <= c + m /\ c + m <= Len(written)
    BY <1>1
  <2>2. /\ piece \in Seq(B) /\ Len(piece) = (c + m) - c
        /\ \A k \in 1 .. (c + m) - c : piece[k] = written[c + k]
    BY <1>1, <2>1, PieceLength
  <2> QED
    BY <2>2
<1>3. \A k \in 1 .. m : data[(c + k - 1) % Size] = written[c + k]
  <2> TAKE k \in 1 .. m
  <2>1. c + k - 1 \in Oldest .. end /\ c + k - 1 < end /\ (c + k - 1) + 1 = c + k
    BY <1>1
  <2> QED
    BY <2>1 DEF LiveInv, RingInv
<1>4. piece \in [1 .. m -> B]
  BY <1>2, LenProperties
<1>5. chunk = piece
  BY <1>2, <1>3, <1>4
<1> QED
  BY <1>2, <1>5
(* Of the reader's steps all but two change nothing but pc.                *)
LEMMA MovesKeepLiveInv ==
    ASSUME NEW B, LiveTypeOK(B), LiveInv, NEW r \in Readers,
           Connect(r) \/ Wake(r) \/ GiveUp(r)
           \/ (reader[r].pc \in {"look", "write"}
               /\ Reads(r, [reader[r] EXCEPT !.pc = "dropped"]))
    PROVE  LiveTypeOK(B)' /\ LiveInv'
<1>1. PICK to \in {"look", "dropped"} :
        /\ reader[r].pc \in {"none", "wait"} \/ to = "dropped"
        /\ Reads(r, [reader[r] EXCEPT !.pc = to])
  BY DEF Connect, Wake, GiveUp
<1> DEFINE q == [reader[r] EXCEPT !.pc = to]
<1>2. reader[r] \in Record(B) /\ RecordOK(reader[r])
  BY ReadersOK
<1>3. /\ q.pc = to /\ q.cursor = reader[r].cursor /\ q.chunk = reader[r].chunk
      /\ q.from = reader[r].from /\ q.seen = reader[r].seen /\ q.got = reader[r].got
      /\ q \in Record(B)
  BY <1>2 DEF Record
<1>4. RecordOK(q)
  <2> HIDE DEF q
  <2> QED
    BY <1>1, <1>2, <1>3 DEF RecordOK
<1> QED
  BY <1>1, <1>3, <1>4, ReadsKeepsLiveInv

LEMMA WriteChunkKeepsLiveInv ==
    ASSUME NEW B, LiveTypeOK(B), LiveInv, NEW r \in Readers, reader[r].pc = "write",
           Reads(r, [reader[r] EXCEPT !.pc = "look", !.chunk = <<>>,
                                      !.got = reader[r].got \o reader[r].chunk])
    PROVE  LiveTypeOK(B)' /\ LiveInv'
<1> DEFINE q == [reader[r] EXCEPT !.pc = "look", !.chunk = <<>>,
                                  !.got = reader[r].got \o reader[r].chunk]
<1>1. reader[r] \in Record(B) /\ RecordOK(reader[r])
  BY ReadersOK
<1>2. reader[r].got \in Seq(B) /\ reader[r].chunk \in Seq(B)
  BY <1>1 DEF Record
<1>3. reader[r].got \o reader[r].chunk \in Seq(B) /\ <<>> \in Seq(B)
  BY <1>2, ConcatProperties, EmptySeq
<1>4. /\ q.pc = "look" /\ q.cursor = reader[r].cursor /\ q.chunk = <<>>
      /\ q.from = reader[r].from /\ q.seen = reader[r].seen
      /\ q.got = reader[r].got \o reader[r].chunk
      /\ q \in Record(B)
  BY <1>1, <1>3 DEF Record
<1>5. q.got \o q.chunk = q.got
  BY <1>3, <1>4, ConcatEmptySeq
<1>6. RecordOK(q)
  <2> HIDE DEF q
  <2> QED
    BY <1>1, <1>4, <1>5 DEF RecordOK
<1> QED
  BY <1>4, <1>6, ReadsKeepsLiveInv

LEMMA FinishKeepsLiveInv ==
    ASSUME NEW B, LiveTypeOK(B), LiveInv, NEW r \in Readers, reader[r].pc = "look",
           ~TooSlow(r), Finished(r), Reads(r, [reader[r] EXCEPT !.pc = "finished"])
    PROVE  LiveTypeOK(B)' /\ LiveInv'
<1> DEFINE q == [reader[r] EXCEPT !.pc = "finished"]
<1>1. reader[r] \in Record(B) /\ RecordOK(reader[r])
  BY ReadersOK
<1>2. /\ q.pc = "finished" /\ q.cursor = reader[r].cursor /\ q.chunk = reader[r].chunk
      /\ q.from = reader[r].from /\ q.seen = reader[r].seen /\ q.got = reader[r].got
      /\ q \in Record(B)
  BY <1>1 DEF Record
<1>3. closed /\ Count(r) = 0
  BY DEF Finished
<1>4. reader[r].cursor = end
  BY <1>3, LookSees
<1>5. reader[r].got = SubSeq(written, reader[r].from + 1, end) /\ reader[r].chunk = <<>>
  BY <1>4, LookSees
<1>6. RecordOK(q)
  <2> HIDE DEF q
  <2> QED
    BY <1>1, <1>2, <1>3, <1>5 DEF RecordOK
<1> QED
  BY <1>2, <1>6, ReadsKeepsLiveInv

LEMMA TakeKeepsLiveInv ==
    ASSUME NEW B, LiveTypeOK(B), LiveInv, NEW r \in Readers, reader[r].pc = "look",
           ~TooSlow(r), ~Finished(r),
           Reads(r, [reader[r] EXCEPT
                  !.pc = IF Count(r) = 0 THEN "wait" ELSE "write",
                  !.from = IF reader[r].got = <<>> THEN Cursor(r) ELSE reader[r].from,
                  !.chunk = [k \in 1 .. Count(r) |-> data[(Cursor(r) + k - 1) % Size]],
                  !.cursor = Cursor(r) + Count(r),
                  !.seen = changed])
    PROVE  LiveTypeOK(B)' /\ LiveInv'
<1> DEFINE c == Cursor(r)
           m == Count(r)
           chunk == [k \in 1 .. m |-> data[(c + k - 1) % Size]]
           from == IF reader[r].got = <<>> THEN c ELSE reader[r].from
           pc == IF m = 0 THEN "wait" ELSE "write"
           q == [reader[r] EXCEPT !.pc = pc, !.from = from, !.chunk = chunk, !.cursor = c + m,
                                  !.seen = changed]
<1>1. reader[r] \in Record(B) /\ RecordOK(reader[r])
  BY ReadersOK
<1>2. /\ c \in Nat /\ m \in Nat /\ Oldest <= c /\ c + m <= end
      /\ reader[r].got = SubSeq(written, reader[r].from + 1, reader[r].cursor)
      /\ reader[r].got = <<>> <=> reader[r].from = reader[r].cursor
      /\ c = reader[r].cursor \/ (reader[r].got = <<>> /\ m # 0)
      /\ m = 0 => c = end
  BY LookSees
<1>3. chunk = SubSeq(written, c + 1, c + m) /\ chunk \in Seq(B)
  <2> HIDE DEF c, m
  <2> QED
    BY <1>2, ChunkIsPiece
<1>4. /\ written \in Seq(B) /\ end = Len(written) /\ end \in Nat /\ changed \in Nat
      /\ reader[r].from \in Nat /\ reader[r].from <= reader[r].cursor
  BY <1>1, LenProperties DEF LiveTypeOK, Record, RecordOK
<1>5. from \in Nat /\ from <= c
  BY <1>2, <1>4
<1>6. /\ q.pc = pc /\ q.cursor = c + m /\ q.chunk = chunk /\ q.from = from /\ q.seen = changed
      /\ q.got = reader[r].got /\ q \in Record(B)
  <2> HIDE DEF c, m, chunk, from
  <2>1. c + m \in Nat
    BY <1>2
  <2> QED
    BY <1>1, <1>3, <1>4, <1>5, <2>1 DEF Record
<1>7. reader[r].got \o chunk = SubSeq(written, from + 1, c + m)
  <2>1. CASE reader[r].got = <<>>
    <3>1. <<>> \o chunk = chunk
      BY <1>3, ConcatEmptySeq
    <3> QED
      BY <1>3, <2>1, <3>1
  <2>2. CASE reader[r].got # <<>>
    <3>1. from = reader[r].from /\ c = reader[r].cursor
      BY <1>2, <2>2
    <3> HIDE DEF c, m, chunk, from
    <3>2. from + 1 \in 1 .. Len(written) + 1 /\ c \in (from + 1) - 1 .. Len(written)
          /\ c + m \in c .. Len(written)
      BY <1>2, <1>4, <1>5
    <3>3. SubSeq(written, from + 1, c) \o SubSeq(written, c + 1, c + m)
          = SubSeq(written, from + 1, c + m)
      BY <1>4, <3>2, ConcatAdjacentSubSeq
    <3> QED
      BY <1>2, <1>3, <3>1, <3>3
  <2> QED
    BY <2>1, <2>2
<1>8. m = 0 => chunk = <<>> /\ ~closed /\ c + m = end
  <2>1. m = 0 => chunk = <<>>
    <3> HIDE DEF c, m, chunk
    <3> QED
      BY <1>2, <1>3, SubSeqEmpty
  <2>2. m = 0 => ~closed
    BY DEF Finished
  <2>3. m = 0 => c + m = end
    <3> HIDE DEF c, m
    <3> QED
      BY <1>2, <1>4
  <2> QED
    BY <2>1, <2>2, <2>3
<1>9. RecordOK(q)
  <2>1. from <= c + m /\ c + m <= end /\ changed <= changed
    <3> HIDE DEF c, m, from
    <3> QED
      BY <1>2, <1>4, <1>5
  <2> HIDE DEF c, m, chunk, from, q
  <2> QED
    BY <1>6, <1>7, <1>8, <2>1 DEF RecordOK
<1> QED
  BY <1>6, <1>9, ReadsKeepsLiveInv

LEMMA ReaderKeepsLiveInv ==
    ASSUME NEW B, LiveTypeOK(B), LiveInv, NEW r \in Readers,
           Connect(r) \/ Reader(r) \/ GiveUp(r)
    PROVE  LiveTypeOK(B)' /\ LiveInv'
<1>1. CASE Connect(r) \/ Wake(r) \/ GiveUp(r)
  BY <1>1, MovesKeepLiveInv
<1>2. CASE Look(r)
  BY <1>2, MovesKeepLiveInv, FinishKeepsLiveInv, TakeKeepsLiveInv DEF Look
<1>3. CASE WriteChunk(r)
  BY <1>3, MovesKeepLiveInv, WriteChunkKeepsLiveInv DEF WriteChunk
<1> QED
  BY <1>1, <1>2, <1>3 DEF Reader
(***************************************************************************)
(* Stream.                                                                 *)
(***************************************************************************)

LEMMA Begins == Init => IInv
<1> SUFFICES ASSUME Init PROVE IInv
  OBVIOUS
<1>1. JitterInv
  BY JitterBegins DEF Init
<1>2. LiveTypeOK(Byte) /\ LiveInv
  BY LiveBegins DEF Init
<1>3. pipe \in Seq(Byte) /\ session \in {"on", "over"} /\ Delivered = <<>> /\ Len(<<>>) = 0
  <2>1. <<>> \in Seq(Byte) /\ <<>> \o <<>> = <<>> /\ Len(<<>>) = 0
    BY EmptySeq, ConcatEmptySeq
  <2> QED
    BY <2>1 DEF Init, LiveInit, Delivered
<1>4. OrderInv
  BY <1>3 DEF OrderInv
<1> QED
  BY <1>1, <1>2, <1>3, <1>4 DEF IInv, StreamTypeOK, JitterInv

(* A session over holds nothing: what the buffer does then is nothing.     *)
LEMMA ForgettingKeepsJitterInv ==
    ASSUME JitterInv, Forget, sent' = 0, epoch' = 0 PROVE JitterInv'
<1>1. None \notin Int /\ Half \in Nat
  BY TimeAssumption, HalfIsHalf
<1> QED
  BY <1>1 DEF Forget, JitterInv, JitterTypeOK, BufferInv, AskInv, Started

LEMMA JitterStaysOK == ASSUME IInv, [Next]_vars PROVE JitterInv'
<1>1. JitterInv
  BY DEF IInv, StreamTypeOK, JitterInv
<1>2. ASSUME JitterNext PROVE JitterInv'
  BY <1>1, <1>2, JitterStepKeepsJitterInv
<1>3. ASSUME UNCHANGED jitterVars PROVE JitterInv'
  BY <1>1, <1>3
     DEF jitterVars, buffer, timers, JitterInv, JitterTypeOK, BufferInv, AskInv, Started
<1>4. CASE \/ Audio(Send) \/ Audio(Receive) \/ Audio(Flush)
           \/ Audio(TickDrains) \/ Audio(DrainEnds) \/ Audio(Missing) \/ Deliver
  BY <1>2, <1>4 DEF Audio, Deliver, JitterNext, Drains
<1>5. CASE SessionEnds
  BY <1>1, <1>5, ForgettingKeepsJitterInv DEF SessionEnds
<1>6. CASE Decode \/ CloseLive \/ UNCHANGED vars
           \/ \E r \in Readers : Player(Connect(r)) \/ Player(Reader(r)) \/ Player(GiveUp(r))
  BY <1>3, <1>6 DEF Decode, CloseLive, vars, Player
<1> QED
  BY <1>4, <1>5, <1>6 DEF Next

(* What the decoder puts out is what it was given.                         *)
LEMMA DecodeKeepsDelivered ==
    ASSUME IInv, Decode
    PROVE  /\ \E p \in Seq(Byte) : Write(p)
           /\ pipe' \in Seq(Byte) /\ Delivered' = Delivered
<1>1. PICK n \in 1 .. Len(pipe) :
        Write(SubSeq(pipe, 1, n)) /\ pipe' = SubSeq(pipe, n + 1, Len(pipe))
  BY DEF Decode
<1> DEFINE p == SubSeq(pipe, 1, n)
           rest == SubSeq(pipe, n + 1, Len(pipe))
<1>2. pipe \in Seq(Byte) /\ written \in Seq(Byte) /\ Len(pipe) \in Nat
  BY LenProperties DEF IInv, StreamTypeOK, LiveTypeOK
<1>3. p \in Seq(Byte)
  BY <1>2, PieceLength
<1>4. rest \in Seq(Byte)
  BY <1>2, PieceLength
<1>5. p \o rest = pipe
  <2>1. 1 \in 1 .. Len(pipe) + 1 /\ n \in 1 - 1 .. Len(pipe) /\ Len(pipe) \in n .. Len(pipe)
    BY <1>2
  <2>2. p \o rest = SubSeq(pipe, 1, Len(pipe))
    BY <1>2, <2>1, ConcatAdjacentSubSeq
  <2> QED
    BY <1>2, <2>2, SubSeqFull
<1>6. written' = written \o p
  BY <1>1 DEF Write
<1>7. (written \o p) \o rest = written \o (p \o rest)
  <2> HIDE DEF p, rest
  <2> QED
    BY <1>2, <1>3, <1>4, ConcatAssociative
<1> QED
  BY <1>1, <1>3, <1>4, <1>5, <1>6, <1>7 DEF Delivered

LEMMA DeliverAppends ==
    ASSUME IInv, Deliver
    PROVE  /\ <<epoch, next>> \in Byte /\ pipe' \in Seq(Byte) /\ Delivered \in Seq(Byte)
           /\ Delivered' = Append(Delivered, <<epoch, next>>)
<1> DEFINE b == <<epoch, next>>
<1>1. pipe \in Seq(Byte) /\ written \in Seq(Byte)
  BY DEF IInv, StreamTypeOK, LiveTypeOK
<1>2. b \in Byte
  BY DEF IInv, StreamTypeOK, JitterTypeOK, Byte
<1>3. pipe' = Append(pipe, b) /\ written' = written
  BY DEF Deliver, liveVars, ring
<1>4. Append(pipe, b) \in Seq(Byte) /\ Append(pipe, b) = pipe \o <<b>> /\ <<b>> \in Seq(Byte)
  <2> HIDE DEF b
  <2>1. Append(pipe, b) \in Seq(Byte) /\ Append(pipe, b) = pipe \o <<b>>
    BY <1>1, <1>2, AppendProperties, AppendIsConcat
  <2>2. <<b>> \in Seq(Byte)
    BY <1>2
  <2> QED
    BY <2>1, <2>2
<1>5. Delivered \in Seq(Byte)
  BY <1>1, ConcatProperties DEF Delivered
<1>6. (written \o pipe) \o <<b>> = written \o (pipe \o <<b>>)
  BY <1>1, <1>4, ConcatAssociative
<1>7. Append(Delivered, b) = Delivered \o <<b>>
  BY <1>1, <1>2, <1>5, AppendIsConcat
<1> QED
  BY <1>1, <1>3, <1>4, <1>5, <1>6, <1>7 DEF Delivered

LEMMA LiveStaysOK ==
    ASSUME IInv, [Next]_vars PROVE LiveTypeOK(Byte)' /\ LiveInv' /\ pipe' \in Seq(Byte)
<1>1. LiveTypeOK(Byte) /\ LiveInv /\ pipe \in Seq(Byte)
  BY DEF IInv, StreamTypeOK
<1>2. ASSUME UNCHANGED liveVars PROVE LiveTypeOK(Byte)' /\ LiveInv'
  <2>1. LiveTypeOK(Byte)'
    BY <1>1, <1>2 DEF liveVars, ring, LiveTypeOK
  <2>2. RingInv' /\ ReadersInv'
    BY <1>1, <1>2 DEF liveVars, ring, LiveInv, RingInv, Oldest, ReadersInv
  <2>3. OnePiece' /\ NoLostWakeup' /\ ClosedIsDrained'
    BY <1>1, <1>2
       DEF liveVars, ring, LiveInv, OnePiece, NoLostWakeup, ClosedIsDrained, ChannelClosed
  <2> QED
    BY <2>1, <2>2, <2>3 DEF LiveInv
<1>3. CASE \/ Audio(Send) \/ Audio(Receive) \/ Audio(Flush) \/ Audio(TickDrains)
           \/ Audio(DrainEnds) \/ Audio(Missing) \/ UNCHANGED vars
  BY <1>1, <1>2, <1>3 DEF Audio, decoder, vars
<1>4. CASE Deliver
  BY <1>2, <1>4, DeliverAppends DEF Deliver
<1>5. CASE Decode
  BY <1>1, <1>5, DecodeKeepsDelivered, WriteKeepsLiveInv
<1>6. CASE SessionEnds
  BY <1>2, <1>6, EmptySeq DEF SessionEnds
<1>7. CASE CloseLive
  BY <1>1, <1>7, CloseKeepsLiveInv DEF CloseLive, decoder
<1>8. CASE \E r \in Readers : Player(Connect(r)) \/ Player(Reader(r)) \/ Player(GiveUp(r))
  BY <1>1, <1>8, ReaderKeepsLiveInv DEF Player, decoder
<1> QED
  BY <1>3, <1>4, <1>5, <1>6, <1>7, <1>8 DEF Next
LEMMA DeliveredIsBytes ==
    ASSUME IInv
    PROVE  /\ Delivered \in Seq(Byte) /\ Len(Delivered) \in Nat
           /\ \A i \in 1 .. Len(Delivered) : Delivered[i][1] \in Nat /\ Delivered[i][2] \in Nat
           /\ epoch \in Nat /\ next \in Nat
<1>1. pipe \in Seq(Byte) /\ written \in Seq(Byte) /\ epoch \in Nat /\ next \in Nat
  BY DEF IInv, StreamTypeOK, LiveTypeOK, JitterTypeOK
<1>2. Delivered \in Seq(Byte)
  BY <1>1, ConcatProperties DEF Delivered
<1>3. \A i \in 1 .. Len(Delivered) : Delivered[i] \in Byte
  BY <1>2, ElementOfSeq
<1> QED
  BY <1>1, <1>2, <1>3, LenProperties DEF Byte

(* As long as nothing is delivered, next does not go back but for a FLUSH. *)
LEMMA NextStaysAhead ==
    ASSUME IInv, Delivered' = Delivered, session' = session,
           \/ epoch' = epoch /\ (Started => Started' /\ next' \in Nat /\ next <= next')
           \/ epoch' = epoch + 1
           \/ session = "over"
    PROVE  OrderInv'
<1>1. OrderInv
  BY DEF IInv
<1>2. /\ \A i \in 1 .. Len(Delivered) : Delivered[i][1] \in Nat /\ Delivered[i][2] \in Nat
      /\ epoch \in Nat /\ next \in Nat
  BY DeliveredIsBytes
<1>3. ASSUME session = "on", NEW i \in 1 .. Len(Delivered)
      PROVE  \/ Delivered[i][1] < epoch'
             \/ Delivered[i][1] = epoch' /\ Started' /\ Delivered[i][2] < next'
  <2>1. \/ Delivered[i][1] < epoch
        \/ Delivered[i][1] = epoch /\ Started /\ Delivered[i][2] < next
    BY <1>1, <1>3 DEF OrderInv
  <2>2. CASE epoch' = epoch + 1
    BY <1>2, <2>1, <2>2
  <2>3. CASE epoch' = epoch /\ (Started => Started' /\ next' \in Nat /\ next <= next')
    BY <1>2, <2>1, <2>3
  <2> QED
    BY <1>3, <2>2, <2>3
<1> QED
  BY <1>1, <1>3 DEF OrderInv, Before

LEMMA DeliverKeepsOrderInv == ASSUME IInv, Deliver PROVE OrderInv'
<1> DEFINE b == <<epoch, next>>
           n == Len(Delivered)
<1>1. OrderInv /\ session = "on" /\ session' = "on" /\ epoch' = epoch /\ Started /\ Started'
      /\ next' = next + 1
  BY DEF IInv, Deliver, DeliverNext, Started
<1>2. /\ \A i \in 1 .. n : Delivered[i][1] \in Nat /\ Delivered[i][2] \in Nat
      /\ epoch \in Nat /\ next \in Nat /\ n \in Nat
  BY DeliveredIsBytes
<1>3. b \in Byte /\ Delivered \in Seq(Byte) /\ Delivered' = Append(Delivered, b)
  BY DeliverAppends
<1>4. /\ Len(Delivered') = n + 1 /\ Delivered'[n + 1] = b
      /\ \A i \in 1 .. n : Delivered'[i] = Delivered[i]
  <2> HIDE DEF b
  <2> QED
    BY <1>3, AppendProperties
<1>5. b[1] = epoch /\ b[2] = next
  OBVIOUS
<1> HIDE DEF b, n
<1>6. ASSUME NEW i \in 1 .. n PROVE Before(Delivered[i], b)
  BY <1>1, <1>2, <1>5, <1>6 DEF OrderInv, Before, n
<1>7. ASSUME NEW i \in 1 .. n + 1, NEW j \in 1 .. n + 1, i < j
      PROVE  Before(Delivered'[i], Delivered'[j])
  <2>1. i \in 1 .. n
    BY <1>2, <1>7
  <2>2. CASE j \in 1 .. n
    BY <1>1, <1>4, <1>7, <2>1, <2>2 DEF OrderInv, n
  <2>3. CASE j = n + 1
    BY <1>4, <1>6, <2>1, <2>3
  <2> QED
    BY <1>2, <1>7, <2>2, <2>3
<1>8. ASSUME NEW i \in 1 .. n + 1
      PROVE  \/ Delivered'[i][1] < epoch'
             \/ Delivered'[i][1] = epoch' /\ Started' /\ Delivered'[i][2] < next'
  <2>1. CASE i \in 1 .. n
    BY <1>1, <1>2, <1>4, <2>1 DEF OrderInv, n
  <2>2. CASE i = n + 1
    BY <1>1, <1>2, <1>4, <1>5, <2>2
  <2> QED
    BY <1>2, <1>8, <2>1, <2>2
<1>9. \A i, j \in 1 .. Len(Delivered') : i < j => Before(Delivered'[i], Delivered'[j])
  BY <1>4, <1>7
<1>10. \A i \in 1 .. Len(Delivered') :
         \/ Delivered'[i][1] < epoch'
         \/ Delivered'[i][1] = epoch' /\ Started' /\ Delivered'[i][2] < next'
  BY <1>4, <1>8
<1> QED
  BY <1>9, <1>10 DEF OrderInv, Before

LEMMA EndKeepsOrderInv == ASSUME IInv, SessionEnds PROVE OrderInv'
<1>1. OrderInv /\ session' # "on" /\ pipe' = <<>> /\ written' = written
  BY DEF IInv, SessionEnds, liveVars, ring
<1>2. pipe \in Seq(Byte) /\ written \in Seq(Byte) /\ Len(pipe) \in Nat /\ Len(written) \in Nat
  BY LenProperties DEF IInv, StreamTypeOK, LiveTypeOK
<1>3. Delivered' = written
  BY <1>1, <1>2, ConcatEmptySeq DEF Delivered
<1>4. /\ Len(written) <= Len(Delivered) /\ Len(Delivered) \in Nat
      /\ \A i \in 1 .. Len(written) : Delivered[i] = written[i]
  BY <1>2, ConcatProperties DEF Delivered
<1>5. \A i, j \in 1 .. Len(written) : i < j => Before(written[i], written[j])
  BY <1>1, <1>2, <1>4 DEF OrderInv
<1> QED
  BY <1>1, <1>3, <1>5 DEF OrderInv, Before

(* In order, or late and dropped, or after a jump ahead: what is received  *)
(* does not set next back.                                                 *)
LEMMA ReceiveStaysAhead ==
    ASSUME IInv, Receive
    PROVE  epoch' = epoch /\ (Started => Started' /\ next' \in Nat /\ next <= next')
<1>1. JitterInv /\ next \in Nat /\ sent \in Nat /\ None \notin Int /\ Window \in Nat
  BY WireAssumption, TimeAssumption DEF IInv, StreamTypeOK, JitterInv, JitterTypeOK
<1>2. PICK n \in 0 .. sent - 1, d \in 0 .. Patience : n >= sent - Spread /\ Push(n, d)
  BY DEF Receive
<1>3. Started => (Late(n) <=> n < next) /\ (Beyond(n) <=> n > next + Window)
  BY <1>1, <1>2, LateIsBehind
<1>4. n \in Nat /\ epoch' = epoch
  BY <1>1, <1>2 DEF Receive
<1>5. ASSUME Started PROVE Started' /\ next' \in Nat /\ next <= next'
  <2>1. CASE Late(n)
    BY <1>1, <1>2, <1>5, <2>1 DEF Push, buffer, Started
  <2>2. CASE ~Late(n) /\ Beyond(n)
    <3>1. next' = n /\ first' = n /\ next <= n
      BY <1>1, <1>2, <1>3, <1>4, <1>5, <2>2 DEF Push
    <3> QED
      BY <1>1, <1>4, <3>1 DEF Started
  <2>3. CASE ~Late(n) /\ ~Beyond(n)
    BY <1>1, <1>2, <1>5, <2>3 DEF Push, Started
  <2> QED
    BY <2>1, <2>2, <2>3
<1> QED
  BY <1>4, <1>5

LEMMA OrderStaysOK == ASSUME IInv, [Next]_vars PROVE OrderInv'
<1>1. next \in Nat
  BY DeliveredIsBytes
<1>2. CASE Audio(Flush)
  <2>1. epoch' = epoch + 1 /\ Delivered' = Delivered /\ session' = session
    BY <1>2 DEF Audio, Flush, liveVars, ring, decoder, Delivered
  <2> QED
    BY <2>1, NextStaysAhead
<1>3. CASE Audio(Receive)
  <2>1. Delivered' = Delivered /\ session' = session
    BY <1>3 DEF Audio, liveVars, ring, decoder, Delivered
  <2> QED
    BY <1>3, <2>1, NextStaysAhead, ReceiveStaysAhead DEF Audio
<1>4. CASE Audio(Send) \/ Audio(TickDrains) \/ Audio(DrainEnds) \/ Audio(Missing)
  <2>1. Delivered' = Delivered /\ session' = session
    BY <1>4 DEF Audio, liveVars, ring, decoder, Delivered
  <2>2. epoch' = epoch /\ first' = first /\ next' \in Nat /\ next <= next'
    BY <1>1, <1>4 DEF Audio, Send, TickDrains, DrainEnds, Missing, buffer
  <2> QED
    BY <2>1, <2>2, NextStaysAhead DEF Started
<1>5. CASE Deliver
  BY <1>5, DeliverKeepsOrderInv
<1>6. CASE SessionEnds
  BY <1>6, EndKeepsOrderInv
<1>7. CASE Decode
  <2>1. Delivered' = Delivered /\ session' = session /\ UNCHANGED jitterVars
    BY <1>7, DecodeKeepsDelivered DEF Decode
  <2> QED
    BY <1>1, <2>1, NextStaysAhead DEF jitterVars, buffer, Started
<1>8. CASE CloseLive \/ UNCHANGED vars
           \/ \E r \in Readers : Player(Connect(r)) \/ Player(Reader(r)) \/ Player(GiveUp(r))
  <2>1. written' = written
    BY <1>8 DEF CloseLive, Close, vars, liveVars, ring, Player, Connect, Reader, Look, WriteChunk,
                Wake, GiveUp, Reads
  <2>2. pipe' = pipe /\ session' = session /\ UNCHANGED jitterVars
    BY <1>8 DEF CloseLive, vars, decoder, Player
  <2> QED
    BY <1>1, <2>1, <2>2, NextStaysAhead DEF jitterVars, buffer, Started, Delivered
<1> QED
  BY <1>2, <1>3, <1>4, <1>5, <1>6, <1>7, <1>8 DEF Next

LEMMA StepKeepsIInv == ASSUME IInv, [Next]_vars PROVE IInv'
<1>1. session' \in {"on", "over"}
  BY DEF IInv, StreamTypeOK, Next, Audio, Deliver, Decode, SessionEnds, CloseLive, Player, decoder,
         vars
<1> QED
  BY <1>1, JitterStaysOK, LiveStaysOK, OrderStaysOK DEF IInv, StreamTypeOK, JitterInv

(* Where the buffer, the timers, the ring and its readers stand, in every  *)
(* state (rtp.go, proxy.go).                                               *)
THEOREM Invariance == Spec => []IInv
<1> QED
  BY Begins, StepKeepsIInv, PTL DEF Spec

(* A missing packet is asked for before its 120 ms are over, wherever      *)
(* numbers wrap and however late the ticks come (rtp.go, Drain).           *)
THEOREM MissingIsAskedFor == Spec => []AskedBeforeSkipped
<1>1. IInv => AskedBeforeSkipped
  BY JitterInvAsksBeforeItSkips DEF IInv, StreamTypeOK, JitterInv
<1> QED
  BY <1>1, Invariance, PTL

(* The decoder puts out packets in the sender's order, each once at most,  *)
(* but for FLUSH (rtp.go, server.go audio).                                *)
THEOREM OrderIsKept == Spec => []StreamInOrder
<1>1. IInv => StreamInOrder
  <2> SUFFICES ASSUME IInv, NEW i \in 1 .. Len(written) - 1
               PROVE  Before(written[i], written[i + 1])
    BY DEF StreamInOrder
  <2>1. pipe \in Seq(Byte) /\ written \in Seq(Byte) /\ Len(pipe) \in Nat /\ Len(written) \in Nat
    BY LenProperties DEF IInv, StreamTypeOK, LiveTypeOK
  <2>2. /\ i \in 1 .. Len(Delivered) /\ i + 1 \in 1 .. Len(Delivered)
        /\ Delivered[i] = written[i] /\ Delivered[i + 1] = written[i + 1]
    BY <2>1, ConcatProperties DEF Delivered
  <2> QED
    BY <2>2 DEF IInv, OrderInv
<1> QED
  BY <1>1, Invariance, PTL

(* A player gets an unbroken piece of the stream, whatever the ring's size *)
(* and however often it wraps while the player reads (proxy.go:170-260).   *)
THEOREM PlayersGetOnePiece == Spec => []OnePiece
<1>1. IInv => OnePiece
  BY DEF IInv, LiveInv
<1> QED
  BY <1>1, Invariance, PTL

(* No reader sleeps on a channel that a Write or Close before it looked    *)
(* has left behind.                                                        *)
THEOREM WakeupsAreKept == Spec => []NoLostWakeup
<1>1. IInv => NoLostWakeup
  BY DEF IInv, LiveInv
<1> QED
  BY <1>1, Invariance, PTL

(* A reader that ends with the stream has got all of it since it began.    *)
THEOREM EndsAreDrained == Spec => []ClosedIsDrained
<1>1. IInv => ClosedIsDrained
  BY DEF IInv, LiveInv
<1> QED
  BY <1>1, Invariance, PTL
=============================================================================
