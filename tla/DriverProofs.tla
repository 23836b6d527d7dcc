---------------------------- MODULE DriverProofs ----------------------------
(***************************************************************************)
(* enc28j60.cpp: the receive ring, for every ring and all lengths of       *)
(* frames, addresses compared by their distance from where the driver      *)
(* reads next; and the registers, for any number of restarts, where an     *)
(* invariant says how far a call has come and what it has done till then.  *)
(***************************************************************************)
EXTENDS Enc28j60, Registers, SequenceTheorems, TLAPS

(* THE RECEIVE RING. *)

\* How far behind h, round the end of the ring, a is.
Dist(h, a) == IF a >= h THEN a - h ELSE a + Size - h

----------------------------------------------------------------------------
(* The inductive invariant.                                                *)

Even(a) == a % 2 = 0

\* The chip must not write over the byte before the one read next; after a
\* restart, and until the first frame is read, over that byte itself.
PointersHold ==
  /\ Even(erxwrpt) /\ Even(gNextPacketPtr) /\ gNextPacketPtr \in Ring
  /\ erxrdpt = IF gNextPacketPtr = 0 THEN 0 ELSE gNextPacketPtr - 1

\* What is unread lies in order between what is read and what is written next.
FramesHold ==
  /\ unread = <<>> => erxwrpt = gNextPacketPtr
  /\ unread # <<>> => unread[1].at = gNextPacketPtr
  /\ \A i \in DOMAIN unread :
       /\ unread[i].whole /\ Even(unread[i].at)
       /\ Dist(gNextPacketPtr, unread[i].at) + unread[i].len <= Dist(gNextPacketPtr, erxwrpt)
       /\ unread[i].next = (unread[i].at + unread[i].len) % Size
       /\ \A j \in DOMAIN unread : i < j =>
            Dist(gNextPacketPtr, unread[i].at) + unread[i].len <= Dist(gNextPacketPtr, unread[j].at)
  /\ \A i \in DOMAIN unread :
       unread[i].next = IF i = Len(unread) THEN erxwrpt ELSE unread[i + 1].at

RingInv ==
  /\ TypeOK /\ unread \in Seq(Frame)
  /\ ~stray => PointersHold /\ FramesHold

----------------------------------------------------------------------------
(* Arithmetic round the ring.                                              *)

LEMMA Sizes ==
  /\ RXSTOP_INIT \in Nat /\ Mem \in Nat /\ Mem > Size /\ MaxUnread \in Nat
  /\ Size \in Nat /\ Size = RXSTOP_INIT + 1 /\ Size >= 2 /\ Even(Size)
  /\ Ring = 0 .. Size - 1
  /\ \A n \in Lengths : n \in Nat /\ n >= 2 /\ n <= Size - 2 /\ Even(n)
  BY RingAssumption DEF Size, Ring, Even

LEMMA Wrap ==
  ASSUME NEW n \in Nat, n >= 1, NEW a \in Nat, a < 2 * n
  PROVE  a % n = IF a < n THEN a ELSE a - n
  OBVIOUS

\* Stepping on from a by less than what is left keeps the distance in step.
LEMMA StepOn ==
  ASSUME NEW h \in Ring, NEW a \in Ring, NEW n \in Nat, Dist(h, a) + n < Size
  PROVE  /\ (a + n) % Size \in Ring
         /\ Dist(h, (a + n) % Size) = Dist(h, a) + n
         /\ Even(a) /\ Even(n) => Even((a + n) % Size)
  <1>1. a + n \in Nat /\ a + n < 2 * Size
    BY Sizes DEF Dist
  <1>2. (a + n) % Size = IF a + n < Size THEN a + n ELSE a + n - Size
    <2>1. PICK b, m : b = a + n /\ m = Size
      OBVIOUS
    <2>2. b \in Nat /\ m \in Nat /\ m >= 1 /\ b < 2 * m
      BY <1>1, <2>1, Sizes
    <2>3. b % m = IF b < m THEN b ELSE b - m
      BY <2>2, Wrap
    <2>4. (a + n) % Size = b % m
      BY <2>1, Zenon
    <2>5. (b < m => b % m = b) /\ (~(b < m) => b % m = b - m)
      BY <2>3, Zenon
    <2>6. (a + n < Size => (a + n) % Size = a + n) /\ (~(a + n < Size) => (a + n) % Size = a + n - Size)
      BY <1>1, <2>1, <2>2, <2>4, <2>5, Sizes
    <2> QED  BY <2>6, Zenon
  <1>3. (a + n) % Size \in Ring
    BY <1>1, <1>2, Sizes
  <1>4. Dist(h, (a + n) % Size) = Dist(h, a) + n
    BY <1>1, <1>2, Sizes DEF Dist
  <1>5. Even(a) /\ Even(n) => Even((a + n) % Size)
    BY <1>1, <1>2, Sizes DEF Even
  <1> QED  BY <1>3, <1>4, <1>5

\* Reading on from h to g: everything behind g comes nearer by as much.
LEMMA ReadOn ==
  ASSUME NEW h \in Ring, NEW g \in Ring, NEW a \in Ring, Dist(h, g) <= Dist(h, a)
  PROVE  Dist(g, a) = Dist(h, a) - Dist(h, g)
  BY Sizes DEF Dist

LEMMA DistRange ==
  ASSUME NEW h \in Ring, NEW a \in Ring
  PROVE  /\ Dist(h, a) \in Nat /\ Dist(h, a) < Size /\ Dist(h, h) = 0
         /\ Even(h) /\ Even(a) => Even(Dist(h, a))
  BY Sizes DEF Dist, Even

\* What the chip takes does not reach the byte it must not write over.
LEMMA FreeIsFree ==
  ASSUME TypeOK, PointersHold,
         erxwrpt = gNextPacketPtr \/ Dist(gNextPacketPtr, erxwrpt) >= 2
  PROVE  /\ Free <= Size - 1 - Dist(gNextPacketPtr, erxwrpt)
         /\ erxwrpt = gNextPacketPtr => Free >= Size - 2
  <1>1. /\ erxwrpt \in Ring /\ gNextPacketPtr \in Ring /\ Even(erxwrpt) /\ Even(gNextPacketPtr)
        /\ erxrdpt = IF gNextPacketPtr = 0 THEN 0 ELSE gNextPacketPtr - 1
    BY DEF TypeOK, PointersHold
  <1>2. gNextPacketPtr # 0 => erxwrpt # erxrdpt
    BY <1>1, Sizes DEF Even
  <1> QED  BY <1>1, <1>2, Sizes DEF Free, Dist

----------------------------------------------------------------------------
LEMMA RingInit == Init => RingInv
  <1> SUFFICES ASSUME Init  PROVE RingInv
    OBVIOUS
  <1>1. unread = <<>> /\ unread \in Seq(Frame) /\ Len(unread) = 0 /\ DOMAIN unread = {}
    BY EmptySeq DEF Init
  <1>2. 0 \in Ring /\ 0 \in 0 .. Mem - 1 /\ Even(0)
    BY Sizes DEF Even
  <1>3. TypeOK
    <2>1. /\ erxwrpt \in Ring /\ erxrdpt \in 0 .. Mem - 1 /\ gNextPacketPtr \in 0 .. Mem - 1
          /\ Len(unread) <= MaxUnread
      BY <1>1, <1>2, Sizes DEF Init
    <2>2. {stray, sending, txerif} \subseteq BOOLEAN /\ tx = "idle"
      BY DEF Init
    <2> QED  BY <1>1, <2>1, <2>2 DEF TypeOK
  <1>4. PointersHold /\ FramesHold
    BY <1>1, <1>2 DEF Init, PointersHold, FramesHold
  <1> QED  BY <1>1, <1>3, <1>4 DEF RingInv

----------------------------------------------------------------------------
(* Receiving.                                                              *)

\* The queue of frames, with one more at its end.
LEMMA Received ==
  ASSUME unread \in Seq(Frame), NEW f \in Frame, NEW g \in [DOMAIN unread -> Frame],
         unread' = Append(g, f)
  PROVE  /\ unread' \in Seq(Frame) /\ Len(unread') = Len(unread) + 1 /\ Len(unread) \in Nat
         /\ DOMAIN unread = 1 .. Len(unread) /\ DOMAIN unread' = 1 .. Len(unread) + 1
         /\ \A i \in 1 .. Len(unread) : unread'[i] = g[i]
         /\ unread'[Len(unread) + 1] = f
  <1>1. Len(unread) \in Nat /\ DOMAIN unread = 1 .. Len(unread)
    BY LenProperties
  <1>2. g \in Seq(Frame) /\ Len(g) = Len(unread)
    BY <1>1, SeqDef, LenProperties
  <1>3. /\ Append(g, f) \in Seq(Frame) /\ Len(Append(g, f)) = Len(g) + 1
        /\ \A i \in 1 .. Len(g) : Append(g, f)[i] = g[i]
        /\ Append(g, f)[Len(g) + 1] = f
    BY <1>2, AppendProperties
  <1>4. DOMAIN Append(g, f) = 1 .. Len(unread) + 1
    BY <1>2, <1>3, LenProperties
  <1> QED  BY <1>1, <1>2, <1>3, <1>4

\* Frames that lie one behind the other have no byte in common.
LEMMA Apart ==
  ASSUME NEW h \in Ring, NEW a \in Ring, NEW m \in Nat, NEW b \in Ring, NEW n \in Nat,
         Dist(h, a) + m <= Dist(h, b), Dist(h, b) + n < Size
  PROVE  {(a + i) % Size : i \in 0 .. m - 1} \cap {(b + i) % Size : i \in 0 .. n - 1} = {}
  <1>1. Dist(h, a) \in Nat /\ Dist(h, b) \in Nat
    BY DistRange, Sizes
  <1>2. ASSUME NEW i \in 0 .. m - 1  PROVE Dist(h, (a + i) % Size) < Dist(h, b)
    <2>1. i \in Nat /\ i < m /\ Dist(h, a) + i < Size
      BY <1>1, Sizes
    <2>2. Dist(h, (a + i) % Size) = Dist(h, a) + i
      BY <2>1, StepOn
    <2> QED  BY <1>1, <2>1, <2>2
  <1>3. ASSUME NEW i \in 0 .. n - 1  PROVE Dist(h, (b + i) % Size) >= Dist(h, b)
    <2>1. i \in Nat /\ Dist(h, b) + i < Size
      BY <1>1, Sizes
    <2>2. Dist(h, (b + i) % Size) = Dist(h, b) + i
      BY <2>1, StepOn
    <2> QED  BY <1>1, <2>1, <2>2
  <1>4. ASSUME NEW x \in {(a + i) % Size : i \in 0 .. m - 1},
               x \in {(b + i) % Size : i \in 0 .. n - 1}
        PROVE  FALSE
    <2>1. Dist(h, x) < Dist(h, b)
      BY <1>2
    <2>2. Dist(h, x) >= Dist(h, b) /\ x \in Ring
      <3>1. PICK i \in 0 .. n - 1 : x = (b + i) % Size
        BY <1>4
      <3>2. i \in Nat /\ Dist(h, b) + i < Size
        BY <1>1, Sizes
      <3> QED  BY <1>3, <3>1, <3>2, StepOn
    <2>3. Dist(h, x) \in Int
      BY <2>2, DistRange, Sizes
    <2> QED  BY <1>1, <2>1, <2>2, <2>3
  <1> QED  BY <1>4

\* What is unread keeps two bytes of the ring at least from what is written.
LEMMA WhereWritten ==
  ASSUME TypeOK, unread \in Seq(Frame), PointersHold, FramesHold
  PROVE  erxwrpt = gNextPacketPtr \/ Dist(gNextPacketPtr, erxwrpt) >= 2
  <1>1. CASE unread = <<>>
    BY <1>1 DEF FramesHold
  <1>2. CASE unread # <<>>
    <2>1. 1 \in DOMAIN unread /\ unread[1] \in Frame
      BY <1>2, LenProperties, EmptySeq, ElementOfSeq
    <2>2. /\ Dist(gNextPacketPtr, unread[1].at) + unread[1].len <= Dist(gNextPacketPtr, erxwrpt)
          /\ gNextPacketPtr \in Ring /\ erxwrpt \in Ring
          /\ unread[1].at \in Ring /\ unread[1].len \in Lengths
      BY <2>1 DEF FramesHold, PointersHold, TypeOK, Frame
    <2>3. /\ unread[1].len \in Nat /\ unread[1].len >= 2
          /\ Dist(gNextPacketPtr, unread[1].at) \in Nat
      BY <2>2, DistRange, Sizes
    <2>4. Dist(gNextPacketPtr, erxwrpt) \in Nat
      BY <2>2, DistRange, Sizes
    <2> QED  BY <2>2, <2>3, <2>4
  <1> QED  BY <1>1, <1>2

LEMMA ChipReceivesKeeps ==
  ASSUME RingInv, NEW n \in Lengths, ChipReceives(n)
  PROVE  RingInv'
  <1>0. TypeOK /\ unread \in Seq(Frame) /\ erxwrpt \in Ring /\ n \in Nat
    BY Sizes DEF RingInv, TypeOK
  <1>1. PICK f : f = [at |-> erxwrpt, len |-> n, next |-> (erxwrpt + n) % Size, whole |-> TRUE]
    OBVIOUS
  <1>2. PICK g : g = [i \in DOMAIN unread |->
                       [unread[i] EXCEPT !.whole = unread[i].whole /\ Bytes(unread[i]) \cap Bytes(f) = {}]]
    OBVIOUS
  <1>3. /\ n <= Free /\ Len(unread) < MaxUnread /\ unread' = Append(g, f) /\ erxwrpt' = f.next
        /\ UNCHANGED <<erxrdpt, gNextPacketPtr, stray, transmitter>>
    BY <1>1, <1>2 DEF ChipReceives
  <1>4. (erxwrpt + n) % Size \in Ring
    <2>1. PICK b \in Nat : b = erxwrpt + n
      BY <1>0, Sizes
    <2>2. b % Size \in Ring
      BY <2>1, Sizes
    <2> QED  BY <2>1, <2>2
  <1>5. /\ f \in Frame /\ f.at = erxwrpt /\ f.len = n /\ f.next = (erxwrpt + n) % Size /\ f.whole
    BY <1>0, <1>1, <1>4 DEF Frame
  <1>6. \A i \in DOMAIN unread : unread[i] \in Frame
    BY <1>0, ElementOfSeq, LenProperties
  <1>7. /\ g \in [DOMAIN unread -> Frame]
        /\ \A i \in DOMAIN unread : /\ g[i].at = unread[i].at /\ g[i].len = unread[i].len
                                    /\ g[i].next = unread[i].next
                                    /\ g[i].whole = (unread[i].whole /\ Bytes(unread[i]) \cap Bytes(f) = {})
    <2>1. \A i \in DOMAIN unread :
            [unread[i] EXCEPT !.whole = unread[i].whole /\ Bytes(unread[i]) \cap Bytes(f) = {}] \in Frame
      BY <1>6 DEF Frame
    <2> QED  BY <1>2, <1>6, <2>1 DEF Frame
  <1>8. /\ unread' \in Seq(Frame) /\ Len(unread') = Len(unread) + 1 /\ Len(unread) \in Nat
        /\ DOMAIN unread = 1 .. Len(unread) /\ DOMAIN unread' = 1 .. Len(unread) + 1
        /\ \A i \in 1 .. Len(unread) : unread'[i] = g[i]
        /\ unread'[Len(unread) + 1] = f
    BY <1>0, <1>3, <1>5, <1>7, Received
  <1>9. TypeOK'
    <2>1. \A i \in DOMAIN unread' : unread'[i] \in Frame
      BY <1>8, ElementOfSeq, LenProperties
    <2>2. Len(unread') <= MaxUnread
      BY <1>3, <1>8, Sizes
    <2> QED  BY <1>0, <1>3, <1>4, <1>5, <2>1, <2>2 DEF TypeOK, transmitter
  <1>10. ASSUME ~stray  PROVE PointersHold' /\ FramesHold'
    <2> DEFINE D(a) == Dist(gNextPacketPtr, a)
    <2>0. PointersHold /\ FramesHold /\ gNextPacketPtr \in Ring
      BY <1>10 DEF RingInv, PointersHold
    <2>1. D(erxwrpt) + n < Size /\ D(erxwrpt) \in Nat /\ Even(D(erxwrpt)) /\ Even(n)
      <3>1. n <= Size - 1 - D(erxwrpt)
        <4>1. Free <= Size - 1 - D(erxwrpt)
          BY <1>0, <2>0, WhereWritten, FreeIsFree
        <4>2. D(erxwrpt) \in Nat /\ Free \in Int
          <5>1. erxrdpt \in Int /\ erxwrpt \in Int
            BY <1>0, Sizes DEF TypeOK
          <5>2. Free \in Int
            BY <5>1, Sizes DEF Free
          <5> QED  BY <1>0, <2>0, <5>2, DistRange
        <4> QED  BY <1>0, <1>3, <4>1, <4>2, Sizes
      <3>2. D(erxwrpt) \in Nat /\ Even(D(erxwrpt)) /\ Even(n)
        BY <1>0, <2>0, DistRange, Sizes DEF PointersHold
      <3> QED  BY <3>1, <3>2, <1>0, Sizes
    <2>2. D(erxwrpt') = D(erxwrpt) + n /\ Even(erxwrpt')
      BY <1>0, <1>3, <1>5, <2>0, <2>1, StepOn DEF PointersHold
    <2>3. PointersHold'
      BY <1>3, <2>0, <2>2 DEF PointersHold
    <2>4. ASSUME NEW i \in 1 .. Len(unread)
          PROVE  /\ g[i].whole /\ Even(unread[i].at) /\ unread[i].at \in Ring /\ unread[i].len \in Nat
                 /\ D(unread[i].at) \in Nat /\ D(unread[i].at) + unread[i].len <= D(erxwrpt)
                 /\ unread[i].next = (unread[i].at + unread[i].len) % Size
      <3>1. /\ unread[i].at \in Ring /\ unread[i].len \in Nat /\ D(unread[i].at) \in Nat
        <4>1. unread[i].at \in Ring /\ unread[i].len \in Lengths
          BY <1>6, <1>8 DEF Frame
        <4>2. D(unread[i].at) \in Nat
          BY <2>0, <4>1, DistRange
        <4> QED  BY <4>1, <4>2, Sizes
      <3>2. /\ unread[i].whole /\ Even(unread[i].at) /\ D(unread[i].at) + unread[i].len <= D(erxwrpt)
            /\ unread[i].next = (unread[i].at + unread[i].len) % Size
        BY <1>8, <2>0 DEF FramesHold
      <3>3. Bytes(unread[i]) \cap Bytes(f) = {}
        <4>1. {(unread[i].at + k) % Size : k \in 0 .. unread[i].len - 1}
                \cap {(erxwrpt + k) % Size : k \in 0 .. n - 1} = {}
          <5>1. PICK h, a, m, b : /\ h = gNextPacketPtr /\ a = unread[i].at /\ m = unread[i].len
                                  /\ b = erxwrpt
            OBVIOUS
          <5>2. /\ h \in Ring /\ a \in Ring /\ m \in Nat /\ b \in Ring /\ n \in Nat
                /\ Dist(h, a) + m <= Dist(h, b) /\ Dist(h, b) + n < Size
            BY <1>0, <2>0, <2>1, <3>1, <3>2, <5>1
          <5>3. {(a + k) % Size : k \in 0 .. m - 1} \cap {(b + k) % Size : k \in 0 .. n - 1} = {}
            BY <5>2, Apart, SMTT(30)
          <5> QED  BY <5>1, <5>3, Zenon
        <4> QED  BY <1>5, <4>1 DEF Bytes
      <3> QED  BY <1>7, <1>8, <3>1, <3>2, <3>3
    <2>5. FramesHold'
      <3>1. unread' # <<>>
        BY <1>8, EmptySeq
      <3>2. unread'[1].at = gNextPacketPtr'
        <4>1. CASE Len(unread) = 0
          <5>1. unread = <<>>
            BY <1>0, <4>1, EmptySeq
          <5> QED  BY <1>3, <1>5, <1>8, <2>0, <4>1, <5>1 DEF FramesHold
        <4>2. CASE Len(unread) # 0
          <5>1. unread # <<>> /\ 1 \in 1 .. Len(unread)
            BY <1>8, <4>2, EmptySeq
          <5> QED  BY <1>3, <1>7, <1>8, <2>0, <5>1 DEF FramesHold
        <4> QED  BY <4>1, <4>2
      <3>3. ASSUME NEW i \in DOMAIN unread'
            PROVE  /\ unread'[i].whole /\ Even(unread'[i].at)
                   /\ D(unread'[i].at) + unread'[i].len <= D(erxwrpt')
                   /\ unread'[i].next = (unread'[i].at + unread'[i].len) % Size
                   /\ unread'[i].next = IF i = Len(unread') THEN erxwrpt' ELSE unread'[i + 1].at
        <4>1. CASE i = Len(unread) + 1
          <5>1. unread'[i] = f /\ i = Len(unread') /\ Even(f.at) /\ D(f.at) + f.len <= D(erxwrpt')
            <6>1. D(erxwrpt) + n <= D(erxwrpt')
              BY <1>0, <2>1, <2>2
            <6> QED  BY <1>5, <1>8, <2>0, <4>1, <6>1 DEF PointersHold
          <5> QED  BY <1>3, <1>5, <5>1
        <4>2. CASE i \in 1 .. Len(unread)
          <5>1. /\ unread'[i].at = unread[i].at /\ unread'[i].len = unread[i].len
                /\ unread'[i].next = unread[i].next /\ unread'[i].whole
            BY <1>7, <1>8, <2>4, <4>2
          <5>2. D(unread[i].at) + unread[i].len <= D(erxwrpt) + n
            BY <1>0, <2>1, <2>4, <4>2
          <5>3. unread[i].next = IF i = Len(unread) THEN erxwrpt ELSE unread[i + 1].at
            BY <1>8, <2>0, <4>2 DEF FramesHold
          <5>4. unread'[i + 1].at = IF i = Len(unread) THEN erxwrpt ELSE unread[i + 1].at
            BY <1>5, <1>7, <1>8, <4>2
          <5> QED  BY <1>8, <2>2, <2>4, <4>2, <5>1, <5>2, <5>3, <5>4
        <4> QED  BY <1>8, <4>1, <4>2
      <3>4. ASSUME NEW i \in DOMAIN unread', NEW j \in DOMAIN unread', i < j
            PROVE  D(unread'[i].at) + unread'[i].len <= D(unread'[j].at)
        <4>1. i \in 1 .. Len(unread) /\ unread'[i].at = unread[i].at /\ unread'[i].len = unread[i].len
          BY <1>7, <1>8, <3>4
        <4>2. CASE j = Len(unread) + 1
          BY <1>5, <1>8, <2>4, <4>1, <4>2
        <4>3. CASE j \in 1 .. Len(unread)
          BY <1>7, <1>8, <2>0, <3>4, <4>1, <4>3 DEF FramesHold
        <4> QED  BY <1>8, <4>2, <4>3
      <3> QED  BY <1>3, <3>1, <3>2, <3>3, <3>4 DEF FramesHold
    <2> QED  BY <2>3, <2>5
  <1> QED  BY <1>3, <1>8, <1>9, <1>10 DEF RingInv

----------------------------------------------------------------------------
(* Reading.                                                                *)

\* The frame that is read leaves the queue; the others move up.
LEMMA Read ==
  ASSUME unread \in Seq(Frame), unread # <<>>, unread' = Tail(unread)
  PROVE  /\ unread' \in Seq(Frame) /\ Len(unread) \in Nat /\ Len(unread) >= 1
         /\ Len(unread') = Len(unread) - 1
         /\ DOMAIN unread = 1 .. Len(unread) /\ DOMAIN unread' = 1 .. Len(unread) - 1
         /\ Head(unread) = unread[1] /\ unread[1] \in Frame
         /\ \A i \in 1 .. Len(unread) - 1 : unread'[i] = unread[i + 1]
         /\ unread' = <<>> <=> Len(unread) = 1
  <1>1. /\ unread' \in Seq(Frame) /\ Len(unread') = Len(unread) - 1
        /\ \A i \in 1 .. Len(unread') : unread'[i] = unread[i + 1]
    BY HeadTailProperties
  <1>2. Len(unread) \in Nat /\ DOMAIN unread = 1 .. Len(unread) /\ Len(unread) # 0
    BY LenProperties, EmptySeq
  <1>3. DOMAIN unread' = 1 .. Len(unread) - 1 /\ Len(unread') \in Nat
    BY <1>1, LenProperties
  <1>4. Head(unread) = unread[1] /\ unread[1] \in Frame
    BY <1>2, ElementOfSeq
  <1>5. unread' = <<>> <=> Len(unread') = 0
    BY <1>1, EmptySeq
  <1> QED  BY <1>1, <1>2, <1>3, <1>4, <1>5

\* Where ERXRDPT goes: in the ring, unless the next frame begins at 0.
LEMMA ReadPointerInRing ==
  ASSUME NEW next \in Ring
  PROVE  ReadPointer(next) = IF next = 0 THEN Mem - 1 ELSE next - 1
  <1>1. CASE next = 0
    <2>1. ReadPointer(next) = (-1) % Mem
      <3>1. next - 1 = -1 /\ ~(next - 1 > RXSTOP_INIT)
        BY <1>1, Sizes
      <3> QED  BY <3>1 DEF ReadPointer
    <2>2. (-1) % Mem = Mem - 1
      <3>1. PICK m \in Nat : m = Mem /\ m >= 1
        BY Sizes
      <3>2. (-1) % m = m - 1
        BY <3>1
      <3> QED  BY <3>1, <3>2, Zenon
    <2> QED  BY <1>1, <2>1, <2>2, Zenon
  <1>2. CASE next # 0
    <2>1. next - 1 \in Nat /\ next - 1 < Mem /\ next - 1 <= RXSTOP_INIT
      BY <1>2, Sizes
    <2>2. ReadPointer(next) = (next - 1) % Mem
      BY <2>1, Sizes DEF ReadPointer
    <2>3. (next - 1) % Mem = next - 1
      BY <2>1, Sizes
    <2> QED  BY <1>2, <2>2, <2>3
  <1> QED  BY <1>1, <1>2

LEMMA ReadPointerType ==
  ASSUME NEW next \in 0 .. Mem - 1
  PROVE  ReadPointer(next) \in 0 .. Mem - 1
  <1>1. RXSTOP_INIT \in 0 .. Mem - 1
    BY Sizes
  <1>2. PICK b \in Int : b = next - 1
    BY Sizes
  <1>3. b % Mem \in 0 .. Mem - 1
    BY <1>2, Sizes
  <1>4. (next - 1) % Mem \in 0 .. Mem - 1
    BY <1>2, <1>3, Zenon
  <1> QED  BY <1>1, <1>4, Zenon DEF ReadPointer

LEMMA PacketReceiveKeeps ==
  ASSUME RingInv, PacketReceive
  PROVE  RingInv'
  <1>1. /\ unread # <<>> /\ gNextPacketPtr' \in Header /\ erxrdpt' = ReadPointer(gNextPacketPtr')
        /\ stray' = (stray \/ erxrdpt' \notin Ring) /\ unread' = Tail(unread)
        /\ UNCHANGED <<erxwrpt, transmitter>>
    BY DEF PacketReceive
  <1>2. /\ unread' \in Seq(Frame) /\ Len(unread) \in Nat /\ Len(unread) >= 1
        /\ Len(unread') = Len(unread) - 1
        /\ DOMAIN unread = 1 .. Len(unread) /\ DOMAIN unread' = 1 .. Len(unread) - 1
        /\ Head(unread) = unread[1] /\ unread[1] \in Frame
        /\ \A i \in 1 .. Len(unread) - 1 : unread'[i] = unread[i + 1]
        /\ unread' = <<>> <=> Len(unread) = 1
    BY <1>1, Read DEF RingInv
  <1>3. TypeOK'
    <2>1. gNextPacketPtr' \in 0 .. Mem - 1
      <3>1. Head(unread).next \in 0 .. Mem - 1
        BY <1>2, Sizes DEF Frame
      <3> QED  BY <1>1, <3>1 DEF Header
    <2>2. erxrdpt' \in 0 .. Mem - 1
      BY <1>1, <2>1, ReadPointerType
    <2>3. \A i \in DOMAIN unread' : unread'[i] \in Frame
      BY <1>2, ElementOfSeq, LenProperties
    <2>4. Len(unread') <= MaxUnread
      BY <1>2, Sizes DEF RingInv, TypeOK
    <2> QED  BY <1>1, <2>1, <2>2, <2>3, <2>4 DEF RingInv, TypeOK, transmitter
  <1>4. ASSUME ~stray'  PROVE PointersHold' /\ FramesHold'
    <2> DEFINE D(a) == Dist(gNextPacketPtr, a)
               g == gNextPacketPtr'
    <2>1. ~stray /\ erxrdpt' \in Ring /\ PointersHold /\ FramesHold
          /\ gNextPacketPtr \in Ring /\ erxwrpt \in Ring /\ Even(erxwrpt)
      BY <1>1, <1>4 DEF RingInv, TypeOK, PointersHold
    <2>2. ASSUME NEW i \in 1 .. Len(unread)
          PROVE  /\ unread[i].at \in Ring /\ unread[i].len \in Nat /\ D(unread[i].at) \in Nat
                 /\ unread[i].whole /\ Even(unread[i].at)
                 /\ D(unread[i].at) + unread[i].len <= D(erxwrpt)
                 /\ unread[i].next = (unread[i].at + unread[i].len) % Size
                 /\ unread[i].next = IF i = Len(unread) THEN erxwrpt ELSE unread[i + 1].at
      <3>1. unread[i] \in Frame
        BY <1>2 DEF RingInv, TypeOK
      <3>2. unread[i].at \in Ring /\ unread[i].len \in Lengths
        BY <3>1 DEF Frame
      <3>3. D(unread[i].at) \in Nat
        BY <2>1, <3>2, DistRange
      <3> QED  BY <1>2, <2>1, <3>2, <3>3, Sizes DEF FramesHold
    <2>3. g = IF Len(unread) = 1 THEN erxwrpt ELSE unread[2].at
      <3>1. 1 \in 1 .. Len(unread)
        BY <1>2
      <3>2. Head(unread).whole /\ Head(unread).at = gNextPacketPtr
        BY <1>1, <1>2, <2>1, <2>2, <3>1 DEF FramesHold
      <3>3. g = unread[1].next
        BY <1>1, <1>2, <3>2 DEF Header
      <3>4. 1 + 1 = 2 /\ (1 = Len(unread) <=> Len(unread) = 1)
        OBVIOUS
      <3>5. unread[1].next = IF 1 = Len(unread) THEN erxwrpt ELSE unread[1 + 1].at
        BY <2>2, <3>1, Zenon
      <3> QED  BY <3>3, <3>4, <3>5
    <2>4. g \in Ring /\ Even(g)
      <3>1. Len(unread) # 1 => 2 \in 1 .. Len(unread)
        BY <1>2
      <3> QED  BY <2>1, <2>2, <2>3, <3>1
    <2>5. PointersHold'
      <3>1. g # 0 /\ erxrdpt' = g - 1
        BY <1>1, <2>1, <2>4, ReadPointerInRing, Sizes
      <3> QED  BY <1>1, <2>1, <2>4, <3>1 DEF PointersHold
    <2>6. D(erxwrpt) \in Nat /\ D(g) \in Nat
      BY <2>1, <2>4, DistRange
    <2>7. D(g) <= D(erxwrpt) /\ \A i \in 1 .. Len(unread) - 1 : D(g) <= D(unread[i + 1].at)
      <3>1. CASE Len(unread) = 1
        BY <2>3, <2>6, <3>1
      <3>2. CASE Len(unread) # 1
        <4>1. 2 \in 1 .. Len(unread) /\ g = unread[2].at
          BY <1>2, <2>3, <3>2
        <4>2. D(unread[2].at) \in Nat /\ unread[2].len \in Nat
              /\ D(unread[2].at) + unread[2].len <= D(erxwrpt)
          BY <2>2, <4>1
        <4>3. ASSUME NEW i \in 1 .. Len(unread) - 1  PROVE D(g) <= D(unread[i + 1].at)
          <5>1. CASE i = 1
            <6>1. D(unread[i + 1].at) = D(g)
              BY <4>1, <5>1
            <6> QED  BY <2>6, <6>1
          <5>2. CASE i # 1
            <6>1. i + 1 \in 1 .. Len(unread) /\ 2 < i + 1
              BY <1>2, <5>2
            <6>2. D(unread[2].at) + unread[2].len <= D(unread[i + 1].at)
              BY <1>2, <2>1, <4>1, <6>1 DEF FramesHold
            <6>3. D(unread[i + 1].at) \in Nat
              BY <2>2, <6>1
            <6> QED  BY <4>1, <4>2, <6>2, <6>3
          <5> QED  BY <5>1, <5>2
        <4>4. D(g) <= D(erxwrpt)
          BY <2>6, <4>1, <4>2
        <4> QED  BY <4>3, <4>4
      <3> QED  BY <3>1, <3>2
    <2>8. FramesHold'
      <3>1. Dist(g, erxwrpt) = D(erxwrpt) - D(g)
        BY <2>1, <2>4, <2>7, ReadOn
      <3>2. ASSUME NEW i \in 1 .. Len(unread) - 1
            PROVE  /\ i + 1 \in 1 .. Len(unread) /\ unread'[i] = unread[i + 1]
                   /\ Dist(g, unread'[i].at) = D(unread[i + 1].at) - D(g)
        <4>1. i + 1 \in 1 .. Len(unread) /\ unread'[i] = unread[i + 1]
          BY <1>2
        <4>2. unread[i + 1].at \in Ring /\ D(g) <= D(unread[i + 1].at)
          BY <2>2, <2>7, <4>1
        <4> QED  BY <2>1, <2>4, <4>1, <4>2, ReadOn
      <3>3. ASSUME NEW i \in DOMAIN unread'
            PROVE  /\ unread'[i].whole /\ Even(unread'[i].at)
                   /\ Dist(g, unread'[i].at) + unread'[i].len <= Dist(g, erxwrpt)
                   /\ unread'[i].next = (unread'[i].at + unread'[i].len) % Size
                   /\ unread'[i].next = IF i = Len(unread') THEN erxwrpt ELSE unread'[i + 1].at
        <4>1. i \in 1 .. Len(unread) - 1 /\ i + 1 \in 1 .. Len(unread) /\ unread'[i] = unread[i + 1]
          BY <1>2, <3>2
        <4>2. /\ unread'[i].whole /\ Even(unread'[i].at)
              /\ unread'[i].next = (unread'[i].at + unread'[i].len) % Size
              /\ unread'[i].next = IF i + 1 = Len(unread) THEN erxwrpt ELSE unread[i + 1 + 1].at
          BY <2>2, <4>1
        <4>3. Dist(g, unread'[i].at) + unread'[i].len <= Dist(g, erxwrpt)
          <5>1. /\ D(unread[i + 1].at) + unread[i + 1].len <= D(erxwrpt)
                /\ D(unread[i + 1].at) \in Nat /\ unread[i + 1].len \in Nat
            BY <2>2, <4>1
          <5>2. Dist(g, unread'[i].at) = D(unread[i + 1].at) - D(g) /\ unread'[i].len = unread[i + 1].len
            BY <3>2, <4>1
          <5> QED  BY <2>6, <3>1, <5>1, <5>2
        <4>4. i + 1 # Len(unread) => unread'[i + 1] = unread[i + 1 + 1]
          BY <1>2, <4>1
        <4>5. i + 1 = Len(unread) <=> i = Len(unread')
          BY <1>2, <4>1
        <4> QED  BY <4>2, <4>3, <4>4, <4>5
      <3>4. ASSUME NEW i \in DOMAIN unread', NEW j \in DOMAIN unread', i < j
            PROVE  Dist(g, unread'[i].at) + unread'[i].len <= Dist(g, unread'[j].at)
        <4>1. /\ i \in 1 .. Len(unread) - 1 /\ j \in 1 .. Len(unread) - 1
              /\ i + 1 \in DOMAIN unread /\ j + 1 \in DOMAIN unread /\ i + 1 < j + 1
          BY <1>2, <3>4
        <4>2. D(unread[i + 1].at) + unread[i + 1].len <= D(unread[j + 1].at)
          BY <2>1, <4>1 DEF FramesHold
        <4>3. /\ D(unread[i + 1].at) \in Nat /\ unread[i + 1].len \in Nat
              /\ D(unread[j + 1].at) \in Nat
          BY <1>2, <2>2, <4>1
        <4>4. /\ Dist(g, unread'[i].at) = D(unread[i + 1].at) - D(g)
              /\ unread'[i].len = unread[i + 1].len
              /\ Dist(g, unread'[j].at) = D(unread[j + 1].at) - D(g)
          BY <3>2, <4>1
        <4> QED  BY <2>6, <4>2, <4>3, <4>4
      <3>5. unread' = <<>> => erxwrpt' = g
        BY <1>1, <1>2, <2>3
      <3>6. unread' # <<>> => unread'[1].at = g
        <4>1. Len(unread) # 1 => 1 \in 1 .. Len(unread) - 1
          BY <1>2
        <4> QED  BY <1>2, <2>3, <4>1
      <3> QED  BY <1>1, <3>3, <3>4, <3>5, <3>6 DEF FramesHold
    <2> QED  BY <2>5, <2>8
  <1> QED  BY <1>2, <1>3, <1>4 DEF RingInv

----------------------------------------------------------------------------
(* The other steps, and the theorems.                                      *)

\* The transmitter's steps leave the ring alone.
LEMMA TransmitterKeeps ==
  ASSUME RingInv, PacketSend \/ ResetTx \/ Transmit \/ TxEnds \/ UNCHANGED vars
  PROVE  RingInv'
  <1>1. UNCHANGED ring
    BY DEF PacketSend, ResetTx, Transmit, TxEnds, vars, ring
  <1>2. /\ {sending', txerif'} \subseteq BOOLEAN /\ tx' \in {"idle", "busy", "stuck"}
        /\ tx' = "stuck" => txerif'
    BY DEF RingInv, TypeOK, PacketSend, ResetTx, Transmit, TxEnds, vars
  <1>3. /\ (PointersHold /\ FramesHold)' <=> PointersHold /\ FramesHold
        /\ stray' = stray /\ unread' = unread
    BY <1>1 DEF ring, PointersHold, FramesHold
  <1>4. TypeOK'
    BY <1>1, <1>2 DEF RingInv, TypeOK, ring
  <1> QED  BY <1>3, <1>4 DEF RingInv

LEMMA InitializeKeeps == Initialize => RingInv'
  <1>1. Initialize => Init'
    BY DEF Initialize, Init
  <1> QED  BY <1>1, RingInit, PTL

LEMMA RingStep == RingInv /\ [Next]_vars => RingInv'
  <1> SUFFICES ASSUME RingInv, [Next]_vars  PROVE RingInv'
    OBVIOUS
  <1>1. CASE \E n \in Lengths : ChipReceives(n)
    BY <1>1, ChipReceivesKeeps
  <1>2. CASE PacketReceive
    BY <1>2, PacketReceiveKeeps
  <1>3. CASE PacketSend \/ ResetTx \/ Transmit \/ TxEnds \/ UNCHANGED vars
    BY <1>3, TransmitterKeeps
  <1>4. CASE Initialize
    BY <1>4, InitializeKeeps
  <1> QED  BY <1>1, <1>2, <1>3, <1>4 DEF Next

LEMMA RingInvImplies == RingInv => FramesIntact /\ NoLeak
  <1> SUFFICES ASSUME RingInv  PROVE FramesIntact /\ NoLeak
    OBVIOUS
  <1>1. FramesIntact
    <2>1. CASE stray
      BY <2>1 DEF RingInv, FramesIntact
    <2>2. CASE ~stray
      <3>1. FramesHold /\ unread \in Seq(Frame)
        BY <2>2 DEF RingInv
      <3>2. unread # <<>> => Head(unread) = unread[1]
        OBVIOUS
      <3> QED  BY <3>1, <3>2 DEF RingInv, FramesIntact, FramesHold
    <2> QED  BY <2>1, <2>2 DEF RingInv, TypeOK
  <1>2. NoLeak
    <2> SUFFICES ASSUME ~stray, unread = <<>>  PROVE Free >= Size - 2
      BY DEF NoLeak
    <2>1. TypeOK /\ PointersHold /\ erxwrpt = gNextPacketPtr
      BY DEF RingInv, FramesHold
    <2> QED  BY <2>1, FreeIsFree
  <1> QED  BY <1>1, <1>2

\* As long as ERXRDPT stays in the ring, whatever the order in which the chip
\* takes frames and packetReceive() reads them, none is written over before it
\* is read, and both sides agree where the next one begins.
THEOREM FramesStayIntact == Spec => []FramesIntact
  <1>1. Init => RingInv
    BY RingInit
  <1>2. RingInv /\ [Next]_vars => RingInv'
    BY RingStep
  <1>3. RingInv => FramesIntact
    BY RingInvImplies
  <1> QED  BY <1>1, <1>2, <1>3, PTL DEF Spec

\* As long as ERXRDPT stays in the ring, packetReceive() gives back the room of
\* every frame it reads: when all are read, all but two bytes are free.
THEOREM RoomComesBack == Spec => []NoLeak
  <1>1. Init => RingInv
    BY RingInit
  <1>2. RingInv /\ [Next]_vars => RingInv'
    BY RingStep
  <1>3. RingInv => NoLeak
    BY RingInvImplies
  <1> QED  BY <1>1, <1>2, <1>3, PTL DEF Spec

----------------------------------------------------------------------------
(* THE REGISTERS: what every access may do, call by call.                  *)

Resetting == {"initialize", "doBIST", "doBIST_fails"}
Tests == {"doBIST", "doBIST_fails"}
Disables == {"disableBroadcast", "disableBroadcast_temporary"}

\* What every access of a call may be and may not touch.
Harmless(c, a) ==
  /\ a.kind \in {"access", "reset", "clock", "idle", "dec", "zero"}
  /\ a.on \subseteq Bits \ {"RXBUSY"} /\ a.off \cap {"UCEN", "CRCEN", "TXRTS", "TXERIF"} = {}
  /\ a.kind = "reset" => c \in Resetting
  /\ a.kind = "zero" => c \in Tests
  /\ "BCEN" \in a.on => c \in {"initialize", "enableBroadcast", "enableBroadcast_temporary"}
  /\ "BCEN" \in a.off => c \in Disables
  /\ "MCEN" \in a.on => c = "enableMulticast"
  /\ "MCEN" \in a.off => c = "disableMulticast"
  /\ "PWRSV" \in a.on => c = "powerDown"
  /\ "RXEN" \in a.on => c # "powerDown"
  /\ "TXRTS" \in a.on => c = "packetSend"

Named(a) == a.kind = "access" /\ a.reg \notin AllBanks

\* An access without SetBank follows one to a register of the same bank.
Follows(s, n) ==
  Named(s[n]) /\ ~s[n].banked =>
    n > 1 /\ Named(s[n - 1]) /\ BankOf(s[n - 1].reg) = BankOf(s[n].reg)

\* After a reset the first access selects bank 0 or needs it.
ResetFirst(s) ==
  /\ Len(s) > 3 /\ s[1].kind = "reset" /\ s[2].kind = "clock"
  /\ s[3].kind = "zero" \/ s[3] = Reg("ERXST")
  /\ \A n \in 2 .. Len(s) : s[n].kind # "reset"
\* The accesses that calls are made of.
Used == {
   Reg("ERXFCON"), RegSet("ERXFCON", "BCEN"), RegClr("ERXFCON", "BCEN"),
   Reg("MIREGADR"), RegSet("MICMD", "BUSY"), While("MISTAT", "BUSY"), Reg("MICMD"),
   Reg("MIRD"), RegSet("MIWR", "BUSY"), Special("reset", "ECON1"), Special("clock",
   "ESTAT"), Reg("ERXST"), Reg("EPMM0"), Reg("MACON1"), OpSet("ECON1", "RXEN"),
   Reg("ERXRDPT"), Reg("ERXND"), Reg("ETXST"), Reg("ETXND"), Reg("EPMCS"),
   Reg("MACON2"), OpOn("MACON3"), Reg("MAIPG"), Reg("MABBIPG"), Reg("MAMXFL"),
   Reg("MAADR"), Reg("ECON1"), OpOn("EIE"), Reg("EREVID"), Special("idle", "ECON1"),
   Reg("EWRPT"), OpSet("ECON1", "TXRTS"), Reg("EPKTCNT"), Reg("ERDPT"),
   Special("dec", "ECON2"), While("ESTAT", "RXBUSY"), While("ECON1", "TXRTS"),
   OpClr("ECON1", "RXEN"), OpOn("ECON2"), OpSet("ECON2", "PWRSV"), OpClr("ECON2",
   "PWRSV"), Fill, OpWhile("EBSTCON",
   "BISTST"), OpClr("EBSTCON", "TME"), OpSet("ECON1", "DMAST"), Reg("EDMACS"),
   OpWhile("ECON1", "DMAST"), Reg("EBSTCS"), Special("zero", "ECON1"),
   Reg("EDMAST"), Reg("EDMAND"), Reg("EBSTSD"), RegSet("ERXFCON", "MCEN"),
   RegClr("ERXFCON", "MCEN") }

Sound(c, s) ==
  /\ s \in Seq(Used)
  /\ \A n \in DOMAIN s : Harmless(c, s[n]) /\ Follows(s, n)
  /\ c \in Resetting => ResetFirst(s)

\* How many accesses of the call have been made.
pos == Len(Calls[call]) - Len(todo)

\* The driver knows the bank, but from a reset to the access after it.
BanksHold ==
  /\ \/ Enc28j60Bank = bsel
     \/ call \in Resetting /\ (pos = 0 \/ (pos \in {1, 2} /\ bsel = 0))
  /\ todo # <<>> /\ Named(op) /\ ~op.banked => bsel = BankOf(op.reg)

\* What sketch and DHCP want let in, and the calls that are to change it.
Wanted == broadcast_enabled \/ (window /\ ~overruled)
Enables == {"enableBroadcast", "enableBroadcast_temporary"}
Multicasts == {"enableMulticast", "disableMulticast"}
Changing(cs) == call \in cs /\ todo # <<>>

\* The filter is as asked for, but for the call that is changing it.
FilterHolds ==
  /\ {"UCEN", "CRCEN"} \subseteq bits
  /\ call \in Enables \cup {"initialize"} => Wanted
  /\ call = "initialize" => broadcast_enabled /\ ~multicast
  /\ Changing(Disables) => ~Wanted
  /\ call = "enableMulticast" => multicast
  /\ call = "disableMulticast" => ~multicast
  /\ call \in Tests \/ Changing({"initialize"}) => ~up
  /\ up \/ (call = "initialize" /\ pos > 0) =>
       /\ Changing(Enables) \/ Changing(Disables) \/ ("BCEN" \in bits <=> Wanted)
       /\ Changing(Multicasts) \/ ("MCEN" \in bits <=> multicast)

\* What powerDown() has brought to rest already.
SleepHolds ==
  call = "powerDown" =>
    /\ pos > 0 => "RXEN" \notin bits
    /\ pos > 1 => "RXBUSY" \notin bits
    /\ pos > 2 => "TXRTS" \notin bits

\* Nothing is sent during a self-test.
TestHolds == call \in Tests /\ pos > 0 => "TXRTS" \notin bits

RegInv == RegTypeOK /\ BanksHold /\ FilterHolds /\ SleepHolds /\ TestHolds

LEMMA ShortCalls ==
  /\ Sound("peekin", <<Reg("ERDPT")>>)
  /\ Sound("packetSend", packetSend)
  /\ Sound("packetReceive", packetReceive)
  /\ Sound("packetReceive_None", <<Reg("EPKTCNT")>>)
  /\ Sound("isLinkUp", readPhyByte)
  /\ Sound("copyout", <<Reg("EWRPT")>>)
  /\ Sound("copyin", <<Reg("ERDPT")>>)
  /\ Sound("powerDown", powerDown)
  /\ Sound("powerUp", powerUp)
  /\ Sound("enableBroadcast", enableBroadcast)
  /\ Sound("enableBroadcast_temporary", enableBroadcast)
  /\ Sound("disableBroadcast", disableBroadcast)
  /\ Sound("disableBroadcast_temporary", disableBroadcast)
  /\ Sound("enableMulticast", <<Reg("ERXFCON"), RegSet("ERXFCON", "MCEN")>>)
  /\ Sound("disableMulticast", <<Reg("ERXFCON"), RegClr("ERXFCON", "MCEN")>>)
  <1> USE DEF Sound, Used, Harmless, Bits, AfterReset, Timed, Resetting, Disables, Tests,
              Follows, Named, AllBanks, BankOf,
              Special, Reg, RegSet, RegClr, While, Access, OpSet, OpClr, OpWhile, OpOn
  <1>1. Sound("peekin", <<Reg("ERDPT")>>)
    OBVIOUS
  <1>2. Sound("packetSend", packetSend)
    BY DEF packetSend
  <1>3. Sound("packetReceive", packetReceive)
    BY DEF packetReceive
  <1>4. Sound("packetReceive_None", <<Reg("EPKTCNT")>>)
    OBVIOUS
  <1>5. Sound("isLinkUp", readPhyByte)
    BY DEF readPhyByte
  <1>6. Sound("copyout", <<Reg("EWRPT")>>)
    OBVIOUS
  <1>7. Sound("copyin", <<Reg("ERDPT")>>)
    OBVIOUS
  <1>8. Sound("powerDown", powerDown)
    BY DEF powerDown
  <1>9. Sound("powerUp", powerUp)
    BY DEF powerUp
  <1>10. Sound("enableBroadcast", enableBroadcast)
    BY DEF enableBroadcast
  <1>11. Sound("enableBroadcast_temporary", enableBroadcast)
    BY DEF enableBroadcast
  <1>12. Sound("disableBroadcast", disableBroadcast)
    BY DEF disableBroadcast
  <1>13. Sound("disableBroadcast_temporary", disableBroadcast)
    BY DEF disableBroadcast
  <1>14. Sound("enableMulticast", <<Reg("ERXFCON"), RegSet("ERXFCON", "MCEN")>>)
    OBVIOUS
  <1>15. Sound("disableMulticast", <<Reg("ERXFCON"), RegClr("ERXFCON", "MCEN")>>)
    OBVIOUS
  <1> HIDE DEF Sound, Reg, RegSet, RegClr
  <1> QED
    BY <1>1, <1>2, <1>3, <1>4, <1>5, <1>6, <1>7, <1>8, <1>9, <1>10, <1>11, <1>12, <1>13,
       <1>14, <1>15

\* initialize() after its reset, without the one register it reaches by OpOn.
Initializing ==
  {Reg("ERXST"), Reg("ERXRDPT"), Reg("ERXND"), Reg("ETXST"), Reg("ETXND"), Reg("ERXFCON"),
   RegSet("ERXFCON", "BCEN"), Reg("EPMM0"), Reg("EPMCS"), Reg("MACON1"), Reg("MACON2"),
   Reg("MAIPG"), Reg("MABBIPG"), Reg("MAMXFL"), Reg("MAADR"), Reg("MIREGADR"),
   RegSet("MIWR", "BUSY"), While("MISTAT", "BUSY"), Reg("ECON1"), OpOn("EIE"),
   OpSet("ECON1", "RXEN"), Reg("EREVID")}

LEMMA InitializeIs ==
  /\ Len(initialize) = 25 /\ initialize \in Seq(Used)
  /\ initialize[1] = Special("reset", "ECON1") /\ initialize[2] = Special("clock", "ESTAT")
  /\ initialize[3] = Reg("ERXST")
  /\ initialize[13] = Reg("MACON2") /\ initialize[14] = OpOn("MACON3")
  /\ \A n \in 3 .. 25 : n = 14 \/ initialize[n] \in Initializing
  BY DEF initialize, SoftReset, enableBroadcast, writePhy, Used, Initializing

LEMMA InitializeSound == Sound("initialize", initialize)
  <1>1. \A a \in Initializing :
          Harmless("initialize", a) /\ (a.banked \/ ~Named(a)) /\ a.kind # "reset"
    <2>1. \A a \in Initializing : Harmless("initialize", a)
      BY DEF Initializing, Harmless, Bits, AfterReset, Timed, Resetting, Disables, Tests,
             Special, Reg, RegSet, RegClr, While, Access, OpSet, OpClr, OpWhile, OpOn
    <2>2. \A a \in Initializing : (a.banked \/ ~Named(a)) /\ a.kind # "reset"
      BY DEF Initializing, Named, AllBanks, Special, Reg, RegSet, RegClr, While, Access, OpSet,
         OpClr, OpWhile, OpOn
    <2> QED  BY <2>1, <2>2
  <1>2. Harmless("initialize", Special("reset", "ECON1"))
    BY DEF Harmless, Bits, AfterReset, Timed, Resetting, Disables, Tests,
             Special, Reg, RegSet, RegClr, While, Access, OpSet, OpClr, OpWhile, OpOn
  <1>3. Harmless("initialize", Special("clock", "ESTAT"))
    BY DEF Harmless, Bits, AfterReset, Timed, Resetting, Disables, Tests,
             Special, Reg, RegSet, RegClr, While, Access, OpSet, OpClr, OpWhile, OpOn
  <1>4. Harmless("initialize", OpOn("MACON3")) /\ OpOn("MACON3").kind # "reset"
    BY DEF Harmless, Bits, AfterReset, Timed, Resetting, Disables, Tests,
             Special, Reg, RegSet, RegClr, While, Access, OpSet, OpClr, OpWhile, OpOn
  <1>5. /\ Special("reset", "ECON1").kind = "reset" /\ Special("clock", "ESTAT").kind = "clock"
    BY DEF Special, Reg, Access
  <1>6. Follows(initialize, 14)
    <2>1. Named(Reg("MACON2")) /\ BankOf(Reg("MACON2").reg) = BankOf(OpOn("MACON3").reg)
      BY DEF Named, AllBanks, BankOf, Special, Reg, RegSet, RegClr, While, Access, OpSet,
         OpClr, OpWhile, OpOn
    <2> QED  BY InitializeIs, <2>1 DEF Follows
  <1>7. \A n \in 1 .. 25 : n = 1 \/ n = 2 \/ n = 14 \/ initialize[n] \in Initializing
    <2>1. \A n \in 1 .. 25 : n = 1 \/ n = 2 \/ n \in 3 .. 25
      OBVIOUS
    <2> QED  BY <2>1, InitializeIs
  <1>8. \A n \in 1 .. 25 : Harmless("initialize", initialize[n])
    BY InitializeIs, <1>1, <1>2, <1>3, <1>4, <1>7
  <1>9. \A n \in 1 .. 25 : Follows(initialize, n)
    <2>1. \A n \in {1, 2} : ~Named(initialize[n])
      BY InitializeIs, <1>5 DEF Named
    <2>2. \A n \in 1 .. 25 : n = 14 \/ initialize[n].banked \/ ~Named(initialize[n])
      BY <1>1, <1>7, <2>1, Zenon
    <2> QED  BY <1>6, <2>2, Zenon DEF Follows
  <1>10. ResetFirst(initialize)
    <2>1. \A n \in 2 .. 25 : n \in 1 .. 25 /\ n # 1
      OBVIOUS
    <2>2. \A n \in 2 .. 25 : initialize[n].kind # "reset"
      <3>1. Special("clock", "ESTAT").kind # "reset"
        BY <1>5
      <3> QED  BY InitializeIs, <1>1, <1>4, <1>7, <2>1, <3>1, Zenon
    <2>3. initialize[1].kind = "reset" /\ initialize[2].kind = "clock"
      BY InitializeIs, <1>5
    <2>4. Len(initialize) = 25 /\ initialize[3] = Reg("ERXST")
      BY InitializeIs
    <2> QED  BY <2>2, <2>3, <2>4 DEF ResetFirst
  <1>11. initialize \in Seq(Used) /\ DOMAIN initialize = 1 .. 25
    BY InitializeIs
  <1> QED  BY <1>8, <1>9, <1>10, <1>11 DEF Sound

\* The self-tests after their reset; all but two kinds of access find their bank.
Testing ==
  {Special("zero", "ECON1"), Reg("EDMAST"), Reg("EDMAND"), Reg("ERXND"),
   Fill, OpSet("ECON1", "DMAST"), Reg("EDMACS"),
   OpWhile("ECON1", "DMAST"), Reg("EBSTCS"), Reg("EBSTSD")}
Blind == {OpWhile("EBSTCON", "BISTST"), OpClr("EBSTCON", "TME")}

\* What may come before them.
Sighted == Blind \cup {Fill, Reg("EBSTCS")}
InTest(s, n) == s[n] \in Testing \/ (s[n] \in Blind /\ s[n - 1] \in Sighted)

LEMMA FirstTestIs ==
  /\ Len(FirstTest) = 14 /\ FirstTest \in Seq(Used)
  /\ FirstTest[1] = Special("reset", "ECON1") /\ FirstTest[2] = Special("clock", "ESTAT")
  /\ FirstTest[3] = Special("zero", "ECON1")
  /\ \A n \in 3 .. 14 : InTest(FirstTest, n)
  <1>1. Len(FirstTest) = 14 /\ FirstTest \in Seq(Used)
    BY DEF FirstTest, Test, SoftReset, Used
  <1>2. /\ FirstTest[1] = Special("reset", "ECON1") /\ FirstTest[2] = Special("clock", "ESTAT")
        /\ FirstTest[3] = Special("zero", "ECON1")
        /\ FirstTest[7] = Fill /\ FirstTest[8] = OpWhile("EBSTCON", "BISTST")
        /\ FirstTest[9] = OpClr("EBSTCON", "TME")
    BY DEF FirstTest, Test, SoftReset
  <1>3. \A n \in 3 .. 14 : n \in {8, 9} \/ FirstTest[n] \in Testing
    BY DEF FirstTest, Test, SoftReset, Testing
  <1>4. InTest(FirstTest, 8) /\ InTest(FirstTest, 9)
    BY <1>2 DEF InTest, Blind, Sighted
  <1> QED  BY <1>1, <1>2, <1>3, <1>4 DEF InTest

LEMMA ThreeParts ==
  ASSUME NEW S, NEW a \in Seq(S), NEW b \in Seq(S), NEW c \in Seq(S), NEW s, s = a \o b \o c
  PROVE  /\ s \in Seq(S) /\ Len(s) = Len(a) + Len(b) + Len(c)
         /\ \A n \in 1 .. Len(a) : s[n] = a[n]
         /\ \A n \in 1 .. Len(b) : s[Len(a) + n] = b[n]
         /\ \A n \in 1 .. Len(c) : s[Len(a) + Len(b) + n] = c[n]
  <1> DEFINE d == a \o b
  <1>1. /\ d \in Seq(S) /\ Len(d) = Len(a) + Len(b)
        /\ \A i \in 1 .. Len(a) + Len(b) : d[i] = IF i <= Len(a) THEN a[i] ELSE b[i - Len(a)]
    BY ConcatProperties
  <1> HIDE DEF d
  <1>2. /\ d \o c \in Seq(S) /\ Len(d \o c) = Len(d) + Len(c)
        /\ \A i \in 1 .. Len(d) + Len(c) : (d \o c)[i] = IF i <= Len(d) THEN d[i] ELSE c[i - Len(d)]
    <2>1. d \in Seq(S)
      BY <1>1
    <2> QED  BY <2>1, ConcatProperties
  <1>3. \A n \in 1 .. Len(a) : (d \o c)[n] = a[n]
    BY <1>1, <1>2
  <1>4. \A n \in 1 .. Len(b) : (d \o c)[Len(a) + n] = b[n]
    BY <1>1, <1>2
  <1>5. \A n \in 1 .. Len(c) : (d \o c)[Len(a) + Len(b) + n] = c[n]
    BY <1>1, <1>2
  <1> QED  BY <1>1, <1>2, <1>3, <1>4, <1>5 DEF d

LEMMA BothTestsAre ==
  /\ Len(doBIST) = 24 /\ doBIST \in Seq(Used)
  /\ doBIST[1] = Special("reset", "ECON1") /\ doBIST[2] = Special("clock", "ESTAT")
  /\ doBIST[3] = Special("zero", "ECON1")
  /\ \A n \in 3 .. 24 : InTest(doBIST, n)
  <1>1. Test \in Seq(Used) /\ <<OpClr("EBSTCON", "TME"), Reg("EBSTSD")>> \in Seq(Used) /\ Len(Test) = 8
    BY DEF Test, Used
  <1>2. Len(<<OpClr("EBSTCON", "TME"), Reg("EBSTSD")>>) = 2
    OBVIOUS
  <1>3. /\ Len(doBIST) = 24 /\ doBIST \in Seq(Used)
        /\ \A n \in 1 .. 14 : doBIST[n] = FirstTest[n]
        /\ doBIST[15] = OpClr("EBSTCON", "TME") /\ doBIST[16] = Reg("EBSTSD")
        /\ \A n \in 17 .. 24 : doBIST[n] = Test[n - 16]
    <2> DEFINE mid == <<OpClr("EBSTCON", "TME"), Reg("EBSTSD")>>
    <2>1. mid[1] = OpClr("EBSTCON", "TME") /\ mid[2] = Reg("EBSTSD")
      OBVIOUS
    <2>2. FirstTest \in Seq(Used) /\ mid \in Seq(Used) /\ Test \in Seq(Used)
      BY <1>1, FirstTestIs
    <2>3. Len(FirstTest) = 14 /\ Len(mid) = 2 /\ Len(Test) = 8
      BY <1>1, <1>2, FirstTestIs
    <2> HIDE DEF mid
    <2>4. /\ doBIST \in Seq(Used) /\ Len(doBIST) = 14 + 2 + 8
          /\ \A n \in 1 .. 14 : doBIST[n] = FirstTest[n]
          /\ \A n \in 1 .. 2 : doBIST[14 + n] = mid[n]
          /\ \A n \in 1 .. 8 : doBIST[14 + 2 + n] = Test[n]
      <3>1. doBIST = FirstTest \o mid \o Test
        BY DEF doBIST, mid
      <3>2. /\ doBIST \in Seq(Used) /\ Len(doBIST) = Len(FirstTest) + Len(mid) + Len(Test)
            /\ \A n \in 1 .. Len(FirstTest) : doBIST[n] = FirstTest[n]
            /\ \A n \in 1 .. Len(mid) : doBIST[Len(FirstTest) + n] = mid[n]
            /\ \A n \in 1 .. Len(Test) : doBIST[Len(FirstTest) + Len(mid) + n] = Test[n]
        BY <2>2, <3>1, ThreeParts
      <3> QED  BY <2>3, <3>2
    <2>5. \A n \in 17 .. 24 : n - 16 \in 1 .. 8 /\ n = 14 + 2 + (n - 16)
      OBVIOUS
    <2> QED  BY <2>1, <2>4, <2>5
  <1>4. /\ FirstTest[14] = Reg("EBSTCS")
        /\ Test[1] = Fill /\ Test[2] = OpWhile("EBSTCON", "BISTST") /\ Test[3] = OpClr("EBSTCON", "TME")
    BY DEF FirstTest, Test, SoftReset
  <1>5. \A n \in 1 .. 8 : n \in {2, 3} \/ Test[n] \in Testing
    BY DEF Test, Testing
  <1>6. \A n \in 3 .. 14 : InTest(doBIST, n)
    <2>1. \A n \in 3 .. 14 : n \in 1 .. 14 /\ n - 1 \in 1 .. 14
      OBVIOUS
    <2> QED  BY <1>3, <2>1, FirstTestIs DEF InTest
  <1>7. InTest(doBIST, 15) /\ InTest(doBIST, 16)
    <2>1. doBIST[14] = FirstTest[14]
      BY <1>3
    <2> QED  BY <1>3, <1>4, <2>1 DEF InTest, Blind, Sighted, Testing
  <1>8. InTest(doBIST, 18) /\ InTest(doBIST, 19)
    <2>1. doBIST[17] = Test[1] /\ doBIST[18] = Test[2] /\ doBIST[19] = Test[3]
      BY <1>3
    <2>2. doBIST[18] \in Blind /\ doBIST[19] \in Blind /\ {doBIST[17], doBIST[18]} \subseteq Sighted
      BY <1>4, <2>1 DEF Blind, Sighted
    <2> QED  BY <2>2 DEF InTest
  <1>9. \A n \in 17 .. 24 : n \in {18, 19} \/ InTest(doBIST, n)
    <2>1. \A n \in 17 .. 24 : n \in {18, 19} \/ (n - 16 \in 1 .. 8 /\ n - 16 \notin {2, 3})
      OBVIOUS
    <2>2. \A n \in 17 .. 24 : n \in {18, 19} \/ doBIST[n] \in Testing
      BY <1>3, <1>5, <2>1, Zenon
    <2> QED  BY <2>2 DEF InTest
  <1>10. \A n \in 3 .. 24 : n \in 3 .. 14 \/ n \in {15, 16} \/ n \in 17 .. 24
    OBVIOUS
  <1> QED  BY <1>3, <1>6, <1>7, <1>8, <1>9, <1>10, FirstTestIs

LEMMA TestsSound == Sound("doBIST_fails", FirstTest) /\ Sound("doBIST", doBIST)
  <1> DEFINE Start == {Special("reset", "ECON1"), Special("clock", "ESTAT")}
  <1>1. \A a \in Testing \cup Blind \cup Start, c \in Tests : Harmless(c, a)
    BY DEF Fill, Testing, Blind, Harmless, Bits, AfterReset, Timed, Resetting, Disables, Tests,
             Special, Reg, RegSet, RegClr, While, Access, OpSet, OpClr, OpWhile, OpOn
  <1>2. \A a \in Testing \cup Start : a.banked \/ ~Named(a)
    BY DEF Fill, Testing, Named, AllBanks, Special, Reg, RegSet, RegClr, While, Access, OpSet,
       OpClr, OpWhile, OpOn
  <1>3. \A a \in Testing \cup Blind : a.kind # "reset"
    BY DEF Fill, Testing, Blind, Special, Reg, RegSet, RegClr, While, Access, OpSet, OpClr,
       OpWhile, OpOn
  <1>4. \A a \in Sighted : Named(a) /\ BankOf(a.reg) = 3
    BY DEF Sighted, Blind, Fill, Named, AllBanks, BankOf, Special, Reg, RegSet, RegClr, While,
       Access, OpSet, OpClr, OpWhile, OpOn
  <1>5. /\ Special("reset", "ECON1").kind = "reset" /\ Special("clock", "ESTAT").kind = "clock"
        /\ Special("zero", "ECON1").kind = "zero"
    BY DEF Special, Reg, Access
  <1>6. ASSUME NEW c \in Tests, NEW s \in Seq(Used), Len(s) > 3,
               s[1] = Special("reset", "ECON1"), s[2] = Special("clock", "ESTAT"),
               s[3] = Special("zero", "ECON1"),
               \A n \in 3 .. Len(s) : InTest(s, n)
        PROVE  Sound(c, s)
    <2>1. \A n \in 1 .. Len(s) : \/ s[n] \in Testing \cup Start
                                 \/ n > 1 /\ s[n] \in Blind /\ s[n - 1] \in Sighted
      <3>1. \A n \in 1 .. Len(s) : n = 1 \/ n = 2 \/ (n \in 3 .. Len(s) /\ n > 1)
        OBVIOUS
      <3> QED  BY <1>6, <3>1 DEF InTest
    <2>2. \A n \in 1 .. Len(s) : Harmless(c, s[n])
      BY <1>1, <2>1
    <2>3. \A n \in 1 .. Len(s) : Follows(s, n)
      <3>1. Blind \subseteq Sighted
        BY DEF Sighted
      <3> HIDE DEF Start
      <3> QED  BY <1>2, <1>4, <2>1, <3>1 DEF Follows
    <2>4. \A n \in 2 .. Len(s) : s[n].kind # "reset"
      <3>1. \A n \in 2 .. Len(s) : n = 2 \/ n \in 3 .. Len(s)
        OBVIOUS
      <3>2. \A n \in 3 .. Len(s) : s[n] \in Testing \cup Blind
        BY <1>6 DEF InTest
      <3> QED  BY <1>3, <1>5, <1>6, <3>1, <3>2
    <2>5. ResetFirst(s)
      BY <1>5, <1>6, <2>4 DEF ResetFirst
    <2> QED  BY <2>2, <2>3, <2>5 DEF Sound
  <1>7. "doBIST_fails" \in Tests /\ "doBIST" \in Tests
    BY DEF Tests
  <1>8. Sound("doBIST_fails", FirstTest)
    <2>1. FirstTest \in Seq(Used) /\ Len(FirstTest) > 3
      BY FirstTestIs
    <2>2. \A n \in 3 .. Len(FirstTest) : InTest(FirstTest, n)
      BY FirstTestIs
    <2> QED  BY <1>6, <1>7, <2>1, <2>2, FirstTestIs
  <1>9. Sound("doBIST", doBIST)
    <2>1. doBIST \in Seq(Used) /\ Len(doBIST) > 3
      BY BothTestsAre
    <2>2. \A n \in 3 .. Len(doBIST) : InTest(doBIST, n)
      BY BothTestsAre
    <2> QED  BY <1>6, <1>7, <2>1, <2>2, BothTestsAre
  <1> QED  BY <1>8, <1>9

LEMMA CallsSound == \A c \in DOMAIN Calls : Sound(c, Calls[c])
  <1>1. DOMAIN Calls =
          {"initialize", "packetSend", "packetReceive", "packetReceive_None", "isLinkUp", "copyout",
           "copyin", "peekin", "powerDown", "powerUp", "enableBroadcast",
           "enableBroadcast_temporary", "disableBroadcast", "disableBroadcast_temporary",
           "enableMulticast", "disableMulticast", "doBIST", "doBIST_fails"}
    BY DEF Calls
  <1>2. Calls["initialize"] = initialize
    BY DEF Calls
  <1> QED  BY <1>1, ShortCalls, InitializeSound, TestsSound DEF Calls

----------------------------------------------------------------------------
(* Where in its call the driver is.                                        *)

LEMMA Slice ==
  ASSUME NEW S, NEW s \in Seq(S), NEW n \in 0 .. Len(s)
  PROVE  LET t == SubSeq(s, n + 1, Len(s))
         IN  /\ Len(t) = Len(s) - n
             /\ t # <<>> <=> n < Len(s)
             /\ n < Len(s) => Head(t) = s[n + 1] /\ Tail(t) = SubSeq(s, n + 2, Len(s))
  <1> DEFINE t == SubSeq(s, n + 1, Len(s))
  <1>1. t \in Seq(S) /\ Len(t) = Len(s) - n /\ \A i \in 1 .. Len(s) - n : t[i] = s[n + i]
    BY SubSeqProperties
  <1>2. n < Len(s) => Head(t) = s[n + 1]
    BY <1>1
  <1>3. t # <<>> <=> n < Len(s)
    <2> HIDE DEF t
    <2> QED  BY <1>1, EmptySeq
  <1>4. ASSUME n < Len(s)  PROVE Tail(t) = SubSeq(s, n + 2, Len(s))
    <2> DEFINE u == SubSeq(s, n + 2, Len(s))
    <2>1. u \in Seq(S) /\ Len(u) = Len(s) - n - 1 /\ \A i \in 1 .. Len(u) : u[i] = s[n + 1 + i]
      BY <1>4, SubSeqProperties
    <2>2. Tail(t) \in Seq(S) /\ Len(Tail(t)) = Len(t) - 1 /\ \A i \in 1 .. Len(Tail(t)) : Tail(t)[i] = t[i + 1]
      BY <1>1, <1>3, <1>4, HeadTailProperties
    <2> HIDE DEF t, u
    <2>3. \A i \in 1 .. Len(u) : Tail(t)[i] = u[i]
      BY <1>1, <1>4, <2>1, <2>2
    <2> QED BY <2>1, <2>2, <2>3, <1>1, SeqEqual DEF u
  <1> QED  BY <1>1, <1>2, <1>3, <1>4

LEMMA Position ==
  ASSUME RegTypeOK
  PROVE  /\ call \in DOMAIN Calls /\ Sound(call, Calls[call]) /\ Len(Calls[call]) \in Nat
         /\ pos \in 0 .. Len(Calls[call]) /\ todo = SubSeq(Calls[call], pos + 1, Len(Calls[call]))
         /\ Len(todo) = Len(Calls[call]) - pos
         /\ todo # <<>> <=> pos < Len(Calls[call])
         /\ todo # <<>> => /\ op = Calls[call][pos + 1] /\ pos + 1 \in DOMAIN Calls[call]
                           /\ Tail(todo) = SubSeq(Calls[call], pos + 2, Len(Calls[call]))
                           /\ Harmless(call, op) /\ Follows(Calls[call], pos + 1)
  <1>1. call \in DOMAIN Calls
    BY DEF RegTypeOK
  <1>2. Sound(call, Calls[call]) /\ Calls[call] \in Seq(Used)
    BY <1>1, CallsSound DEF Sound
  <1> DEFINE s == Calls[call]
  <1>3. PICK n \in 0 .. Len(s) : todo = SubSeq(s, n + 1, Len(s))
    BY DEF RegTypeOK
  <1>4. s \in Seq(Used)
    BY <1>2
  <1>5. Len(s) \in Nat /\ DOMAIN s = 1 .. Len(s)
    BY <1>4
  <1> HIDE DEF s
  <1>6. /\ Len(todo) = Len(s) - n
        /\ todo # <<>> <=> n < Len(s)
        /\ n < Len(s) => Head(todo) = s[n + 1] /\ Tail(todo) = SubSeq(s, n + 2, Len(s))
    BY <1>3, <1>4, Slice
  <1>7. Len(s) - Len(todo) = n
    BY <1>5, <1>6
  <1>8. pos = n
    BY <1>7 DEF pos, s
  <1>9. n < Len(s) => n + 1 \in DOMAIN s
    BY <1>5
  <1>10. n < Len(s) => Harmless(call, s[n + 1]) /\ Follows(s, n + 1)
    BY <1>2, <1>9 DEF Sound, s
  <1> QED  BY <1>1, <1>2, <1>3, <1>5, <1>6, <1>8, <1>9, <1>10 DEF s, op

\* An access made, and one to be repeated.
LEMMA Made ==
  ASSUME RegTypeOK, todo # <<>>, call' = call, todo' = Tail(todo)
  PROVE  /\ pos' = pos + 1 /\ todo' = SubSeq(Calls[call], pos' + 1, Len(Calls[call]))
         /\ todo' # <<>> <=> pos' < Len(Calls[call])
         /\ todo' # <<>> => op' = Calls[call][pos' + 1]
  <1> DEFINE s == Calls[call]
  <1>1. /\ s \in Seq(Used) /\ Len(s) \in Nat /\ pos \in 0 .. Len(s) /\ pos < Len(s)
        /\ todo' = SubSeq(s, pos + 2, Len(s))
    BY Position DEF Sound
  <1>2. PICK n \in Nat : n = pos + 1
    BY <1>1
  <1> HIDE DEF s
  <1>3. n \in 0 .. Len(s) /\ todo' = SubSeq(s, n + 1, Len(s))
    <2>1. n \in 0 .. Len(s) /\ n + 1 = pos + 2
      BY <1>1, <1>2
    <2> QED  BY <1>1, <2>1, Zenon
  <1>4. /\ Len(todo') = Len(s) - n
        /\ todo' # <<>> <=> n < Len(s)
        /\ n < Len(s) => Head(todo') = s[n + 1]
    BY <1>1, <1>3, Slice
  <1>5. Len(s) - Len(todo') = n
    <2>1. Len(s) \in Nat /\ Len(todo') = Len(s) - n
      BY <1>1, <1>4
    <2> QED  BY <2>1
  <1>6. pos' = n
    BY <1>5 DEF pos, s
  <1> QED  BY <1>2, <1>3, <1>4, <1>6 DEF op, s

LEMMA Repeated ==
  ASSUME call' = call, todo' = todo
  PROVE  pos' = pos /\ op' = op
  BY DEF pos, op

LEMMA FilterCalls ==
  /\ \A c \in Enables :
       Calls[c] # <<>> /\ Len(Calls[c]) = 2 /\ Calls[c][2] = RegSet("ERXFCON", "BCEN")
  /\ \A c \in Disables :
       Calls[c] # <<>> /\ Len(Calls[c]) = 2 /\ Calls[c][2] = RegClr("ERXFCON", "BCEN")
  /\ \A c \in Multicasts :
       /\ Calls[c] # <<>> /\ Len(Calls[c]) = 2
       /\ Calls[c][2] = IF c = "enableMulticast" THEN RegSet("ERXFCON", "MCEN")
                        ELSE RegClr("ERXFCON", "MCEN")
  <1>1. \A c \in Enables :
          Calls[c] # <<>> /\ Len(Calls[c]) = 2 /\ Calls[c][2] = RegSet("ERXFCON", "BCEN")
    BY DEF Calls, enableBroadcast, Enables
  <1>2. \A c \in Disables :
          Calls[c] # <<>> /\ Len(Calls[c]) = 2 /\ Calls[c][2] = RegClr("ERXFCON", "BCEN")
    BY DEF Calls, disableBroadcast, Disables
  <1>3. \A c \in Multicasts :
          /\ Calls[c] # <<>> /\ Len(Calls[c]) = 2
          /\ Calls[c][2] = IF c = "enableMulticast" THEN RegSet("ERXFCON", "MCEN")
                           ELSE RegClr("ERXFCON", "MCEN")
    BY DEF Calls, Multicasts
  <1> QED  BY <1>1, <1>2, <1>3

LEMMA PowerDownIs ==
  LET s == Calls["powerDown"]
  IN  /\ Len(s) = 5
      /\ s[1] = OpClr("ECON1", "RXEN") /\ s[2] = While("ESTAT", "RXBUSY")
      /\ s[3] = While("ECON1", "TXRTS") /\ s[4] = OpOn("ECON2") /\ s[5] = OpSet("ECON2", "PWRSV")
  BY DEF Calls, powerDown

LEMMA BankRange == \A r : BankOf(r) \in 0 .. 3
  BY DEF BankOf

----------------------------------------------------------------------------
(* The inductive step, one action at a time.                               *)

\* Whatever call begins, at its first access.
LEMMA Begins ==
  ASSUME NEW c \in DOMAIN Calls
  PROVE  LET s == Calls[c]
         IN  /\ Len(s) \in Nat /\ \E n \in 0 .. Len(s) : s = SubSeq(s, n + 1, Len(s))
             /\ Len(s) - Len(s) = 0
             /\ s # <<>> => ~Named(Head(s)) \/ Head(s).banked
  <1> DEFINE s == Calls[c]
  <1>1. s \in Seq(Used) /\ Sound(c, s)
    BY CallsSound DEF Sound
  <1>2. s = SubSeq(s, 0 + 1, Len(s)) /\ Len(s) \in Nat /\ 0 \in 0 .. Len(s)
    BY <1>1, Z3
  <1>3. s # <<>> => 1 \in DOMAIN s /\ Head(s) = s[1]
    BY <1>1
  <1>4. s # <<>> => Follows(s, 1)
    BY <1>1, <1>3 DEF Sound
  <1>5. Follows(s, 1) => ~Named(s[1]) \/ s[1].banked
    BY DEF Follows
  <1> HIDE DEF s
  <1>6. \E n \in 0 .. Len(s) : s = SubSeq(s, n + 1, Len(s))
    BY <1>2
  <1>7. Len(s) - Len(s) = 0
    BY <1>2
  <1> QED  BY <1>2, <1>3, <1>4, <1>5, <1>6, <1>7 DEF s

\* Between calls the driver knows the bank.
LEMMA Between ==
  ASSUME RegTypeOK, BanksHold, todo = <<>>
  PROVE  Enc28j60Bank = bsel
  <1>1. pos \in 0 .. Len(Calls[call]) /\ Len(Calls[call]) \in Nat /\ ~(pos < Len(Calls[call]))
    BY Position
  <1>2. call \in Resetting => Len(Calls[call]) > 3
    BY Position DEF Sound, ResetFirst
  <1>3. call \in Resetting => ~(pos = 0 \/ pos \in {1, 2})
    BY <1>1, <1>2
  <1> QED  BY <1>3 DEF BanksHold

LEMMA RegStart == RegInit => RegInv
  <1> SUFFICES ASSUME RegInit  PROVE RegInv
    OBVIOUS
  <1> USE DEF RegInit
  <1>1. "initialize" \in DOMAIN Calls /\ Calls["initialize"] = initialize
    BY DEF Calls
  <1>2. /\ \E n \in 0 .. Len(Calls[call]) : todo = SubSeq(Calls[call], n + 1, Len(Calls[call]))
        /\ pos = 0 /\ (todo # <<>> => ~Named(op) \/ op.banked)
    BY <1>1, Begins DEF pos, op
  <1>3. AfterReset \subseteq Bits /\ 0 \in 0 .. MaxReboots
    BY RebootsAssumption DEF Bits
  <1>4. RegTypeOK
    <2>1. {Enc28j60Bank, bsel} \subseteq 0 .. 3
      OBVIOUS
    <2>3. {hung, broadcast_enabled, window, overruled, multicast, up} \subseteq BOOLEAN
      BY Zenon
    <2>2. call \in DOMAIN Calls /\ reboots \in 0 .. MaxReboots /\ bits \subseteq Bits
      BY <1>1, <1>3
    <2> QED  BY <1>2, <2>1, <2>2, <2>3 DEF RegTypeOK
  <1>5. BanksHold
    BY <1>2 DEF BanksHold
  <1>6. FilterHolds /\ SleepHolds /\ TestHolds
    BY <1>2 DEF FilterHolds, Wanted, Changing, Enables, Multicasts, SleepHolds, TestHolds,
                AfterReset, Tests, Disables
  <1> QED  BY <1>4, <1>5, <1>6 DEF RegInv

LEMMA CallKeeps ==
  ASSUME RegInv, NEW c \in DOMAIN Calls, Call(c)
  PROVE  RegInv'
  <1>0. RegTypeOK /\ BanksHold /\ FilterHolds
    BY DEF RegInv
  <1>1. /\ todo = <<>> /\ call' = c
        /\ UNCHANGED <<Enc28j60Bank, bsel, bits, hung, reboots>>
    BY DEF Call
  <1>2. /\ c \in {"initialize", "enableBroadcast"} => broadcast_enabled'
        /\ c = "disableBroadcast" => ~broadcast_enabled' /\ overruled'
        /\ c = "enableBroadcast_temporary" => window' /\ ~overruled'
        /\ c = "disableBroadcast_temporary" => ~window' /\ broadcast_enabled' = broadcast_enabled
        /\ c \notin Enables \cup Disables \cup {"initialize"} => (Wanted' <=> Wanted)
        /\ c = "initialize" => ~multicast'
        /\ c = "enableMulticast" => multicast'
        /\ c = "disableMulticast" => ~multicast'
        /\ c \notin Multicasts \cup {"initialize"} => (multicast' <=> multicast)
        /\ up' = (up /\ c \notin {"initialize", "doBIST", "doBIST_fails"})
    BY DEF Call, Wanted, Enables, Disables, Multicasts
  <1>3. Enc28j60Bank = bsel
    BY <1>0, <1>1, Between
  <1>4. /\ {"UCEN", "CRCEN"} \subseteq bits
        /\ up => ("BCEN" \in bits <=> Wanted)
        /\ up => ("MCEN" \in bits <=> multicast)
    BY <1>0, <1>1 DEF FilterHolds, Changing
  <1>5. \/ todo' = <<>> /\ c = "disableBroadcast_temporary" /\ broadcast_enabled
        \/ todo' = Calls[c] /\ ~(c = "disableBroadcast_temporary" /\ broadcast_enabled)
    BY DEF Call, Accesses
  <1>6. \E n \in 0 .. Len(Calls[c]) : todo' = SubSeq(Calls[c], n + 1, Len(Calls[c]))
    <2>1. Calls[c] \in Seq(Used)
      BY CallsSound DEF Sound
    <2>2. Len(Calls[c]) \in Nat /\ <<>> = SubSeq(Calls[c], Len(Calls[c]) + 1, Len(Calls[c]))
      BY <2>1, SubSeqEmpty
    <2>3. Len(Calls[c]) \in 0 .. Len(Calls[c])
      BY <2>2
    <2> QED  BY <1>5, <2>2, <2>3, Begins
  <1>7. RegTypeOK'
    <2>1. /\ broadcast_enabled' \in BOOLEAN /\ window' \in BOOLEAN /\ overruled' \in BOOLEAN
          /\ multicast' \in BOOLEAN /\ up' \in BOOLEAN /\ hung \in BOOLEAN
      BY <1>0 DEF RegTypeOK, Call
    <2>2. {hung', broadcast_enabled', window', overruled', multicast', up'} \subseteq BOOLEAN
      BY <1>1, <2>1
    <2> QED  BY <1>0, <1>1, <1>6, <2>2 DEF RegTypeOK
  <1>8. todo' # <<>> => pos' = 0 /\ (~Named(op') \/ op'.banked)
    BY <1>1, <1>5, Begins DEF pos, op
  <1>9. BanksHold'
    BY <1>1, <1>3, <1>8 DEF BanksHold
  <1>10. c \in Enables \cup {"disableBroadcast"} \cup Multicasts => todo' # <<>>
    BY <1>5, FilterCalls DEF Enables, Disables, Multicasts
  <1>11. c = "disableBroadcast_temporary" => todo' # <<>> \/ broadcast_enabled
    BY <1>5, FilterCalls DEF Disables
  <1>12. c = "initialize" => ~up' /\ pos' = 0
    BY <1>1, <1>2, <1>5, Begins DEF pos
  <1>13. FilterHolds'
    <2>1. /\ {"UCEN", "CRCEN"} \subseteq bits'
          /\ c \in Tests \/ c = "initialize" => ~up'
          /\ c = "initialize" => broadcast_enabled' /\ ~multicast'
          /\ c = "enableMulticast" => multicast'
          /\ c = "disableMulticast" => ~multicast'
      BY <1>1, <1>2, <1>4 DEF Tests
    <2>2. c \in Enables \cup {"initialize"} => Wanted'
      BY <1>2 DEF Wanted, Enables
    <2>3. c \in Disables /\ todo' # <<>> => ~Wanted'
      BY <1>2, <1>5 DEF Wanted, Disables
    <2>4. up' => \/ c \in Enables /\ todo' # <<>>
                 \/ c \in Disables /\ todo' # <<>>
                 \/ ("BCEN" \in bits <=> Wanted')
      <3>1. CASE c \in Disables
        <4>1. ASSUME todo' = <<>>  PROVE Wanted' /\ Wanted
          BY <1>2, <1>5, <1>10, <1>11, <3>1, <4>1 DEF Disables, Wanted
        <4> QED  BY <1>2, <1>4, <3>1, <4>1
      <3>2. CASE c \notin Disables
        BY <1>2, <1>4, <1>10, <3>2
      <3> QED  BY <3>1, <3>2
    <2>5. up' => (c \in Multicasts /\ todo' # <<>>) \/ ("MCEN" \in bits <=> multicast')
      BY <1>2, <1>4, <1>10
    <2> QED  BY <1>1, <1>12, <2>1, <2>2, <2>3, <2>4, <2>5 DEF FilterHolds, Changing
  <1>14. c \in Tests \cup {"powerDown"} => pos' = 0
    BY <1>1, <1>5, Begins DEF pos, Tests
  <1> QED  BY <1>1, <1>7, <1>9, <1>13, <1>14 DEF RegInv, SleepHolds, TestHolds

LEMMA RebootKeeps == RegInv /\ Reboot => RegInv'
  <1> SUFFICES ASSUME RegInv, Reboot  PROVE RegInv'
    OBVIOUS
  <1>0. RegTypeOK /\ FilterHolds
    BY DEF RegInv
  <1> USE DEF Reboot
  <1>1. "initialize" \in DOMAIN Calls /\ Calls["initialize"] = initialize
    BY DEF Calls
  <1>2. /\ \E n \in 0 .. Len(Calls[call']) : todo' = SubSeq(Calls[call'], n + 1, Len(Calls[call']))
        /\ pos' = 0 /\ (todo' # <<>> => ~Named(op') \/ op'.banked)
    BY <1>1, Begins DEF pos, op
  <1>3. RegTypeOK'
    <2>1. {hung', broadcast_enabled', window', overruled', multicast', up'} \subseteq BOOLEAN
      BY <1>0 DEF RegTypeOK
    <2>2. reboots' \in 0 .. MaxReboots
      BY <1>0, RebootsAssumption DEF RegTypeOK
    <2>3. {Enc28j60Bank', bsel'} \subseteq 0 .. 3
      BY <1>0 DEF RegTypeOK
    <2>4. call' \in DOMAIN Calls
      BY <1>1
    <2> QED  BY <1>0, <1>2, <2>1, <2>2, <2>3, <2>4 DEF RegTypeOK
  <1>4. BanksHold'
    BY <1>2 DEF BanksHold, Resetting
  <1>5. FilterHolds'
    BY <1>0, <1>2 DEF FilterHolds, Wanted, Changing, Enables, Multicasts, Tests, Disables
  <1> QED  BY <1>2, <1>4, <1>3, <1>5 DEF RegInv, SleepHolds, TestHolds, Tests

\* The chip touches neither the banks nor what the filter and sleep rest on.
LEMMA ChipKeeps ==
  ASSUME RegInv,
         \/ Runs(RxBegins) \/ Runs(RxEnds) \/ Runs(TransmitEnds) \/ Runs(ClockStarts)
         \/ \E b \in Timed : Runs(Ends(b))
  PROVE  RegInv'
  <1>0. RegTypeOK /\ BanksHold /\ FilterHolds /\ SleepHolds /\ TestHolds
    BY DEF RegInv
  <1>1. UNCHANGED <<Enc28j60Bank, bsel, broadcast_enabled, window, overruled, multicast, call, todo,
                    up, reboots>>
    BY DEF Runs, driver, asked
  <1>2. pos' = pos /\ op' = op
    BY <1>1, Repeated
  <1>3. /\ bits' \subseteq Bits /\ hung' \in BOOLEAN
        /\ bits' \cap {"UCEN", "CRCEN", "BCEN", "MCEN", "RXEN"}
             = bits \cap {"UCEN", "CRCEN", "BCEN", "MCEN", "RXEN"}
        /\ "RXBUSY" \in bits' => "RXBUSY" \in bits \/ "RXEN" \in bits
        /\ "TXRTS" \in bits' => "TXRTS" \in bits
        /\ hung' => {"TXRTS", "TXERIF"} \subseteq bits'
    <2>0. /\ bits \subseteq Bits /\ hung \in BOOLEAN /\ (hung => {"TXRTS", "TXERIF"} \subseteq bits)
          /\ {"RXBUSY", "INT", "TXERIF", "CLKRDY"} \subseteq Bits
      BY <1>0 DEF RegTypeOK, Bits, AfterReset
    <2>1. CASE Runs(RxBegins)
      BY <2>0, <2>1 DEF Runs, RxBegins
    <2>2. CASE Runs(RxEnds)
      BY <2>0, <2>2 DEF Runs, RxEnds
    <2>3. CASE Runs(TransmitEnds)
      <3>1. \/ bits' = bits \ {"TXRTS"} /\ hung' = hung
            \/ bits' = (bits \ {"TXRTS"}) \cup {"TXERIF"} /\ hung' = hung
            \/ bits' = bits \cup {"TXERIF"} /\ hung' = TRUE
        BY <2>3 DEF Runs, TransmitEnds
      <3>2. "TXRTS" \in bits /\ ~hung
        BY <2>3 DEF Runs, TransmitEnds
      <3>3. bits' \subseteq Bits /\ hung' \in BOOLEAN
        BY <2>0, <3>1
      <3>4. \A b : b \notin {"TXRTS", "TXERIF"} => (b \in bits' <=> b \in bits)
        BY <3>1
      <3>5. hung' => {"TXRTS", "TXERIF"} \subseteq bits'
        BY <3>1, <3>2
      <3> QED  BY <3>2, <3>3, <3>4, <3>5
    <2>4. CASE Runs(ClockStarts)
      BY <2>0, <2>4 DEF Runs, ClockStarts
    <2>5. CASE \E b \in Timed : Runs(Ends(b))
      BY <2>0, <2>5 DEF Runs, Ends, Timed
    <2> QED  BY <2>1, <2>2, <2>3, <2>4, <2>5
  <1>4. RegTypeOK'
    <2>1. {hung', broadcast_enabled', window', overruled', multicast', up'} \subseteq BOOLEAN
      BY <1>0, <1>1, <1>3 DEF RegTypeOK
    <2> QED  BY <1>0, <1>1, <1>3, <2>1 DEF RegTypeOK
  <1>5. BanksHold'
    BY <1>0, <1>1, <1>2 DEF BanksHold
  <1>6. FilterHolds'
    BY <1>0, <1>1, <1>2, <1>3 DEF FilterHolds, Wanted, Changing
  <1>7. SleepHolds' /\ TestHolds'
    <2>1. pos \in Nat
      BY <1>0, Position
    <2> QED  BY <1>0, <1>1, <1>2, <1>3, <2>1 DEF SleepHolds, TestHolds
  <1> QED  BY <1>4, <1>5, <1>6, <1>7 DEF RegInv

\* What every access leaves as it is, and where the call goes on.
Stays == todo' = todo /\ up' = up /\ pos' = pos /\ op' = op
GoesOn ==
  /\ pos' = pos + 1 /\ (todo' # <<>> <=> pos' < Len(Calls[call]))
  /\ todo' # <<>> => op' = Calls[call][pos' + 1]
  /\ up' = (up \/ (call = "initialize" /\ todo' = <<>>))

LEMMA Goes ==
  ASSUME RegTypeOK, Execute
  PROVE  /\ todo # <<>> /\ call' = call /\ UNCHANGED <<broadcast_enabled, window, overruled, multicast, reboots>>
         /\ (Again => Stays) /\ (Done => GoesOn)
         /\ Stays \/ GoesOn
         /\ \E n \in 0 .. Len(Calls[call]) : todo' = SubSeq(Calls[call], n + 1, Len(Calls[call]))
  <1>1. todo # <<>> /\ call' = call /\ UNCHANGED <<broadcast_enabled, window, overruled, multicast, reboots>>
    BY DEF Execute, Reach, Resets, AwaitsClock, AwaitsIdle, Decrements, Zeroes, Rest, asked
  <1>2. Done \/ Again
    BY DEF Execute, Reach, Resets, AwaitsClock, AwaitsIdle, Decrements, Zeroes
  <1>3. ASSUME Again
        PROVE  Stays /\ \E n \in 0 .. Len(Calls[call]) : todo' = SubSeq(Calls[call], n + 1, Len(Calls[call]))
    <2>1. todo' = todo /\ up' = up /\ pos' = pos /\ op' = op
      BY <1>1, <1>3, Repeated DEF Again
    <2> QED  BY <1>1, <2>1 DEF RegTypeOK, Stays
  <1>4. ASSUME Done
        PROVE  GoesOn /\ \E n \in 0 .. Len(Calls[call]) : todo' = SubSeq(Calls[call], n + 1, Len(Calls[call]))
    <2>1. /\ pos' = pos + 1 /\ todo' = SubSeq(Calls[call], pos' + 1, Len(Calls[call]))
          /\ todo' # <<>> <=> pos' < Len(Calls[call])
          /\ todo' # <<>> => op' = Calls[call][pos' + 1]
      BY <1>1, <1>4, Made DEF Done
    <2>2. /\ pos \in 0 .. Len(Calls[call]) /\ pos < Len(Calls[call]) /\ Len(Calls[call]) \in Nat
          /\ Len(todo) = Len(Calls[call]) - pos
      BY <1>1, Position
    <2>3. Len(todo) = 1 <=> todo' = <<>>
      BY <2>1, <2>2
    <2>4. pos' \in 0 .. Len(Calls[call])
      BY <2>1, <2>2
    <2> QED  BY <1>1, <1>4, <2>1, <2>3, <2>4 DEF Done, GoesOn
  <1> QED  BY <1>1, <1>2, <1>3, <1>4

\* Where the driver may be wrong about the bank, the next access puts it right.
LEMMA MistakenBank ==
  ASSUME RegTypeOK, BanksHold, todo # <<>>
  PROVE  \/ Enc28j60Bank = bsel
         \/ call \in Resetting /\ pos = 0 /\ op.kind = "reset"
         \/ call \in Resetting /\ pos = 1 /\ bsel = 0 /\ op.kind = "clock"
         \/ call \in Resetting /\ pos = 2 /\ bsel = 0 /\ (op.kind = "zero" \/ op = Reg("ERXST"))
  <1>1. op = Calls[call][pos + 1] /\ (call \in Resetting => ResetFirst(Calls[call]))
    BY Position DEF Sound
  <1>2. CASE call \in Resetting /\ pos = 0
    BY <1>1, <1>2 DEF ResetFirst
  <1>3. CASE call \in Resetting /\ pos = 1 /\ bsel = 0
    BY <1>1, <1>3 DEF ResetFirst
  <1>4. CASE call \in Resetting /\ pos = 2 /\ bsel = 0
    BY <1>1, <1>4 DEF ResetFirst
  <1> QED  BY <1>2, <1>3, <1>4 DEF BanksHold

\* A reset comes first.
LEMMA ResetAtStart ==
  ASSUME RegTypeOK, todo # <<>>
  PROVE  /\ op.kind = "reset" => call \in Resetting /\ pos = 0
         /\ call \in Resetting /\ pos = 0 => op.kind = "reset"
  <1>1. /\ op = Calls[call][pos + 1] /\ (call \in Resetting => ResetFirst(Calls[call]))
        /\ Harmless(call, op) /\ pos \in 0 .. Len(Calls[call]) /\ pos < Len(Calls[call])
        /\ Len(Calls[call]) \in Nat
    BY Position DEF Sound
  <1>2. op.kind = "reset" => call \in Resetting
    BY <1>1 DEF Harmless
  <1>3. pos # 0 => pos + 1 \in 2 .. Len(Calls[call])
    BY <1>1
  <1>4. call \in Resetting /\ pos # 0 => op.kind # "reset"
    BY <1>1, <1>3 DEF ResetFirst
  <1>5. call \in Resetting /\ pos = 0 => op.kind = "reset"
    BY <1>1 DEF ResetFirst
  <1> QED  BY <1>2, <1>4, <1>5

\* After an access the driver knows the bank, and it is the register's.
LEMMA ReachesBank ==
  ASSUME RegTypeOK, BanksHold, Reach
  PROVE  /\ Enc28j60Bank' = bsel'
         /\ op.banked \/ op.reg \notin AllBanks => bsel' = BankOf(op.reg)
         /\ ~op.banked => bsel' = bsel
  <1>1. op.kind = "access" /\ todo # <<>>
    BY DEF Reach
  <1>2. Enc28j60Bank = bsel \/ (bsel = 0 /\ op = Reg("ERXST"))
    BY <1>1, MistakenBank
  <1>3. Reg("ERXST").banked /\ BankOf(Reg("ERXST").reg) = 0
    BY DEF Reg, Access, BankOf
  <1>4. CASE op.banked
    <2>1. SetBank(op.reg)
      BY <1>4 DEF Reach
    <2> QED  BY <1>2, <1>3, <1>4, <2>1 DEF SetBank
  <1>5. CASE ~op.banked
    <2>1. bsel' = bsel /\ Enc28j60Bank' = Enc28j60Bank
      BY <1>5 DEF Reach, NoSetBank
    <2>2. op.reg \notin AllBanks => bsel = BankOf(op.reg)
      BY <1>1, <1>5 DEF BanksHold, Named
    <2> QED  BY <1>2, <1>3, <1>5, <2>1, <2>2
  <1> QED  BY <1>4, <1>5

LEMMA BanksKept ==
  ASSUME RegTypeOK, BanksHold, Execute
  PROVE  BanksHold' /\ Enc28j60Bank' \in 0 .. 3 /\ bsel' \in 0 .. 3
  <1>1. /\ todo # <<>> /\ call' = call /\ (Again => Stays) /\ (Done => GoesOn) /\ (Stays \/ GoesOn)
    BY Goes
  <1>2. pos \in Nat /\ Sound(call, Calls[call]) /\ op = Calls[call][pos + 1] /\ Len(Calls[call]) \in Nat
    BY <1>1, Position
  <1>3. Enc28j60Bank \in 0 .. 3 /\ bsel \in 0 .. 3 /\ \A r : BankOf(r) \in 0 .. 3
    BY BankRange DEF RegTypeOK
  \* The access after one that is not of a named register sets its bank itself.
  <1>4. ASSUME todo' # <<>>, Named(op'), ~op'.banked
        PROVE  \/ Stays
               \/ Named(op) /\ BankOf(op.reg) = BankOf(op'.reg)
    <2>1. CASE GoesOn
      <3>1. pos' + 1 = pos + 2 /\ pos' < Len(Calls[call]) /\ op' = Calls[call][pos' + 1]
        BY <1>2, <1>4, <2>1 DEF GoesOn
      <3>2. pos + 2 \in DOMAIN Calls[call] /\ pos + 2 - 1 = pos + 1
        BY <1>2, <2>1, <3>1 DEF GoesOn, Sound
      <3>3. op' = Calls[call][pos + 2]
        BY <3>1
      <3>4. Follows(Calls[call], pos + 2)
        BY <1>2, <3>2 DEF Sound
      <3> QED  BY <1>2, <1>4, <3>2, <3>3, <3>4 DEF Follows
    <2> QED  BY <1>1, <2>1
  <1>5. CASE Reach
    <2>1. /\ Enc28j60Bank' = bsel' /\ (op.reg \notin AllBanks => bsel' = BankOf(op.reg))
          /\ (~op.banked => bsel' = bsel)
      BY <1>5, ReachesBank
    <2>2. Enc28j60Bank' \in 0 .. 3
      BY <1>3, <1>5 DEF Reach, SetBank, NoSetBank
    <2>3. todo' # <<>> /\ Named(op') /\ ~op'.banked => bsel' = BankOf(op'.reg)
      <3>1. CASE Stays
        BY <1>1, <2>1, <3>1 DEF Stays, BanksHold, Named
      <3>2. CASE ~Stays
        BY <1>4, <2>1, <3>2 DEF Named
      <3> QED  BY <3>1, <3>2
    <2> QED  BY <2>1, <2>2, <2>3 DEF BanksHold
  <1>6. CASE op.kind # "access"
    <2>1. todo' # <<>> /\ Named(op') /\ ~op'.banked => FALSE
      BY <1>4, <1>6 DEF Named, Stays
    <2>2. CASE Resets
      <3>1. call \in Resetting /\ pos = 0
        BY <1>1, <2>2, ResetAtStart DEF Resets
      <3>2. pos' = 1 /\ bsel' = 0 /\ Enc28j60Bank' = Enc28j60Bank
        BY <1>1, <2>2, <3>1 DEF Resets, GoesOn
      <3> QED  BY <1>1, <1>3, <2>1, <3>1, <3>2 DEF BanksHold
    <2>3. CASE AwaitsClock
      <3>1. Enc28j60Bank = bsel \/ (call \in Resetting /\ pos = 1 /\ bsel = 0)
        BY <1>1, <2>3, MistakenBank DEF AwaitsClock, Reg, Access
      <3>2. CASE call = "powerUp"
        BY <1>3, <2>1, <2>3, <3>1, <3>2 DEF AwaitsClock, SetBank, BanksHold, Resetting
      <3>3. CASE call # "powerUp"
        <4>1. bsel' = bsel /\ Enc28j60Bank' = Enc28j60Bank
          BY <2>3, <3>3 DEF AwaitsClock, NoSetBank
        <4>2. pos = 1 => pos' \in {1, 2}
          BY <1>1 DEF Stays, GoesOn
        <4> QED  BY <1>1, <1>3, <2>1, <3>1, <4>1, <4>2 DEF BanksHold
      <3> QED  BY <3>2, <3>3
    <2>4. CASE AwaitsIdle \/ Decrements
      <3>1. Enc28j60Bank = bsel
        BY <1>1, <2>4, MistakenBank DEF AwaitsIdle, Decrements, Reg, Access
      <3>2. \/ bsel' = bsel /\ Enc28j60Bank' = Enc28j60Bank
            \/ bsel' = BankOf("EIR") /\ Enc28j60Bank' = BankOf("EIR")
        BY <2>4 DEF AwaitsIdle, Decrements, NoSetBank, SetBank
      <3> QED  BY <1>3, <2>1, <3>1, <3>2 DEF BanksHold
    <2>5. CASE Zeroes
      BY <1>3, <2>1, <2>5 DEF BanksHold, Zeroes
    <2>6. CASE Reach
      BY <1>6, <2>6 DEF Reach
    <2> QED  BY <2>2, <2>3, <2>4, <2>5, <2>6 DEF Execute
  <1> QED  BY <1>5, <1>6 DEF Execute, Resets, AwaitsClock, AwaitsIdle, Decrements, Zeroes

\* What an access does to the bits.
LEMMA Effects ==
  ASSUME Execute
  PROVE  \/ Reach /\ op.kind = "access" /\ hung' = hung
              /\ bits' = ((bits \ op.off) \cup op.on) \ IF "PWRSV" \in op.on THEN {"CLKRDY"} ELSE {}
         \/ op.kind = "reset" /\ bits' = AfterReset /\ hung' = FALSE
         \/ op.kind = "zero" /\ bits' = bits \ {"RXEN", "TXRTS", "DMAST"} /\ hung' = hung
         \/ op.kind \in {"clock", "idle", "dec"} /\ bits' = bits /\ hung' = hung
         \/ op.kind \in {"clock", "idle", "dec"} /\ bits' = bits \ {"INT"} /\ hung' = hung
         \/ op.kind \in {"clock", "idle", "dec"} /\ bits' = bits \ {"TXRTS"} /\ hung' = FALSE
  BY DEF Execute, Reach, Resets, AwaitsClock, AwaitsIdle, Decrements, Zeroes

\* The bits that the properties are about.
LEMMA BitsKept ==
  ASSUME RegTypeOK, TestHolds, {"UCEN", "CRCEN"} \subseteq bits, Execute
  PROVE  /\ bits' \subseteq Bits /\ hung' \in BOOLEAN
         /\ hung' => {"TXRTS", "TXERIF"} \subseteq bits'
         /\ {"UCEN", "CRCEN"} \subseteq bits'
         /\ "TXRTS" \in bits' => "TXRTS" \in bits \/ call = "packetSend"
         /\ "RXBUSY" \in bits' => "RXBUSY" \in bits
         /\ "RXEN" \in bits' /\ call = "powerDown" => "RXEN" \in bits
         /\ "BCEN" \in bits' => \/ "BCEN" \in bits \/ op.kind = "reset"
                                \/ call \in Enables \cup {"initialize"}
         /\ "BCEN" \in bits => "BCEN" \in bits' \/ call \in Disables
         /\ "MCEN" \in bits' => "MCEN" \in bits \/ call = "enableMulticast"
         /\ "MCEN" \in bits => "MCEN" \in bits' \/ op.kind = "reset" \/ call = "disableMulticast"
  <1>1. /\ bits \subseteq Bits /\ hung \in BOOLEAN /\ (hung => {"TXRTS", "TXERIF"} \subseteq bits)
        /\ AfterReset \subseteq Bits
    BY DEF RegTypeOK, Bits
  <1>2. todo # <<>> /\ Harmless(call, op)
    BY Goes, Position
  <1>3. CASE /\ Reach /\ op.kind = "access" /\ hung' = hung
             /\ bits' = ((bits \ op.off) \cup op.on) \ IF "PWRSV" \in op.on THEN {"CLKRDY"} ELSE {}
    <2>1. \A b : b # "CLKRDY" => (b \in bits' <=> (b \in bits /\ b \notin op.off) \/ b \in op.on)
      BY <1>3
    <2>2. bits' \subseteq bits \cup op.on
      BY <1>3
    <2>3. /\ op.on \subseteq Bits \ {"RXBUSY"} /\ op.off \cap {"UCEN", "CRCEN", "TXRTS", "TXERIF"} = {}
          /\ "BCEN" \in op.on => call \in Enables \cup {"initialize"}
          /\ "BCEN" \in op.off => call \in Disables
          /\ "MCEN" \in op.on => call = "enableMulticast"
          /\ "MCEN" \in op.off => call = "disableMulticast"
          /\ "RXEN" \in op.on => call # "powerDown"
          /\ "TXRTS" \in op.on => call = "packetSend"
      BY <1>2 DEF Harmless, Enables
    <2>4. bits' \subseteq Bits
      BY <1>1, <2>2, <2>3
    <2>5. \A b \in {"UCEN", "CRCEN", "TXRTS", "TXERIF"} : b \in bits => b \in bits'
      BY <2>1, <2>3
    <2>6. (hung' => {"TXRTS", "TXERIF"} \subseteq bits') /\ {"UCEN", "CRCEN"} \subseteq bits'
      BY <1>1, <1>3, <2>5
    <2>7. /\ "TXRTS" \in bits' => "TXRTS" \in bits \/ call = "packetSend"
          /\ "RXBUSY" \in bits' => "RXBUSY" \in bits
          /\ "RXEN" \in bits' /\ call = "powerDown" => "RXEN" \in bits
      BY <2>1, <2>3
    <2>8. /\ "BCEN" \in bits' => "BCEN" \in bits \/ call \in Enables \cup {"initialize"}
          /\ "BCEN" \in bits => "BCEN" \in bits' \/ call \in Disables
          /\ "MCEN" \in bits' => "MCEN" \in bits \/ call = "enableMulticast"
          /\ "MCEN" \in bits => "MCEN" \in bits' \/ call = "disableMulticast"
      BY <2>1, <2>3
    <2> QED  BY <1>1, <1>3, <2>4, <2>6, <2>7, <2>8
  <1>4. CASE op.kind = "reset" /\ bits' = AfterReset /\ hung' = FALSE
    BY <1>1, <1>4 DEF AfterReset
  <1>5. CASE op.kind = "zero" /\ bits' = bits \ {"RXEN", "TXRTS", "DMAST"} /\ hung' = hung
    <2>1. call \in Tests /\ pos \in Nat
      BY <1>2, <1>5, Position DEF Harmless
    <2>2. pos > 0
      BY <1>2, <1>5, <2>1, ResetAtStart DEF Tests, Resetting
    <2>3. ~hung
      BY <1>1, <2>1, <2>2 DEF TestHolds
    <2> QED  BY <1>1, <1>5, <2>3
  <1>6. CASE op.kind \in {"clock", "idle", "dec"} /\ bits' = bits /\ hung' = hung
    BY <1>1, <1>6
  <1>7. CASE op.kind \in {"clock", "idle", "dec"} /\ bits' = bits \ {"INT"} /\ hung' = hung
    BY <1>1, <1>7
  <1>8. CASE op.kind \in {"clock", "idle", "dec"} /\ bits' = bits \ {"TXRTS"} /\ hung' = FALSE
    BY <1>1, <1>8
  <1> QED  BY <1>3, <1>4, <1>5, <1>6, <1>7, <1>8, Effects

LEMMA FilterKeeps ==
  ASSUME RegInv, Execute
  PROVE  FilterHolds'
  <1>0. RegTypeOK /\ FilterHolds /\ TestHolds
    BY DEF RegInv
  <1>1. /\ todo # <<>> /\ call' = call /\ (Stays \/ GoesOn)
        /\ UNCHANGED <<broadcast_enabled, window, overruled, multicast>>
    BY <1>0, Goes
  <1>2. /\ {"UCEN", "CRCEN"} \subseteq bits'
        /\ "BCEN" \in bits' => \/ "BCEN" \in bits \/ op.kind = "reset"
                               \/ call \in Enables \cup {"initialize"}
        /\ "BCEN" \in bits => "BCEN" \in bits' \/ call \in Disables
        /\ "MCEN" \in bits' => "MCEN" \in bits \/ call = "enableMulticast"
        /\ "MCEN" \in bits => "MCEN" \in bits' \/ op.kind = "reset" \/ call = "disableMulticast"
    BY <1>0, BitsKept DEF FilterHolds
  <1>3. /\ pos \in 0 .. Len(Calls[call]) /\ Len(Calls[call]) \in Nat
        /\ pos < Len(Calls[call]) /\ op = Calls[call][pos + 1]
    BY <1>0, <1>1, Position
  <1>4. /\ op.kind = "reset" => call \in Resetting /\ pos = 0 /\ bits' = AfterReset
        /\ call \in Resetting /\ pos = 0 => op.kind = "reset"
    BY <1>0, <1>1, ResetAtStart, Effects
  <1>5. up' = (up \/ (call = "initialize" /\ todo' = <<>>)) \/ up' = up
    BY <1>1 DEF Stays, GoesOn
  \* The last access of a call that changes the filter.
  <1>6. ASSUME Len(Calls[call]) = 2, todo' = <<>>
        PROVE  op = Calls[call][2]
    <2>1. GoesOn
      BY <1>1, <1>6 DEF Stays
    <2>2. pos + 1 = 2
      BY <1>3, <1>6, <2>1 DEF GoesOn
    <2> QED  BY <1>3, <2>2
  <1>7. ASSUME NEW b \in {"BCEN", "MCEN"}
        PROVE  /\ op = RegSet("ERXFCON", b) => b \in bits'
               /\ op = RegClr("ERXFCON", b) => b \notin bits'
    <2>1. /\ RegSet("ERXFCON", b).kind = "access" /\ RegSet("ERXFCON", b).on = {b}
          /\ RegClr("ERXFCON", b).kind = "access" /\ RegClr("ERXFCON", b).on = {}
          /\ RegClr("ERXFCON", b).off = {b} /\ b # "CLKRDY"
      BY DEF RegSet, RegClr, Access
    <2> QED  BY <2>1, Effects
  <1>8. /\ call \in Enables /\ todo' = <<>> => "BCEN" \in bits'
        /\ call \in Disables /\ todo' = <<>> => "BCEN" \notin bits'
        /\ call = "enableMulticast" /\ todo' = <<>> => "MCEN" \in bits'
        /\ call = "disableMulticast" /\ todo' = <<>> => "MCEN" \notin bits'
    BY <1>6, <1>7, FilterCalls DEF Multicasts
  <1>9. Wanted' = Wanted
    BY <1>1 DEF Wanted
  <1>10. CASE call = "initialize"
    <2>1. broadcast_enabled /\ Wanted /\ ~multicast /\ call \notin Enables \cup Disables \cup Multicasts
      BY <1>0, <1>10 DEF FilterHolds, Enables, Disables, Multicasts
    <2>2. pos > 0 => "BCEN" \in bits' /\ "MCEN" \notin bits'
      <3>1. pos > 0 => "BCEN" \in bits /\ "MCEN" \notin bits
        BY <1>0, <1>10, <2>1 DEF FilterHolds, Changing
      <3> QED  BY <1>2, <1>10, <2>1, <3>1
    <2>3. pos = 0 => "BCEN" \in bits' /\ "MCEN" \notin bits'
      BY <1>4, <1>10 DEF Resetting, AfterReset
    <2>4. "BCEN" \in bits' /\ "MCEN" \notin bits'
      BY <1>3, <2>2, <2>3
    <2>5. todo' # <<>> => ~up'
      BY <1>0, <1>1, <1>5, <1>10 DEF FilterHolds, Changing
    <2> QED  BY <1>1, <1>2, <1>9, <1>10, <2>1, <2>4, <2>5 DEF FilterHolds, Changing, Tests
  <1>11. CASE call # "initialize"
    <2>1. up' = up
      BY <1>0, <1>5, <1>11 DEF RegTypeOK
    <2>2. up => call \notin Resetting /\ op.kind # "reset"
      BY <1>0, <1>4, <1>11 DEF FilterHolds, Resetting, Tests
    <2>3. up => Changing(Enables)' \/ Changing(Disables)' \/ ("BCEN" \in bits' <=> Wanted)
      <3>1. CASE call \in Enables
        BY <1>0, <1>1, <1>8, <3>1 DEF FilterHolds, Changing
      <3>2. CASE call \in Disables
        BY <1>0, <1>1, <1>8, <3>2 DEF FilterHolds, Changing
      <3>3. CASE call \notin Enables \cup Disables
        BY <1>0, <1>2, <1>11, <2>2, <3>3 DEF FilterHolds, Changing
      <3> QED  BY <3>1, <3>2, <3>3
    <2>4. up => Changing(Multicasts)' \/ ("MCEN" \in bits' <=> multicast)
      <3>1. CASE call \in Multicasts
        BY <1>0, <1>1, <1>8, <3>1 DEF FilterHolds, Changing, Multicasts
      <3>2. CASE call \notin Multicasts
        BY <1>0, <1>2, <1>11, <2>2, <3>2 DEF FilterHolds, Changing, Multicasts
      <3> QED  BY <3>1, <3>2
    <2>5. Changing(Disables)' => Changing(Disables)
      BY <1>1 DEF Changing
    <2> QED  BY <1>0, <1>1, <1>2, <1>9, <1>11, <2>1, <2>3, <2>4, <2>5 DEF FilterHolds, Changing
  <1> QED  BY <1>10, <1>11

\* powerDown() first ends reception, then waits; a self-test begins with a reset.
LEMMA RestKept ==
  ASSUME RegInv, Execute
  PROVE  SleepHolds' /\ TestHolds'
  <1>0. RegTypeOK /\ FilterHolds /\ TestHolds /\ SleepHolds
    BY DEF RegInv
  <1>1. todo # <<>> /\ call' = call /\ (Stays \/ GoesOn)
    BY <1>0, Goes
  <1>2. /\ "TXRTS" \in bits' => "TXRTS" \in bits \/ call = "packetSend"
        /\ "RXBUSY" \in bits' => "RXBUSY" \in bits
        /\ "RXEN" \in bits' /\ call = "powerDown" => "RXEN" \in bits
    BY <1>0, BitsKept DEF FilterHolds
  <1>3. pos \in Nat /\ op = Calls[call][pos + 1] /\ (pos' = pos \/ pos' = pos + 1)
    BY <1>0, <1>1, Position DEF Stays, GoesOn
  <1>4. ASSUME call \in Tests, pos' > 0  PROVE "TXRTS" \notin bits'
    <2>1. CASE pos > 0
      BY <1>0, <1>2, <1>4, <2>1 DEF TestHolds, Tests
    <2>2. CASE pos = 0
      <3>1. op.kind = "reset"
        BY <1>0, <1>1, <1>4, <2>2, ResetAtStart DEF Tests, Resetting
      <3> QED  BY <3>1, Effects DEF AfterReset
    <2> QED  BY <1>3, <2>1, <2>2
  <1>5. ASSUME call = "powerDown"
        PROVE  /\ pos' > 0 => "RXEN" \notin bits'
               /\ pos' > 1 => "RXBUSY" \notin bits'
               /\ pos' > 2 => "TXRTS" \notin bits'
    <2>1. /\ pos > 0 => "RXEN" \notin bits'
          /\ pos > 1 => "RXBUSY" \notin bits'
          /\ pos > 2 => "TXRTS" \notin bits'
      BY <1>0, <1>2, <1>5 DEF SleepHolds
    <2>2. CASE Stays
      BY <2>1, <2>2 DEF Stays
    <2>3. CASE GoesOn
      <3>1. pos = 0 => "RXEN" \notin bits'
        <4>1. pos = 0 => op = OpClr("ECON1", "RXEN")
          BY <1>3, <1>5, PowerDownIs
        <4>2. /\ OpClr("ECON1", "RXEN").kind = "access" /\ OpClr("ECON1", "RXEN").on = {}
              /\ OpClr("ECON1", "RXEN").off = {"RXEN"}
          BY DEF OpClr, Access
        <4> QED  BY <4>1, <4>2, Effects
      <3>2. op.kind = "access" => op.while \cap bits = {}
        <4>1. ASSUME op.kind = "access", op.while \cap bits # {}  PROVE FALSE
          <5>1. Again
            BY <4>1 DEF Execute, Reach, Resets, AwaitsClock, AwaitsIdle, Decrements, Zeroes
          <5>2. Stays
            BY <1>0, <5>1, Goes
          <5> QED  BY <1>3, <2>3, <5>2 DEF Stays, GoesOn
        <4> QED  BY <4>1
      <3>3. pos = 1 => "RXBUSY" \notin bits
        <4>1. pos = 1 => op = While("ESTAT", "RXBUSY")
          BY <1>3, <1>5, PowerDownIs
        <4>2. While("ESTAT", "RXBUSY").kind = "access" /\ While("ESTAT", "RXBUSY").while = {"RXBUSY"}
          BY DEF While, Access
        <4> QED  BY <3>2, <4>1, <4>2
      <3>4. pos = 2 => "TXRTS" \notin bits
        <4>1. pos = 2 => op = While("ECON1", "TXRTS")
          BY <1>3, <1>5, PowerDownIs
        <4>2. While("ECON1", "TXRTS").kind = "access" /\ While("ECON1", "TXRTS").while = {"TXRTS"}
          BY DEF While, Access
        <4> QED  BY <3>2, <4>1, <4>2
      <3> QED  BY <1>2, <1>3, <1>5, <2>1, <2>3, <3>1, <3>3, <3>4 DEF GoesOn
    <2> QED  BY <1>1, <2>2, <2>3
  <1> QED  BY <1>1, <1>4, <1>5 DEF SleepHolds, TestHolds

LEMMA ExecuteKeeps == RegInv /\ Execute => RegInv'
  <1> SUFFICES ASSUME RegInv, Execute  PROVE RegInv'
    OBVIOUS
  <1>0. RegTypeOK /\ BanksHold /\ FilterHolds /\ TestHolds
    BY DEF RegInv
  <1>1. /\ call' = call /\ UNCHANGED <<broadcast_enabled, window, overruled, multicast, reboots>> /\ (Stays \/ GoesOn)
        /\ \E n \in 0 .. Len(Calls[call]) : todo' = SubSeq(Calls[call], n + 1, Len(Calls[call]))
    BY <1>0, Goes
  <1>2. /\ bits' \subseteq Bits /\ hung' \in BOOLEAN /\ (hung' => {"TXRTS", "TXERIF"} \subseteq bits')
    BY <1>0, BitsKept DEF FilterHolds
  <1>3. BanksHold' /\ Enc28j60Bank' \in 0 .. 3 /\ bsel' \in 0 .. 3
    BY <1>0, BanksKept
  <1>4. RegTypeOK'
    <2>1. up' \in BOOLEAN
      BY <1>0, <1>1 DEF Stays, GoesOn, RegTypeOK
    <2>2. {hung', broadcast_enabled', window', overruled', multicast', up'} \subseteq BOOLEAN
      BY <1>0, <1>1, <1>2, <2>1 DEF RegTypeOK
    <2> QED  BY <1>0, <1>1, <1>2, <1>3, <2>2 DEF RegTypeOK
  <1> QED  BY <1>3, <1>4, FilterKeeps, RestKept DEF RegInv

LEMMA RegStep == RegInv /\ [RegNext]_regVars => RegInv'
  <1> SUFFICES ASSUME RegInv, [RegNext]_regVars  PROVE RegInv'
    OBVIOUS
  <1>1. CASE Execute
    BY <1>1, ExecuteKeeps
  <1>2. CASE Reboot
    BY <1>2, RebootKeeps
  <1>3. CASE \E c \in DOMAIN Calls : Call(c)
    BY <1>3, CallKeeps
  <1>4. CASE \/ Runs(RxBegins) \/ Runs(RxEnds) \/ Runs(TransmitEnds) \/ Runs(ClockStarts)
             \/ \E b \in Timed : Runs(Ends(b))
    BY <1>4, ChipKeeps
  <1>5. CASE UNCHANGED regVars
    <2>1. pos' = pos /\ op' = op /\ UNCHANGED <<Enc28j60Bank, bsel, bits, hung, broadcast_enabled, window,
                        overruled, multicast, call, todo, up, reboots>>
      BY <1>5 DEF regVars, driver, asked, pos, op
    <2> QED  BY <2>1 DEF RegInv, RegTypeOK, BanksHold, FilterHolds, Wanted, Changing, SleepHolds, TestHolds
  <1> QED  BY <1>1, <1>2, <1>3, <1>4, <1>5 DEF RegNext

----------------------------------------------------------------------------
LEMMA RegInvariant == RegSpec => []RegInv
  <1>1. RegInv /\ [RegNext]_regVars => RegInv'
    BY RegStep
  <1> QED  BY RegStart, <1>1, PTL DEF RegSpec

\* Between calls the chip's receive filter lets in exactly what the sketch and
\* DHCP asked for with enableBroadcast(), disableBroadcast() and the multicast
\* calls, for any number of restarts of the board, with the one exception that
\* FilterKept names: the sketch's disableBroadcast() while DHCP waits.
THEOREM FilterIsKept == RegSpec => []FilterKept
  <1>1. RegInv => FilterKept
    <2> SUFFICES ASSUME RegInv  PROVE FilterKept
      OBVIOUS
    <2>1. RegTypeOK /\ FilterHolds
      BY DEF RegInv
    <2>2. up /\ todo = <<>> =>
            /\ {"UCEN", "CRCEN"} \subseteq bits
            /\ "MCEN" \in bits <=> multicast
            /\ "BCEN" \in bits <=> broadcast_enabled \/ (window /\ ~overruled)
      BY <2>1 DEF FilterHolds, Wanted, Changing
    <2> QED  BY <2>1, <2>2 DEF FilterKept
  <1> QED  BY RegInvariant, <1>1, PTL

\* Every access of every call reaches the register it names (SetBank()).
THEOREM RegistersReached == RegSpec => ReachesRegister
  <1>1. RegInv /\ [RegNext]_regVars
          => [Reach /\ op.reg \notin AllBanks => bsel' = BankOf(op.reg)]_regVars
    BY ReachesBank DEF RegInv
  <1> QED  BY RegInvariant, <1>1, PTL DEF RegSpec, ReachesRegister

\* powerDown() puts to sleep a chip at rest, whatever it was doing before.
THEOREM SleepIsQuiet == RegSpec => SleepsQuiet
  <1>1. RegInv /\ [RegNext]_regVars
          => ["PWRSV" \in bits' /\ "PWRSV" \notin bits
                => bits \cap {"RXEN", "RXBUSY", "TXRTS"} = {}]_regVars
    <2> SUFFICES ASSUME RegInv, RegNext, "PWRSV" \in bits', "PWRSV" \notin bits
                 PROVE  bits \cap {"RXEN", "RXBUSY", "TXRTS"} = {}
      OBVIOUS
    <2>0. RegTypeOK /\ SleepHolds
      BY DEF RegInv
    <2>1. Execute
      <3>1. ~Reboot /\ \A c \in DOMAIN Calls : ~Call(c)
        BY DEF Reboot, Call
      <3>2. ~Runs(RxBegins) /\ ~Runs(RxEnds) /\ ~Runs(ClockStarts) /\ \A b : ~Runs(Ends(b))
        BY DEF Runs, RxBegins, RxEnds, ClockStarts, Ends
      <3>3. ~Runs(TransmitEnds)
        <4>1. ~(bits' \in {bits \ {"TXRTS"}, (bits \ {"TXRTS"}) \cup {"TXERIF"}})
          OBVIOUS
        <4>2. ~(bits' = bits \cup {"TXERIF"})
          OBVIOUS
        <4> QED  BY <4>1, <4>2 DEF Runs, TransmitEnds
      <3> QED  BY <3>1, <3>2, <3>3 DEF RegNext
    <2>2. /\ todo # <<>> /\ Harmless(call, op) /\ op = Calls[call][pos + 1]
          /\ pos \in 0 .. Len(Calls[call]) /\ pos < Len(Calls[call])
      BY <2>0, <2>1, Goes, Position
    <2>3. "PWRSV" \in op.on
      <3>1. bits' \subseteq bits \cup op.on \/ bits' \subseteq bits \/ bits' = AfterReset
        BY <2>1, Effects
      <3> QED  BY <3>1 DEF AfterReset
    <2>4. call = "powerDown"
      BY <2>2, <2>3 DEF Harmless
    <2>5. pos \in 0 .. 4
      BY <2>2, <2>4, PowerDownIs
    <2>6. pos \notin {0, 1, 2, 3}
      <3>1. /\ OpClr("ECON1", "RXEN").on = {} /\ While("ESTAT", "RXBUSY").on = {}
            /\ While("ECON1", "TXRTS").on = {} /\ OpOn("ECON2").on = {}
        BY DEF OpClr, While, OpOn, Access
      <3> QED  BY <2>2, <2>3, <2>4, <3>1, PowerDownIs
    <2> QED  BY <2>0, <2>4, <2>5, <2>6 DEF SleepHolds
  <1> QED  BY RegInvariant, <1>1, PTL DEF RegSpec, SleepsQuiet
=============================================================================
