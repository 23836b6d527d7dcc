------------------------------ MODULE Enc28j60 ------------------------------
(***************************************************************************)
(* The chip's receive ring between its hardware, which writes frames, and  *)
(* packetReceive(), which reads them and gives their room back; and        *)
(* packetSend()'s wait for the transmitter (enc28j60.cpp).                 *)
(*                                                                         *)
(* Addresses are bytes.  A frame in the ring is its header and its bytes,  *)
(* padded to an even length; the header says where the next one begins.    *)
(***************************************************************************)
EXTENDS Integers, Sequences

CONSTANTS
  RXSTOP_INIT, \* the last byte of the ring; the first is RXSTART_INIT = 0
  Mem,         \* what the chip's address registers count to: 2^13
  Lengths,     \* lengths of frames in the ring
  MaxUnread    \* of EPKTCNT: 255

ASSUME RingAssumption ==
  /\ RXSTOP_INIT \in Nat /\ RXSTOP_INIT % 2 = 1
  /\ Mem \in Nat /\ Mem > RXSTOP_INIT + 1
  /\ Lengths \subseteq 2 .. RXSTOP_INIT - 1 /\ \A n \in Lengths : n % 2 = 0
  /\ MaxUnread \in Nat

VARIABLES
  erxwrpt,        \* where the chip writes next
  erxrdpt,        \* ERXRDPT: where it must not write
  unread,         \* the frames EPKTCNT counts, oldest first
  gNextPacketPtr, \* where the driver expects the oldest of them
  stray,          \* history: ERXRDPT was set outside the ring
  sending,        \* packetSend() waits for the transmitter
  tx,             \* TXRTS: "idle" or, set, "busy" or "stuck"
  txerif          \* TXERIF, which the driver never clears
ring == <<erxwrpt, erxrdpt, unread, gNextPacketPtr, stray>>
transmitter == <<sending, tx, txerif>>
vars == <<erxwrpt, erxrdpt, unread, gNextPacketPtr, stray, sending, tx, txerif>>

Size == RXSTOP_INIT + 1
Ring == 0 .. RXSTOP_INIT
Bytes(f) == {(f.at + i) % Size : i \in 0 .. f.len - 1}

\* The chip's own count of the room left, as its data sheet gives it.
Free ==
  IF erxwrpt >= erxrdpt THEN Size - 1 - (erxwrpt - erxrdpt) ELSE erxrdpt - erxwrpt - 1

Init ==
  /\ erxwrpt = 0 /\ erxrdpt = 0 /\ unread = <<>> /\ gNextPacketPtr = 0 /\ stray = FALSE
  /\ sending = FALSE /\ tx = "idle" /\ txerif = FALSE

\* A restart: the driver's variables and, by SOFT_RESET, the chip's.
Initialize ==
  /\ erxwrpt' = 0 /\ erxrdpt' = 0 /\ unread' = <<>> /\ gNextPacketPtr' = 0 /\ stray' = FALSE
  /\ sending' = FALSE /\ tx' = "idle" /\ txerif' = FALSE

----------------------------------------------------------------------------
(* Receiving.                                                              *)

\* The chip (external) takes a frame if it has room; what it writes over is
\* no longer whole.
ChipReceives(n) ==
  LET f == [at |-> erxwrpt, len |-> n, next |-> (erxwrpt + n) % Size, whole |-> TRUE]
      Kept(g) == [g EXCEPT !.whole = g.whole /\ Bytes(g) \cap Bytes(f) = {}]
  IN /\ n <= Free /\ Len(unread) < MaxUnread
     /\ unread' = Append([i \in DOMAIN unread |-> Kept(unread[i])], f)
     /\ erxwrpt' = f.next
     /\ UNCHANGED <<erxrdpt, gNextPacketPtr, stray, transmitter>>

\* What the header at gNextPacketPtr says; anything, if a frame has been
\* written over or none begins there.
Header ==
  IF Head(unread).whole /\ Head(unread).at = gNextPacketPtr
  THEN {Head(unread).next} ELSE 0 .. Mem - 1

\* ERXRDPT for the frame that begins at next.  gNextPacketPtr is an int: for
\* next = 0 the comparison is of -1, and the register is written 0xFFFF.
ReadPointer(next) == IF next - 1 > RXSTOP_INIT THEN RXSTOP_INIT ELSE (next - 1) % Mem

\* Mutant: the frame's room is not given back, only that of the one before.
PacketReceive_OneBehind ==
  /\ ~sending /\ unread # <<>>
  /\ gNextPacketPtr' \in Header
  /\ erxrdpt' = IF gNextPacketPtr = 0 THEN RXSTOP_INIT ELSE gNextPacketPtr - 1
  /\ stray' = (stray \/ erxrdpt' \notin Ring)
  /\ unread' = Tail(unread)
  /\ UNCHANGED <<erxwrpt, transmitter>>
\* Mutant: EPKTCNT is not decremented.
PacketReceive_NoDec ==
  /\ ~sending /\ unread # <<>>
  /\ gNextPacketPtr' \in Header
  /\ erxrdpt' = ReadPointer(gNextPacketPtr')
  /\ stray' = (stray \/ erxrdpt' \notin Ring)
  /\ UNCHANGED <<unread, erxwrpt, transmitter>>
PacketReceive ==
  /\ ~sending /\ unread # <<>>
  /\ gNextPacketPtr' \in Header
  /\ erxrdpt' = ReadPointer(gNextPacketPtr')
  /\ stray' = (stray \/ erxrdpt' \notin Ring)
  /\ unread' = Tail(unread)
  /\ UNCHANGED <<erxwrpt, transmitter>>

----------------------------------------------------------------------------
(* Sending.                                                                *)

PacketSend == ~sending /\ sending' = TRUE /\ UNCHANGED <<ring, tx, txerif>>

\* Mutant: an error is waited out.
ResetTx_Waits == sending /\ tx # "idle" /\ txerif /\ UNCHANGED vars
\* TXRST, whether the error is this frame's or an old one's.
ResetTx ==
  /\ sending /\ tx # "idle" /\ txerif
  /\ tx' = "idle"
  /\ UNCHANGED <<ring, sending, txerif>>
Transmit ==
  /\ sending /\ tx = "idle"
  /\ tx' = "busy" /\ sending' = FALSE
  /\ UNCHANGED <<ring, txerif>>

\* The chip (external): the frame is sent, or fails and may leave TXRTS set.
TxEnds ==
  /\ tx = "busy"
  /\ \/ tx' = "idle" /\ txerif' \in {txerif, TRUE}
     \/ tx' = "stuck" /\ txerif' = TRUE
  /\ UNCHANGED <<ring, sending>>

Next ==
  \/ \E n \in Lengths : ChipReceives(n)
  \/ PacketReceive \/ PacketSend \/ ResetTx \/ Transmit \/ TxEnds \/ Initialize

\* The driver's loop runs on, and the chip ends what it began.
Spec == Init /\ [][Next]_vars /\ WF_vars(ResetTx) /\ WF_vars(Transmit) /\ WF_vars(TxEnds)

----------------------------------------------------------------------------
Frame == [at : Ring, len : Lengths, next : Ring, whole : BOOLEAN]

\* Types; the transmitter is stuck only with its error flag set.
TypeOK ==
  /\ erxwrpt \in Ring /\ erxrdpt \in 0 .. Mem - 1 /\ gNextPacketPtr \in 0 .. Mem - 1
  /\ \A i \in DOMAIN unread : unread[i] \in Frame
  /\ Len(unread) <= MaxUnread
  /\ {stray, sending, txerif} \subseteq BOOLEAN /\ tx \in {"idle", "busy", "stuck"}
  /\ tx = "stuck" => txerif

\* Whatever the order of receiving and reading, also round the end of the
\* ring, no frame is written over before packetReceive() has read it, and the
\* driver and the chip agree where the next one begins -- as long as ERXRDPT
\* has stayed in the ring.
FramesIntact ==
  /\ TypeOK
  /\ ~stray => /\ \A i \in DOMAIN unread : unread[i].whole
               /\ gNextPacketPtr = IF unread = <<>> THEN erxwrpt ELSE Head(unread).at

\* When everything is read, all of the ring but two bytes is free again.
NoLeak == ~stray /\ unread = <<>> => Free >= Size - 2

\* packetSend() returns, whether transmissions succeed, fail or hang.
SendEnds == sending ~> ~sending
=============================================================================
