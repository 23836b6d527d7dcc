------------------------------ MODULE Packets ------------------------------
(***************************************************************************)
(* The arithmetic of packets (tcpip.cpp): checksums and the numbers of TCP *)
(* segments.  Bytes are numbers; a packet is a sequence of them.           *)
(***************************************************************************)
EXTENDS Integers, Sequences

CONSTANTS
  SampleBytes,  \* the bytes packets are made of here
  MaxMessage    \* length of the longest message with a checksum

ASSUME PacketsAssumption == SampleBytes \subseteq 0 .. 255 /\ MaxMessage \in Nat

Byte == 256
Word == Byte * Byte

(* Checksums. *)

\* The bytes in pairs, high byte first; an odd one is a high byte.
PairSum(bytes) ==
  LET sum[k \in 0 .. Len(bytes)] ==
        IF k = 0 THEN 0 ELSE sum[k - 1] + (IF k % 2 = 1 THEN Byte ELSE 1) * bytes[k]
  IN sum[Len(bytes)]
\* The carries are added in again until there are none.
fold[sum \in Nat] == IF sum < Word THEN sum ELSE fold[(sum % Word) + (sum \div Word)]

\* What the sum starts with: of UDP (1) and TCP (2) the protocol and the length,
\* the rest of the pseudo header being the eight bytes before the header.
Start(type, len) == CASE type = 1 -> 17 + len - 8 [] type = 2 -> 6 + len - 8 [] OTHER -> 0

fill_checksum(bytes, type) == Word - 1 - fold[Start(type, Len(bytes)) + PairSum(bytes)]

WithChecksum(bytes, at, ck) == [bytes EXCEPT ![at] = ck \div Byte, ![at + 1] = ck % Byte]
Verifies(bytes, type) == fold[Start(type, Len(bytes)) + PairSum(bytes)] = Word - 1

Messages == UNION {[1 .. n -> SampleBytes] : n \in 2 .. MaxMessage}

\* A packet with the checksum filled in, wherever in it and of whatever length,
\* passes the receiver's check: the sum with the checksum is all ones.
ChecksumVerifies ==
  \A bytes \in Messages, type \in 0 .. 2 : \A at \in {k \in 1 .. Len(bytes) - 1 : k % 2 = 1} :
    LET blank == WithChecksum(bytes, at, 0)
    IN Verifies(WithChecksum(blank, at, fill_checksum(blank, type)), type)

\* The reply to a ping is the request with type 0 in place of 8, and 8 added to
\* the checksum's high byte; a carry out of that goes to the low byte.
\* Mutant: it does not.
make_echo_reply_from_request_NoCarry(request) ==
  [request EXCEPT ![1] = 0, ![3] = (@ + 8) % Byte]
make_echo_reply_from_request(request) ==
  [request EXCEPT ![1] = 0, ![3] = (@ + 8) % Byte,
                  ![4] = IF request[3] > 255 - 8 THEN (@ + 1) % Byte ELSE @]

EchoRequests ==
  {WithChecksum(r, 3, fill_checksum(r, 0)) : r \in {8} \X {0} \X {0} \X {0} \X (0 .. 255) \X SampleBytes}

\* The reply passes the check as the request did -- but for the requests whose
\* low byte overflows in its turn: that carry is lost.
EchoReplyVerifies ==
  \A r \in EchoRequests :
    Verifies(make_echo_reply_from_request(r), 0) <=> ~(r[3] > 255 - 8 /\ r[4] = 255)

(* The numbers of an answer: step_seq works in place, from the last byte. *)

\* rel, sixteen bits wide: a byte added to it; its low byte is the new byte, and
\* what is above that goes on to the next.
StepByte(rel, b) == (rel + b) % Word
step_seq(seq, ack, rel, cp_seq) ==
  LET rel4 == StepByte(rel, seq[4])
      rel3 == StepByte(rel4 \div Byte, seq[3])
      rel2 == StepByte(rel3 \div Byte, seq[2])
      rel1 == StepByte(rel2 \div Byte, seq[1])
  IN [ack |-> <<rel1 % Byte, rel2 % Byte, rel3 % Byte, rel4 % Byte>>,
      seq |-> IF cp_seq THEN ack ELSE <<0, 0, 0, 0>>]

\* The low three bytes of a number: TLC's integers have 32 bits, with the sign.
Low(seq) == Word * seq[2] + Byte * seq[3] + seq[4]

\* What is added to them here: lengths of a segment, and what carries furthest.
Rels == {0, 1, 4, 550, 1460, Word - 256, Word - 255, Word - 1}

\* Byte by byte, the acknowledgement is the sum modulo 2^32 (here 2^24 and 2^8,
\* where the numbers fit), unless rel is so near 2^16 that adding to it wraps.
StepSeqAdds ==
  \A top, b, c, d \in SampleBytes, rel \in Rels :
    LET seq == <<top, b, c, d>>
        ack == step_seq(seq, seq, rel, TRUE).ack
        sum == Low(seq) + rel
    IN rel + d < Word => /\ Low(ack) = sum % (Byte * Word)
                         /\ ack[1] = (top + (sum \div (Byte * Word))) % Byte
=============================================================================
