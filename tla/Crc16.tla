------------------------------- MODULE Crc16 -------------------------------
(***************************************************************************)
(* The CRC of avr-libc's <util/crc16.h>, over the byte table of its        *)
(* polynomial, and crc_calc() of rw_helpers.ino.                           *)
(***************************************************************************)
EXTENDS Naturals, Sequences, Bitwise

Shift(c) == IF c % 2 = 1 THEN (c \div 2) ^^ 40961 ELSE c \div 2    \* 0xA001
Table == [b \in 0..255 |->
            LET s[k \in 0..8] == IF k = 0 THEN b ELSE Shift(s[k - 1]) IN s[8]]

_crc16_update(crc, byte) == (crc \div 256) ^^ Table[(crc % 256) ^^ byte]

Crc16(bytes) ==
  LET c[k \in 0..Len(bytes)] ==
        IF k = 0 THEN 0 ELSE _crc16_update(c[k - 1], bytes[k])
  IN c[Len(bytes)]
=============================================================================
