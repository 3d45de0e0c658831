-------------------------------- MODULE Crc --------------------------------
(* Fixed-width integers and the 16-bit CRC of CoreMark (core_util.c).      *)
EXTENDS Integers, Bitwise

U8(x) == x % 256
U16(x) == x % 65536
S16(x) == IF U16(x) < 32768 THEN U16(x) ELSE U16(x) - 65536
Bit(x, n) == (x \div 2^n) % 2

(* One turn of crcu8's loop: b is the next bit of the data, low bit first. *)
CrcBit(crc, b) ==
  IF (crc + b) % 2 = 1 THEN ((crc ^^ 16386) \div 2) + 32768 ELSE crc \div 2

crcu8(data, crc) ==
  LET shift[n \in 0..8, c \in 0..65535] ==
        IF n = 8 THEN c ELSE shift[n + 1, CrcBit(c, Bit(data, n))]
  IN shift[0, crc]

crcu16(newval, crc) == crcu8(newval \div 256, crcu8(newval % 256, crc))

crc16(newval, crc) == crcu16(U16(newval), crc)

crcu32(newval, crc) == crc16(newval \div 65536, crc16(newval % 65536, crc))

=============================================================================
