------------------------------- MODULE Frames -------------------------------
(***************************************************************************)
(* Frames of the serial protocol: the CRC of utils.c:52-166, the patch for *)
(* a shifted header, and which bytes data_port_read_any_data (proto.c:263) *)
(* takes for an answer.  A message is a sequence of bytes; the lengths of  *)
(* the two long answers are constants.                                     *)
(***************************************************************************)
EXTENDS Integers, Sequences

CONSTANTS
  StatusSize,   \* sizeof(DEV_STATUS_STRUCT)
  DataSize      \* sizeof(ADS1282_PACK_STRUCT)

ShortSize == 5  \* an acknowledgement: length (2), st_main, CRC (2)

(* The patch reads the first eleven bytes of a long answer.                *)
ASSUME SizesAssumption ==
  /\ StatusSize \in Nat /\ DataSize \in Nat
  /\ 11 <= StatusSize /\ StatusSize < DataSize /\ DataSize <= 65535

Byte == 0 .. 255

-----------------------------------------------------------------------------
(* The CRC.                                                                *)

Bit(n, i) == (n \div 2^i) % 2

Nibbles == [a \in 0 .. 15 |-> [b \in 0 .. 15 |->
              LET x(i) == ((Bit(a, i) + Bit(b, i)) % 2) * 2^i
              IN  x(0) + x(1) + x(2) + x(3)]]

(* a ^ b, of 16 bits                                                       *)
Xor(a, b) ==
  LET x(k) == Nibbles[(a \div k) % 16][(b \div k) % 16] * k
  IN  x(1) + x(16) + x(256) + x(4096)

Crc16Table ==
  <<\h0000, \h8005, \h800F, \h000A, \h801B, \h001E, \h0014, \h8011,
    \h8033, \h0036, \h003C, \h8039, \h0028, \h802D, \h8027, \h0022,
    \h8063, \h0066, \h006C, \h8069, \h0078, \h807D, \h8077, \h0072,
    \h0050, \h8055, \h805F, \h005A, \h804B, \h004E, \h0044, \h8041,
    \h80C3, \h00C6, \h00CC, \h80C9, \h00D8, \h80DD, \h80D7, \h00D2,
    \h00F0, \h80F5, \h80FF, \h00FA, \h80EB, \h00EE, \h00E4, \h80E1,
    \h00A0, \h80A5, \h80AF, \h00AA, \h80BB, \h00BE, \h00B4, \h80B1,
    \h8093, \h0096, \h009C, \h8099, \h0088, \h808D, \h8087, \h0082,
    \h8183, \h0186, \h018C, \h8189, \h0198, \h819D, \h8197, \h0192,
    \h01B0, \h81B5, \h81BF, \h01BA, \h81AB, \h01AE, \h01A4, \h81A1,
    \h01E0, \h81E5, \h81EF, \h01EA, \h81FB, \h01FE, \h01F4, \h81F1,
    \h81D3, \h01D6, \h01DC, \h81D9, \h01C8, \h81CD, \h81C7, \h01C2,
    \h0140, \h8145, \h814F, \h014A, \h815B, \h015E, \h0154, \h8151,
    \h8173, \h0176, \h017C, \h8179, \h0168, \h816D, \h8167, \h0162,
    \h8123, \h0126, \h012C, \h8129, \h0138, \h813D, \h8137, \h0132,
    \h0110, \h8115, \h811F, \h011A, \h810B, \h010E, \h0104, \h8101,
    \h8303, \h0306, \h030C, \h8309, \h0318, \h831D, \h8317, \h0312,
    \h0330, \h8335, \h833F, \h033A, \h832B, \h032E, \h0324, \h8321,
    \h0360, \h8365, \h836F, \h036A, \h837B, \h037E, \h0374, \h8371,
    \h8353, \h0356, \h035C, \h8359, \h0348, \h834D, \h8347, \h0342,
    \h03C0, \h83C5, \h83CF, \h03CA, \h83DB, \h03DE, \h03D4, \h83D1,
    \h83F3, \h03F6, \h03FC, \h83F9, \h03E8, \h83ED, \h83E7, \h03E2,
    \h83A3, \h03A6, \h03AC, \h83A9, \h03B8, \h83BD, \h83B7, \h03B2,
    \h0390, \h8395, \h839F, \h039A, \h838B, \h038E, \h0384, \h8381,
    \h0280, \h8285, \h828F, \h028A, \h829B, \h029E, \h0294, \h8291,
    \h82B3, \h02B6, \h02BC, \h82B9, \h02A8, \h82AD, \h82A7, \h02A2,
    \h82E3, \h02E6, \h02EC, \h82E9, \h02F8, \h82FD, \h82F7, \h02F2,
    \h02D0, \h82D5, \h82DF, \h02DA, \h82CB, \h02CE, \h02C4, \h82C1,
    \h8243, \h0246, \h024C, \h8249, \h0258, \h825D, \h8257, \h0252,
    \h0270, \h8275, \h827F, \h027A, \h826B, \h026E, \h0264, \h8261,
    \h0220, \h8225, \h822F, \h022A, \h823B, \h023E, \h0234, \h8231,
    \h8213, \h0216, \h021C, \h8219, \h0208, \h820D, \h8207, \h0202>>

(* Bug: the byte that leaves the register is not looked up.                *)
BugStep(crc, byte) == Xor((crc % 256) * 256 + byte, Crc16Table[byte + 1])

(* One byte goes into the register, the one that leaves it into the table. *)
Step(crc, byte) ==
  Xor((crc % 256) * 256 + byte, Crc16Table[(crc \div 256) + 1])

Crc(mes) ==
  LET crc[i \in 0 .. Len(mes)] == IF i = 0 THEN 0 ELSE Step(crc[i - 1], mes[i])
  IN  crc[Len(mes)]

(* The same by definition: the message, the highest bit first, divided by  *)
(* x^16 + x^15 + x^2 + 1.                                                  *)
Remainder(mes) ==
  LET bits == 8 * Len(mes)
      r[i \in 0 .. bits] ==
        IF i = 0 THEN 0
        ELSE LET bit == Bit(mes[(i + 7) \div 8], 7 - ((i - 1) % 8))
                 x == 2 * r[i - 1] + bit
             IN  IF x >= 65536 THEN Xor(x % 65536, \h8005) ELSE x
  IN  r[bits]

(* A message of the device, or add_crc16's command: the CRC over the bytes *)
(* and two zeros takes their place, high byte first.                       *)
add_crc16(bytes) ==
  LET crc == Crc(bytes \o <<0, 0>>)
  IN  bytes \o <<crc \div 256, crc % 256>>

-----------------------------------------------------------------------------
(* What is taken for an answer.                                            *)

(* The 16 bits at offset i, plus the length itself and the CRC.            *)
LengthAt(mes, i) == (mes[i + 1] + 256 * mes[i + 2] + 4) % 65536

(* Bug: the message is left where it is.                                   *)
BugMoved(mes, size, i) == mes

(* memmove(mes, mes + i, size - i)                                         *)
Moved(mes, size, i) ==
  [k \in 1 .. size |-> IF k <= size - i THEN mes[k + i] ELSE mes[k]]

NoCrc == 65535  \* return -1, of 16 bits

(* "A patch, if the header shifts": a long answer that does not begin with *)
(* its length is moved to where it is found, or, a status, left where it   *)
(* is, given its length and taken, CRC unseen.  The result goes with what  *)
(* is then in the buffer.                                                  *)
test_crc16(mes, size) ==
  LET at == {i \in 0 .. 9 : LengthAt(mes, i) = size}
      first == CHOOSE i \in at : \A j \in at : i <= j
      moved == IF at = {} THEN mes ELSE Moved(mes, size, first)
  IN  IF size \notin {StatusSize, DataSize} \/ LengthAt(mes, 0) = size
        THEN [crc |-> Crc(SubSeq(mes, 1, size)), mes |-> mes]
      ELSE IF at = {} /\ size = DataSize
        THEN [crc |-> NoCrc, mes |-> mes]
      ELSE [crc |-> 0,
            mes |-> [moved EXCEPT ![1] = (size - 4) % 256, ![2] = (size - 4) \div 256]]

(* Bug: a long answer that was cut is passed on.                           *)
BugRefused(read, len, test) == Len(read) # ShortSize /\ test.crc # 0

(* Fewer bytes than wanted, and not five, are no answer.                   *)
Refused(read, len, test) ==
  (Len(read) < len /\ Len(read) # ShortSize) \/ test.crc # 0

(* data_port_read_any_data, of the bytes read into a buffer of len zeros.  *)
(* "Try to fix": of data, anything longer than six bytes will do if it     *)
(* begins with the right length.                                           *)
read_any_data(read, len) ==
  LET num == Len(read)
      buf == read \o [k \in 1 .. len - num |-> 0]
      cut == num < len /\ num # ShortSize
      test == IF cut THEN [crc |-> 0, mes |-> buf] ELSE test_crc16(buf, num)
      ok == ~ Refused(read, len, test)
  IN  [ok |-> ok \/ (len = DataSize /\ num > 6 /\ LengthAt(test.mes, 0) = DataSize),
       buf |-> test.mes]

=============================================================================
