------------------------------- MODULE Crc16 -------------------------------
(***************************************************************************)
(* protocol::crc16_modbus(), the checksum of UART frames and of Modbus RTU *)
(* frames, and what it is meant to compute: the remainder of a polynomial  *)
(* over GF(2).                                                             *)
(***************************************************************************)
EXTENDS Integers, Sequences

(* a ^ b, as a recursive function: the definitions that use it are then    *)
(* constants that TLC computes once.                                       *)
Xor[a \in Nat, b \in Nat] ==
    IF a = 0 THEN b ELSE 2 * Xor[a \div 2, b \div 2] + ((a + b) % 2)

(* One turn of the inner loop; the constant is 0xA001.                     *)
BitStep[crc \in Nat] == IF crc % 2 = 1 THEN Xor[crc \div 2, 40961] ELSE crc \div 2

(* crc ^= data[i] followed by the inner loop over eight bits.              *)
ByteStep[crc \in Nat, byte \in Nat] ==
    BitStep[BitStep[BitStep[BitStep[BitStep[BitStep[BitStep[BitStep[Xor[crc, byte]]]]]]]]]

(* A faulty crc16_modbus: the register starts at 0.                        *)
crc16_from_zero(data) ==
    LET crc[n \in 0..Len(data)] == IF n = 0 THEN 0 ELSE ByteStep[crc[n - 1], data[n]]
    IN  crc[Len(data)]

crc16_modbus(data) ==
    LET crc[n \in 0..Len(data)] == IF n = 0 THEN 65535 ELSE ByteStep[crc[n - 1], data[n]]
    IN  crc[Len(data)]

-----------------------------------------------------------------------------
(* A polynomial over GF(2) is the number whose bits are its coefficients.  *)
(* Long division takes one coefficient of the dividend at a time, from the *)
(* highest down; the divisor is x^16 + x^15 + x^2 + 1.                     *)
Divide[rest \in Nat, bit \in {0, 1}] ==
    LET next == 2 * rest + bit
    IN  IF next >= 65536 THEN Xor[next, 98309] ELSE next

(* The coefficients a byte stands for, its lowest bit sent first.          *)
DivideByte[rest \in Nat, byte \in Nat] ==
    LET Bit(k) == (byte \div 2^k) % 2
        half == Divide[Divide[Divide[Divide[rest, Bit(0)], Bit(1)], Bit(2)], Bit(3)]
    IN  Divide[Divide[Divide[Divide[half, Bit(4)], Bit(5)], Bit(6)], Bit(7)]

(* The remainder of the data with its first sixteen bits inverted and      *)
(* sixteen zeros behind it; the checksum has the coefficient of x^(15 - k) *)
(* in bit k.                                                               *)
RemainderCrc(data) ==
    LET bytes == [i \in 1..(Len(data) + 2) |->
                     CASE i > Len(data) -> 0 [] i <= 2 -> 255 - data[i] [] OTHER -> data[i]]
        rest[n \in 0..Len(bytes)] == IF n = 0 THEN 0 ELSE DivideByte[rest[n - 1], bytes[n]]
        remainder == rest[Len(bytes)]
        mirrored[k \in 0..16] ==
            IF k = 0 THEN 0
            ELSE 2 * mirrored[k - 1] + ((remainder \div 2^(k - 1)) % 2)
    IN  mirrored[16]
=============================================================================
