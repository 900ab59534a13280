------------------------------ MODULE Address ------------------------------
(***************************************************************************)
(* An address as a field of a TPDU: wms_ts_encode_address and              *)
(* wms_ts_decode_address.  A number has one digit in each half of an       *)
(* octet, a name is packed in 7-bit characters; in both cases the length   *)
(* octet counts half octets.                                               *)
(*                                                                         *)
(* An address is [type, plan, digits], its digits of four bits or, when it *)
(* is alphanumeric, of seven.  digit_mode is not read when it is encoded,  *)
(* and set from the type when it is decoded.                               *)
(***************************************************************************)
EXTENDS BitFields

ADDRESS_MAX == 20          \* WMS_GW_ADDRESS_MAX
ALPHANUMERIC == 5          \* WMS_NUMBER_ALPHANUMERIC
FILLER == 15               \* behind an odd number of digits

AddressType == [type : 0..7, plan : 0..15, digits : Seq(0..127)]
WellTyped(a) == a.type # ALPHANUMERIC => \A k \in DOMAIN a.digits : a.digits[k] <= 15

-----------------------------------------------------------------------------
(* ---- encoding ----------------------------------------------------------*)
LengthOctet(a) == IF a.type = ALPHANUMERIC THEN (7 * Len(a.digits) + 3) \div 4 ELSE Len(a.digits)

(* Of a digit the low half is taken.                                        *)
SemiOctets(digits) ==
  LET half(k) == IF k > Len(digits) THEN FILLER ELSE digits[k] % 16
  IN [k \in 1..(Len(digits) + 1) \div 2 |-> half(2 * k - 1) + 16 * half(2 * k)]

(* Nothing is written of an address that is too long.                       *)
EncodeAddress(a) ==
  IF Len(a.digits) > ADDRESS_MAX THEN <<>>
  ELSE <<LengthOctet(a), 128 + 16 * a.type + a.plan>>
       \o IF a.type = ALPHANUMERIC THEN PackSeptets(a.digits, 0) ELSE SemiOctets(a.digits)

(* ---- decoding, of octets that begin with an address --------------------*)
(* The length octet is compared with the maximum of digits, though of a     *)
(* name it counts more.                                                     *)
AddressAccepted(d) == d[1] <= ADDRESS_MAX
AddressOctets(d) == 2 + (d[1] + 1) \div 2

TypeIn(d) == (d[2] \div 16) % 8
Characters(d) == (4 * d[1]) \div 7

DecodeAddress(d) ==
  LET body == SubSeq(d, 3, Len(d))
      half(k) == IF k % 2 = 1 THEN body[(k + 1) \div 2] % 16 ELSE body[k \div 2] \div 16
  IN [type |-> TypeIn(d), plan |-> d[2] % 16,
      digits |-> IF TypeIn(d) = ALPHANUMERIC THEN UnpackSeptets(body, Characters(d), 0)
                                             ELSE [k \in 1..d[1] |-> half(k)]]
=============================================================================
