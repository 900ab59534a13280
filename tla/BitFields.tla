----------------------------- MODULE BitFields -----------------------------
(***************************************************************************)
(* Fields of bits in a sequence of octets: b_packb and b_packw, which the  *)
(* CDMA encoders write every field with, b_unpackb and b_unpackw, which    *)
(* the decoders read them with, and the other order of bits, that of the   *)
(* GSM 7-bit characters.  Octets and bits of a message count from 0.       *)
(***************************************************************************)
EXTENDS Integers, Sequences
LOCAL INSTANCE SequencesExt

(* A field is <<value, width>>; of the value the low `width' bits are kept. *)
BitsOf(f) == [i \in 1..f[2] |-> (f[1] \div 2^(f[2] - i)) % 2]
NumberOf(bits) == LET n[k \in 0..Len(bits)] == IF k = 0 THEN 0 ELSE 2 * n[k - 1] + bits[k]
                  IN n[Len(bits)]

OctetsOf(bits) ==
  [k \in 1..(Len(bits) + 7) \div 8 |->
     NumberOf([i \in 1..8 |-> IF 8 * k - 8 + i <= Len(bits) THEN bits[8 * k - 8 + i] ELSE 0])]

(* Fields one behind the other; the encoders pad the last octet with 0.     *)
Pack(fields) == OctetsOf(FlattenSeq([k \in DOMAIN fields |-> BitsOf(fields[k])]))

(* The arrays that are read were cleared before the message was copied in.  *)
OctetAt(d, k) == IF k < Len(d) THEN d[k + 1] ELSE 0

(* A field has at most 16 bits, so that three octets hold it.               *)
Unpack(d, at, width) ==
  LET k == at \div 8
      three == 65536 * OctetAt(d, k) + 256 * OctetAt(d, k + 1) + OctetAt(d, k + 2)
  IN (three \div 2^(24 - (at % 8) - width)) % 2^width

-----------------------------------------------------------------------------
(* GSM characters: bit b of octet k is bit 8k + b of a stream in which, low *)
(* bit first, character c starts at bit fill + 7c.  That the loops of       *)
(* wms_ts_pack_gw_7_bit_chars produce this stream is shown in Septets.      *)
LowBit(n, b) == (n \div 2^b) % 2
FromLow(w, bit(_)) == NumberOf([i \in 1..w |-> bit(w - i)])

PackSeptets(chars, fill) ==
  LET bit(k) == IF k < fill \/ k >= fill + 7 * Len(chars) THEN 0
                ELSE LowBit(chars[(k - fill) \div 7 + 1], (k - fill) % 7)
  IN [p \in 1..(7 * Len(chars) + fill + 7) \div 8 |->
        FromLow(8, LAMBDA b : bit(8 * p - 8 + b))]

UnpackSeptets(d, n, fill) ==
  LET bit(k) == LowBit(OctetAt(d, k \div 8), k % 8)
  IN [c \in 1..n |-> FromLow(7, LAMBDA b : bit(fill + 7 * c - 7 + b))]
=============================================================================
