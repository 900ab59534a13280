------------------------------ MODULE Septets ------------------------------
(***************************************************************************)
(* wms_ts_pack_gw_7_bit_chars and wms_ts_unpack_gw_7_bit_chars: the two    *)
(* loops that turn GSM 7-bit characters into octets, after 0 to 6 fill     *)
(* bits, and back.  One action is one turn of a loop.                      *)
(*                                                                         *)
(* Bits are symbolic: the octets are numbered bit by bit from 0 (bit b of  *)
(* octet p is 8 * p + b), and what is recorded is where each bit of each   *)
(* character goes, not its value, so one behaviour stands for every text.  *)
(* A behaviour packs a text of n characters and unpacks the octets again,  *)
(* with the arguments wms_ts_encode_gw_user_data and                       *)
(* wms_ts_decode_gw_user_data pass.                                        *)
(***************************************************************************)
EXTENDS Integers, FiniteSets

CONSTANTS MaxChars,   \* longest text (160 in a TPDU)
          Caps        \* values of out_len_max of the packer, in octets

ASSUME MaxCharsAssumption == MaxChars \in Nat /\ Caps \subseteq Nat \ {0}

VARIABLES n, fill, cap,    \* in_len, the fill bits and out_len_max
          pc,              \* "fill", "pack", "skip", "unpack", "done"
          pos, i, shift,   \* the locals of the running function
          packed,          \* <<k, c, b>>: bit k of the octets is bit b of character c
          octets,          \* what the packer returned
          taken            \* <<c, b, k>>: bit b of character c was read from bit k

vars == <<n, fill, cap, pc, pos, i, shift, packed, octets, taken>>

Init == /\ n \in 0..MaxChars /\ fill \in 0..6 /\ cap \in Caps
        /\ pc = "fill" /\ pos = 0 /\ i = 0 /\ shift = fill
        /\ packed = {} /\ octets = 0 /\ taken = {}

Arguments == <<n, fill, cap>>

(* Character c, shifted left by s, lands in octet p; a shift by -s is one   *)
(* to the right.  The assignment keeps the low eight bits.                  *)
Put(p, c, s) == {<<8 * p + b + s, c, b>> : b \in {x \in 0..6 : x + s \in 0..7}}

(* Octet p, shifted left by s and masked to seven bits, lands in char c.    *)
Take(c, p, s) == {<<c, b + s, 8 * p + b>> : b \in {x \in 0..7 : x + s \in 0..6}}

(* if (shift != 0): the first octet starts with the fill bits.              *)
PackFill == /\ pc = "fill" /\ pc' = "pack"
            /\ IF fill = 0 THEN UNCHANGED <<pos, i, shift, packed>>
               ELSE /\ packed' = Put(0, 0, fill)
                    /\ shift' = IF fill = 1 THEN 0 ELSE 8 - fill
                    /\ i' = IF fill = 1 THEN 1 ELSE 0
                    /\ pos' = 1
            /\ UNCHANGED <<Arguments, octets, taken>>

(* Broken variants, for showing that the properties notice: here the shift  *)
(* is not brought round,                                                    *)
BugShiftOctet ==
  /\ pc = "pack" /\ pos < cap /\ i < n
  /\ packed' = packed \union Put(pos, i, 0 - shift)
                \union IF i + 1 < n THEN Put(pos, i + 1, 7 - shift) ELSE {}
  /\ shift' = IF i + 1 < n THEN shift + 1 ELSE shift
  /\ i' = i + 1 /\ pos' = pos + 1
  /\ UNCHANGED <<Arguments, pc, octets, taken>>

(* and here the character that was used up is not skipped.                  *)
BugPackOctet ==
  /\ pc = "pack" /\ pos < cap /\ i < n
  /\ packed' = packed \union Put(pos, i, 0 - shift)
                \union IF i + 1 < n THEN Put(pos, i + 1, 7 - shift) ELSE {}
  /\ shift' = IF i + 1 < n THEN (shift + 1) % 7 ELSE shift
  /\ i' = i + 1 /\ pos' = pos + 1
  /\ UNCHANGED <<Arguments, pc, octets, taken>>

(* One octet: the rest of character i and the start of character i + 1,    *)
(* which is used up when seven of its bits have fitted.                    *)
PackOctet ==
  /\ pc = "pack" /\ pos < cap /\ i < n
  /\ IF i + 1 < n
       THEN /\ packed' = packed \union Put(pos, i, 0 - shift) \union Put(pos, i + 1, 7 - shift)
            /\ shift' = (shift + 1) % 7
            /\ i' = IF shift = 6 THEN i + 2 ELSE i + 1
       ELSE /\ packed' = packed \union Put(pos, i, 0 - shift)
            /\ i' = i + 1
            /\ UNCHANGED shift
  /\ pos' = pos + 1
  /\ UNCHANGED <<Arguments, pc, octets, taken>>

(* return pos; the receiver unpacks in_len = n characters with the shift    *)
(* 8 - fill that wms_ts_decode_gw_user_data computes.                       *)
PackDone == /\ pc = "pack" /\ ~(pos < cap /\ i < n)
            /\ pc' = "skip" /\ octets' = pos
            /\ pos' = 0 /\ i' = 0 /\ shift' = IF fill = 0 THEN 0 ELSE 8 - fill
            /\ UNCHANGED <<Arguments, packed, taken>>

UnpackFill == /\ pc = "skip" /\ pc' = "unpack"
              /\ pos' = IF shift = 0 THEN 0 ELSE 1
              /\ IF shift = 7 THEN taken' = Take(0, 0, -1) /\ shift' = 0 /\ i' = 1
                              ELSE UNCHANGED <<taken, shift, i>>
              /\ UNCHANGED <<Arguments, packed, octets>>

(* The second character of an octet is left to the next turn. *)
BugUnpackChar ==
  LET low == IF pos = 0 THEN {} ELSE Take(i, pos - 1, shift - 8)
  IN /\ pc = "unpack" /\ i < n
     /\ taken' = taken \union Take(i, pos, shift) \union low
     /\ i' = i + 1
     /\ shift' = (shift + 1) % 7
     /\ pos' = pos + 1
     /\ UNCHANGED <<Arguments, pc, packed, octets>>

(* One character, and the one that lies in the same octet when the shift   *)
(* comes round (its index is checked against the buffer, not against n).    *)
UnpackChar ==
  LET low == IF pos = 0 THEN {} ELSE Take(i, pos - 1, shift - 8)
      one == taken \union Take(i, pos, shift) \union low
  IN /\ pc = "unpack" /\ i < n
     /\ IF shift = 6 THEN taken' = one \union Take(i + 1, pos, -1) /\ i' = i + 2
                     ELSE taken' = one /\ i' = i + 1
     /\ shift' = (shift + 1) % 7
     /\ pos' = pos + 1
     /\ UNCHANGED <<Arguments, pc, packed, octets>>

(* The loop runs while i differs from n. *)
BugUnpackDone == /\ pc = "unpack" /\ i = n
                 /\ pc' = "done"
                 /\ UNCHANGED <<Arguments, pos, i, shift, packed, octets, taken>>

UnpackDone == /\ pc = "unpack" /\ i >= n
              /\ pc' = "done"
              /\ UNCHANGED <<Arguments, pos, i, shift, packed, octets, taken>>

Next == PackFill \/ PackOctet \/ PackDone \/ UnpackFill \/ UnpackChar \/ UnpackDone

Spec == Init /\ [][Next]_vars /\ WF_vars(Next)

-----------------------------------------------------------------------------
(* Where bit b of character c belongs (3GPP 23.038, 6.1.2.1.1).             *)
Place(c, b) == fill + 7 * c + b
OctetsFor(bits) == (bits + 7) \div 8
Fits == OctetsFor(fill + 7 * n) <= cap

TypeOK == /\ n \in 0..MaxChars /\ fill \in 0..6 /\ cap \in Caps
          /\ pc \in {"fill", "pack", "skip", "unpack", "done"}
          /\ pos \in Nat /\ i \in Nat /\ shift \in 0..7 /\ octets \in Nat
          /\ packed \subseteq Nat \X Nat \X (0..6)
          /\ taken \subseteq Nat \X (0..6) \X Nat

(* The three cursors of the packer agree at every turn: the next octet      *)
(* starts with bit number `shift' of character i.  With the branch that     *)
(* skips a character when the shift comes round this is what a test of a    *)
(* few lengths would miss.                                                  *)
PackCursors ==
  pc = "pack" /\ pos > 0 /\ i < n => 8 * pos = Place(i, shift)

(* Likewise for the unpacker: octet pos holds the top bits of character i.  *)
UnpackCursors == pc = "unpack" /\ pos > 0 => 8 * pos = Place(i, shift)

(* The packer puts every bit where it belongs and no bit twice: the octets  *)
(* written so far are the reference bit stream cut off at 8 * pos.          *)
Written == IF pc \in {"fill", "pack"} THEN pos ELSE octets
PackedIsStream ==
  /\ \A x \in packed : x[1] = Place(x[2], x[3]) /\ x[1] \in 0..8 * Written - 1
  /\ \A c \in 0..n - 1, b \in 0..6 :
       Place(c, b) < 8 * Written => <<Place(c, b), c, b>> \in packed

(* The number of octets returned is the number the bits need, unless the    *)
(* buffer is smaller.                                                       *)
OctetsReturned ==
  pc \in {"skip", "unpack", "done"} =>
    octets = IF Fits THEN OctetsFor(fill + 7 * n) ELSE cap

(* The unpacker reads each bit of each character from the place where it    *)
(* belongs.                                                                 *)
TakenFromStream == \A x \in taken : x[3] = Place(x[1], x[2])

(* The unpacker never looks at an octet the packer did not produce.         *)
NoOverread == \A x \in taken : x[3] < 8 * octets

(* When both have run, every bit of every character has come back from the  *)
(* octet bit the packer put it in, and the unpacker stepped over exactly    *)
(* the octets the packer produced.                                          *)
AllBack ==
  /\ \A c \in 0..n - 1, b \in 0..6 : \E k \in 0..8 * octets - 1 :
       <<c, b, k>> \in taken /\ <<k, c, b>> \in packed
  /\ pos = octets

(* A text that fits the buffer comes back whole, out of its own octets.     *)
RoundTrip == Fits /\ n > 0 => NoOverread /\ (pc = "done" => AllBack)

(* Both loops end. *)
Terminates == <>(pc = "done")
=============================================================================
